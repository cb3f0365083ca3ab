------------------------------ MODULE MCSessions ------------------------------
(***************************************************************************)
(* Small instances of IzakayaPresence side by side: a behaviour is one of   *)
(* leases, of capsules, of policies, of dirty work, or of retries, where    *)
(* two sessions act for one agent.  A run chooses which of them (Menus).    *)
(***************************************************************************)
EXTENDS MCIzakayaPresence

CONSTANT Menus   \* the menus of the run

VARIABLE menu    \* what the sessions call

SessionCalls == HandoffCalls \cup PolicyCalls \cup WorkCalls

Handoffs == INSTANCE IzakayaPresence WITH Calls <- HandoffCalls
Policies == INSTANCE IzakayaPresence WITH Calls <- PolicyCalls
Work     == INSTANCE IzakayaPresence WITH Calls <- WorkCalls, MaxEvents <- 4
Retries  == INSTANCE IzakayaPresence WITH
                Calls <- RetryCalls, AgentOf <- OneAgent, Replies <- BOOLEAN, MaxEvents <- 3

\* The instance as the .cfg gives it, which for this menu takes LeaseCalls.
LeaseStep   == menu = "leases" /\ Next /\ UNCHANGED menu
HandoffStep == menu = "handoffs" /\ Handoffs!Next /\ UNCHANGED menu
PolicyStep  == menu = "policies" /\ Policies!Next /\ UNCHANGED menu
WorkStep    == menu = "work" /\ Work!Next /\ UNCHANGED menu
RetryStep   == menu = "retries" /\ Retries!Next /\ UNCHANGED menu

SessionsInit == menu \in Menus /\ Init

SessionsNext == LeaseStep \/ HandoffStep \/ PolicyStep \/ WorkStep \/ RetryStep

SessionsSpec == SessionsInit /\ [][SessionsNext]_<<vars, menu>>
=============================================================================
