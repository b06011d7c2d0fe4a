---------------------------- MODULE HostContext ----------------------------
(***************************************************************************)
(* class HostContext of evmc.hpp, one object for each execution in         *)
(* progress (EVMEnvironment has it), above one MockedHost.  It hands every *)
(* method on through the host interface; the transaction context it keeps. *)
(***************************************************************************)
EXTENDS MockedHost

CONSTANTS
  Execution,     \* executions that may be in progress
  NoContext      \* no HostContext; no answer yet

\* The zero-initialized evmc_tx_context.
ZeroContext == [block_timestamp |-> 0, block_number |-> 0]

ASSUME ContextAssumption ==
  /\ TxContext \subseteq [block_timestamp : Nat, block_number : Nat]
  /\ NoContext \notin TxContext \cup {ZeroContext}

VARIABLES
  cached,     \* [Execution -> tx_context of its HostContext, or NoContext]
  block       \* history: the first answer with a timestamp it gave
contextVars == <<cached, block>>
vars == <<hostVars, contextVars>>

Live == {e \in Execution : cached[e] # NoContext}

Init ==
  /\ HostInit
  /\ cached = [e \in Execution |-> NoContext]
  /\ block = [e \in Execution |-> NoContext]

\* HostContext::HostContext.
Construct(e) ==
  /\ e \notin Live
  /\ cached' = [cached EXCEPT ![e] = ZeroContext]
  /\ UNCHANGED <<block, hostVars>>

\* Its end, with the execution.
Destruct(e) ==
  /\ e \in Live
  /\ cached' = [cached EXCEPT ![e] = NoContext]
  /\ block' = [block EXCEPT ![e] = NoContext]
  /\ UNCHANGED hostVars

\* Bug: the context is asked for again each time.
NotKept(e) == tx_context

\* What HostContext::get_tx_context returns, and keeps.
Kept(e) ==
  IF cached[e].block_timestamp = 0 THEN get_tx_context ELSE cached[e]

GetTxContext(e) ==
  /\ e \in Live
  /\ cached' = [cached EXCEPT ![e] = Kept(e)]
  /\ block' = [block EXCEPT ![e] =
       IF @ = NoContext /\ Kept(e).block_timestamp # 0 THEN Kept(e) ELSE @]
  /\ UNCHANGED hostVars

\* The other methods: handed on unchanged.
Dispatch == Live # {} /\ HostMethod /\ UNCHANGED contextVars

Client == ClientStep /\ UNCHANGED contextVars

Next ==
  \/ \E e \in Execution : Construct(e) \/ Destruct(e) \/ GetTxContext(e)
  \/ Dispatch
  \/ Client

Spec == Init /\ [][Next]_vars
=============================================================================
