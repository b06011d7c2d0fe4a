----------------------------- MODULE HostProps -----------------------------
(***************************************************************************)
(* What a VM and a test rely on: the properties of HostContext above       *)
(* MockedHost.                                                             *)
(***************************************************************************)
EXTENDS HostContext

\* Every part of the state has its type, and no record passes its bound.
TypeOK ==
  /\ accounts \subseteq Prepared
  /\ storage \in [Address -> [Key -> storage_value]]
  /\ history \in [Address -> [Key -> Seq(Value)]]
  /\ tx_context \in TxContext
  /\ recorded_account_accesses \in Seq(Address)
  /\ accessed \in Seq(Address)
  /\ recorded_calls \in Seq(RecordedCall)
  /\ Len(recorded_account_accesses) <= MaxAccesses
  /\ Len(recorded_calls) <= MaxCalls
  /\ inputs \in Seq(Input)
  /\ capacity \in Nat /\ generation \in Nat
  /\ recorded_blockhashes \in Seq(Int)
  /\ recorded_logs \in Seq(Address)
  /\ recorded_selfdestructs \in Seq(Address \X Address)
  /\ status \in StorageStatus
  /\ cached \in [Execution -> TxContext \cup {ZeroContext, NoContext}]
  /\ block \in [Execution -> TxContext \cup {NoContext}]

\* What evmc.h says of the status for the values an item went through in
\* the transaction: "0 -> X" added, "X -> 0" deleted, "X -> Y" modified,
\* "X -> Y -> Z" modified again.
StatusFor(h) ==
  CASE Len(h) > 2 -> "MODIFIED_AGAIN"
    [] Len(h) = 2 /\ h[1] = 0 -> "ADDED"
    [] Len(h) = 2 /\ h[1] # 0 /\ h[2] = 0 -> "DELETED"
    [] Len(h) = 2 /\ h[1] # 0 /\ h[2] # 0 -> "MODIFIED"

\* An item is dirty exactly when the transaction has changed it, whichever
\* values it went through, back to the first one included; what is stored
\* is the last of them.
DirtyTellsHistory ==
  \A a \in Address, k \in Key :
    LET h == history[a][k] IN
    /\ Len(h) \in Nat \ {0}
    /\ storage[a][k].value = h[Len(h)]
    /\ storage[a][k].dirty <=> Len(h) > 1

\* The status set_storage returns is the one evmc.h defines for all the
\* values the item went through, although the code keeps only the last one
\* and a flag.
StatusTellsHistory ==
  [][\A a \in Address, k \in Key :
       history'[a][k] # history[a][k] =>
         status' = StatusFor(history'[a][k])]_vars

\* An execution sees one block: once get_tx_context has answered with a
\* timestamp it would answer the same context until the execution ends,
\* whatever the host is given meanwhile and whatever other executions see.
OneBlockPerExecution ==
  \A e \in Live : block[e] # NoContext => Kept(e) = block[e]

\* The record of accesses is the beginning of all accesses in their order.
RecordsFirstAccesses ==
  recorded_account_accesses =
    SubSeq(accessed, 1,
           IF Len(accessed) < MaxAccesses THEN Len(accessed) ELSE MaxAccesses)

\* The inputs recorded calls point at are still where they were copied, and
\* are those sent ("Iterators will not invalidate"): as long as no more
\* inputs than the record holds have been copied since the host was made.
\* A client that clears recorded_calls can go past that.
InputsStayValid ==
  Len(inputs) <= MaxCalls =>
    \A i \in DOMAIN recorded_calls :
      LET c == recorded_calls[i] IN
      c.sent # NoInput =>
        /\ c.generation = generation
        /\ c.at \in DOMAIN inputs
        /\ inputs[c.at] = c.sent
=============================================================================
