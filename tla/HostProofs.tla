----------------------------- MODULE HostProofs -----------------------------
(***************************************************************************)
(* The properties of HostContext above MockedHost, for any accounts, keys, *)
(* values, executions and limits.                                          *)
(***************************************************************************)
EXTENDS HostProps, SequenceTheorems, TLAPS

-----------------------------------------------------------------------------
(* Which steps change what.                                                *)

\* Only set_storage writes storage.
LEMMA StorageFrame ==
  ASSUME [Next]_vars
  PROVE  \/ UNCHANGED <<storage, history, status>>
         \/ \E a \in Address, k \in Key, v \in Value : set_storage(a, k, v)
  BY DEF Next, vars, hostVars, storageVars, contextVars, Construct, Destruct,
    GetTxContext, Dispatch, Client, HostMethod, ClientStep, AddAccount,
    SetTxContext, ClearCalls, account_exists, get_storage, get_account_data,
    emit_log, selfdestruct, call, get_block_hash

\* Only the client gives accounts.
LEMMA AccountFrame ==
  ASSUME [Next]_vars
  PROVE  UNCHANGED accounts \/ AddAccount
  BY DEF Next, vars, hostVars, storageVars, contextVars, Construct, Destruct,
    GetTxContext, Dispatch, Client, HostMethod, ClientStep,
    SetTxContext, ClearCalls, account_exists, get_storage, get_account_data,
    emit_log, selfdestruct, call, get_block_hash, set_storage

\* Only call adds to the record of calls, and only the client clears it.
LEMMA CallFrame ==
  ASSUME [Next]_vars
  PROVE  \/ UNCHANGED callVars
         \/ ClearCalls
         \/ \E a \in Address, i \in Input \cup {NoInput} : call(a, i)
  BY DEF Next, vars, hostVars, contextVars, Construct, Destruct,
    GetTxContext, Dispatch, Client, HostMethod, ClientStep, AddAccount,
    SetTxContext, account_exists, get_storage, get_account_data,
    emit_log, selfdestruct, get_block_hash, set_storage

\* Accesses are recorded by record_account_access alone.
LEMMA AccessFrame ==
  ASSUME [Next]_vars
  PROVE  UNCHANGED accessVars \/ \E a \in Address : record_account_access(a)
  BY DEF Next, vars, hostVars, contextVars, Construct, Destruct,
    GetTxContext, Dispatch, Client, HostMethod, ClientStep, AddAccount,
    SetTxContext, ClearCalls, account_exists, get_storage, get_account_data,
    emit_log, selfdestruct, call, get_block_hash, set_storage

\* The other records grow by one entry.
LEMMA RecordFrame ==
  ASSUME [Next]_vars
  PROVE  /\ \/ UNCHANGED recorded_blockhashes
            \/ recorded_blockhashes' = Append(recorded_blockhashes, 0)
         /\ \/ UNCHANGED recorded_logs
            \/ \E a \in Address : recorded_logs' = Append(recorded_logs, a)
         /\ \/ UNCHANGED recorded_selfdestructs
            \/ \E a, b \in Address : recorded_selfdestructs' =
                 Append(recorded_selfdestructs, <<a, b>>)
  BY DEF Next, vars, hostVars, recordVars, contextVars, Construct, Destruct,
    GetTxContext, Dispatch, Client, HostMethod, ClientStep, AddAccount,
    SetTxContext, ClearCalls, account_exists, get_storage, get_account_data,
    emit_log, selfdestruct, call, get_block_hash, set_storage

\* The transaction context is the client's to set.
LEMMA TxContextFrame ==
  ASSUME [Next]_vars
  PROVE  UNCHANGED tx_context \/ tx_context' \in TxContext
  BY DEF Next, vars, hostVars, contextVars, Construct, Destruct,
    GetTxContext, Dispatch, Client, HostMethod, ClientStep, AddAccount,
    SetTxContext, ClearCalls, account_exists, get_storage, get_account_data,
    emit_log, selfdestruct, call, get_block_hash, set_storage

\* What an execution keeps is its own.
LEMMA ContextFrame ==
  ASSUME [Next]_vars
  PROVE  \/ UNCHANGED contextVars
         \/ \E e \in Execution : Construct(e) \/ Destruct(e) \/ GetTxContext(e)
  BY DEF Next, vars, Dispatch, Client

-----------------------------------------------------------------------------
(* Storage.                                                                *)

\* The part of the state that set_storage reads and writes.
StorageInv ==
  /\ storage \in [Address -> [Key -> storage_value]]
  /\ history \in [Address -> [Key -> Seq(Value)]]
  /\ status \in StorageStatus
  /\ DirtyTellsHistory

\* Small numbers.
LEMMA MoreThanOne ==
  ASSUME NEW n \in Nat \ {0}, n # 1
  PROVE  n > 1 /\ n + 1 > 2 /\ n + 1 # 2
  BY SMT

\* The length of an item's history before any write.
LEMMA OneOrTwo ==
  ASSUME NEW n, n = 1 \/ n = 2
  PROVE  n \in Nat \ {0} /\ (n > 1 <=> n = 2)
  BY SMT

\* The status for an item is known from its last value and its flag.
LEMMA StatusRight ==
  ASSUME NEW h \in Seq(Value), Len(h) \in Nat \ {0}, NEW v \in Value,
         v # h[Len(h)], NEW old \in storage_value,
         old.value = h[Len(h)], old.dirty <=> Len(h) > 1
  PROVE  /\ StatusOf(old, v) = StatusFor(Append(h, v))
         /\ StatusFor(Append(h, v)) \in StorageStatus
<1> DEFINE g == Append(h, v)
<1>1. /\ Len(g) = Len(h) + 1
      /\ g[Len(h) + 1] = v
      /\ \A i \in 1..Len(h) : g[i] = h[i]
  BY AppendProperties
<1> HIDE DEF g
<1>2. CASE Len(h) = 1
  <2>1. /\ ~(Len(g) > 2) /\ Len(g) = 2 /\ ~old.dirty
        /\ g[1] = old.value /\ g[2] = v
    BY <1>1, <1>2, SMT
  <2> QED
    BY <2>1, Zenon DEF g, StatusOf, StatusFor, StorageStatus
<1>3. CASE Len(h) # 1
  <2>1. Len(g) > 2 /\ Len(g) # 2 /\ Len(h) > 1
    <3>1. Len(h) + 1 > 2 /\ Len(h) + 1 # 2 /\ Len(h) > 1
      BY <1>3, MoreThanOne
    <3> QED
      BY <1>1, <3>1
  <2>2. old.dirty
    BY <2>1
  <2> QED
    BY <2>1, <2>2, Zenon DEF g, StatusOf, StatusFor, StorageStatus
<1> QED
  BY <1>2, <1>3

\* set_storage keeps flag and history together and tells the status.
LEMMA SetStorageStep ==
  ASSUME StorageInv,
         NEW a \in Address, NEW k \in Key, NEW v \in Value,
         set_storage(a, k, v)
  PROVE  /\ StorageInv'
         /\ \A b \in Address, l \in Key :
              history'[b][l] # history[b][l] => status' = StatusFor(history'[b][l])
<1> DEFINE h == history[a][k]
           old == storage[a][k]
<1>1. /\ h \in Seq(Value) /\ Len(h) \in Nat \ {0}
      /\ old.value = h[Len(h)] /\ (old.dirty <=> Len(h) > 1)
      /\ old \in storage_value
  BY DEF StorageInv, DirtyTellsHistory
<1>2. CASE ~(a \in accounts /\ old.value # v)
  <2>1. UNCHANGED <<storage, history>>
    BY <1>2 DEF set_storage
  <2>2. status' = "UNCHANGED"
    BY <1>2 DEF set_storage, StatusOf
  <2> QED
    BY <2>1, <2>2 DEF StorageInv, DirtyTellsHistory, StorageStatus
<1>3. CASE a \in accounts /\ old.value # v
  <2>1. /\ storage' = [storage EXCEPT ![a][k] = Stored(@, v)]
        /\ history' = [history EXCEPT ![a][k] = Append(@, v)]
        /\ status' = StatusOf(old, v)
    BY <1>3 DEF set_storage
  <2>2. v # h[Len(h)]
    BY <1>1, <1>3 DEF storage_value
  <2>3. /\ status' = StatusFor(Append(h, v))
        /\ status' \in StorageStatus
    <3> HIDE DEF old, h
    <3> QED
      BY <1>1, <2>1, <2>2, StatusRight
  <2>4. /\ Append(h, v) \in Seq(Value)
        /\ Len(Append(h, v)) = Len(h) + 1
        /\ Append(h, v)[Len(h) + 1] = v
    BY <1>1, AppendProperties
  <2>5. Stored(old, v) = [value |-> v, dirty |-> TRUE]
    BY DEF Stored
  <2>6. ASSUME NEW b \in Address, NEW l \in Key
        PROVE  /\ storage'[b][l] =
                    IF b = a /\ l = k THEN [value |-> v, dirty |-> TRUE]
                    ELSE storage[b][l]
               /\ history'[b][l] = IF b = a /\ l = k THEN Append(h, v)
                                   ELSE history[b][l]
    BY <2>1, <2>5 DEF StorageInv
  <2>7. /\ storage' \in [Address -> [Key -> storage_value]]
        /\ history' \in [Address -> [Key -> Seq(Value)]]
    BY <2>1, <2>4, <2>5 DEF StorageInv, storage_value
  <2>8. ASSUME NEW b \in Address, NEW l \in Key
        PROVE  /\ Len(history'[b][l]) \in Nat \ {0}
               /\ storage'[b][l].value = history'[b][l][Len(history'[b][l])]
               /\ storage'[b][l].dirty <=> Len(history'[b][l]) > 1
    <3>1. CASE b = a /\ l = k
      <4>1. history'[b][l] = Append(h, v)
            /\ storage'[b][l] = [value |-> v, dirty |-> TRUE]
        BY <2>6, <3>1
      <4>2. Len(h) + 1 \in Nat \ {0} /\ Len(h) + 1 > 1
        BY <1>1, SMT
      <4> QED
        BY <2>4, <4>1, <4>2
    <3>2. CASE ~(b = a /\ l = k)
      BY <2>6, <3>2 DEF StorageInv, DirtyTellsHistory
    <3> QED
      BY <3>1, <3>2
  <2>9. ASSUME NEW b \in Address, NEW l \in Key,
               history'[b][l] # history[b][l]
        PROVE  status' = StatusFor(history'[b][l])
    BY <2>3, <2>6, <2>9
  <2> QED
    BY <2>3, <2>7, <2>8, <2>9 DEF StorageInv, DirtyTellsHistory
<1> QED
  BY <1>2, <1>3

\* Every step keeps storage, flags and history together.
LEMMA StorageStep ==
  ASSUME StorageInv, [Next]_vars
  PROVE  /\ StorageInv'
         /\ \A b \in Address, l \in Key :
              history'[b][l] # history[b][l] => status' = StatusFor(history'[b][l])
<1>1. CASE UNCHANGED <<storage, history, status>>
  BY <1>1 DEF StorageInv, DirtyTellsHistory
<1>2. CASE \E a \in Address, k \in Key, v \in Value : set_storage(a, k, v)
  BY <1>2, SetStorageStep
<1> QED
  BY <1>1, <1>2, StorageFrame

\* A function on 1..n is a sequence.
LEMMA TupleIsSeq ==
  ASSUME NEW n \in Nat, NEW S, NEW f \in [1..n -> S]
  PROVE  f \in Seq(S) /\ Len(f) = n
  BY SMT

\* A client fills storage with flags that tell its history.
LEMMA StorageInit == Init => StorageInv
<1> SUFFICES ASSUME Init PROVE StorageInv
  OBVIOUS
<1>1. ASSUME NEW a \in Address, NEW k \in Key
      PROVE  /\ history[a][k] \in Seq(Value)
             /\ Len(history[a][k]) \in Nat \ {0}
             /\ storage[a][k].value = history[a][k][Len(history[a][k])]
             /\ storage[a][k].dirty <=> Len(history[a][k]) > 1
  <2> DEFINE h == history[a][k]
  <2>1. /\ h \in [1..1 -> Value] \cup [1..2 -> Value]
        /\ h[Len(h)] = storage[a][k].value
        /\ Len(h) = 2 <=> storage[a][k].dirty
    BY DEF Init, HostInit
  <2> HIDE DEF h
  <2>2. h \in Seq(Value) /\ (Len(h) = 1 \/ Len(h) = 2)
    BY <2>1, TupleIsSeq
  <2>3. Len(h) \in Nat \ {0} /\ (Len(h) > 1 <=> Len(h) = 2)
    BY <2>2, OneOrTwo
  <2> QED
    BY <2>1, <2>2, <2>3 DEF h
<1>2. /\ storage \in [Address -> [Key -> storage_value]]
      /\ status \in StorageStatus
      /\ history \in [Address -> [Key -> [1..1 -> Value] \cup [1..2 -> Value]]]
  BY DEF Init, HostInit, StorageStatus
<1>3. history \in [Address -> [Key -> Seq(Value)]]
  BY <1>1, <1>2
<1> QED
  BY <1>1, <1>2, <1>3 DEF StorageInv, DirtyTellsHistory

-----------------------------------------------------------------------------
(* Accesses.                                                               *)

AccessInv ==
  /\ recorded_account_accesses \in Seq(Address)
  /\ accessed \in Seq(Address)
  /\ Len(recorded_account_accesses) <= MaxAccesses
  /\ Len(recorded_account_accesses) <= Len(accessed)
  /\ Len(recorded_account_accesses) < MaxAccesses
       => recorded_account_accesses = accessed
  /\ RecordsFirstAccesses

\* The beginning of a sequence stays when the sequence grows.
LEMMA PrefixOfAppend ==
  ASSUME NEW S, NEW s \in Seq(S), NEW e \in S, NEW n \in 0..Len(s)
  PROVE  SubSeq(Append(s, e), 1, n) = SubSeq(s, 1, n)
<1> DEFINE t == Append(s, e)
           u == SubSeq(t, 1, n)
           w == SubSeq(s, 1, n)
<1>1. /\ t \in Seq(S) /\ Len(t) = Len(s) + 1 /\ Len(s) \in Nat
      /\ \A i \in 1..Len(s) : t[i] = s[i]
  BY AppendProperties, LenProperties
<1>2. n \in Nat /\ n <= Len(s)
  BY <1>1, SMT
<1> HIDE DEF t
<1>3. ASSUME NEW r \in Seq(S), Len(r) \in Nat, n <= Len(r)
      PROVE  /\ SubSeq(r, 1, n) \in Seq(S)
             /\ Len(SubSeq(r, 1, n)) = n
             /\ \A i \in 1..n : SubSeq(r, 1, n)[i] = r[i]
  <2>1. \A i \in 1..n : r[i] \in S
    BY <1>2, <1>3, ElementOfSeq, SMT
  <2>2. /\ SubSeq(r, 1, n) \in Seq(S)
        /\ Len(SubSeq(r, 1, n)) = IF 1 <= n THEN n - 1 + 1 ELSE 0
    BY <1>2, <2>1, SubSeqProperties
  <2>3. Len(SubSeq(r, 1, n)) = n
    BY <1>2, <2>2, SMT
  <2>4. \A i \in 1..n : SubSeq(r, 1, n)[i] = r[i]
    BY <1>2, SMT
  <2> QED
    BY <2>2, <2>3, <2>4
<1>4. n <= Len(t) /\ Len(t) \in Nat
  BY <1>1, <1>2, SMT
<1>5. /\ u \in Seq(S) /\ Len(u) = n /\ \A i \in 1..n : u[i] = t[i]
      /\ w \in Seq(S) /\ Len(w) = n /\ \A i \in 1..n : w[i] = s[i]
  BY <1>1, <1>2, <1>3, <1>4
<1>6. \A i \in 1..n : u[i] = w[i]
  BY <1>1, <1>2, <1>5, SMT
<1> HIDE DEF u, w
<1>7. u = w
  BY <1>5, <1>6, SeqEqual
<1> QED
  BY <1>7 DEF u, w, t

\* One access more.
LEMMA AccessStep ==
  ASSUME AccessInv, NEW a \in Address, record_account_access(a)
  PROVE  AccessInv'
<1> DEFINE r == recorded_account_accesses
<1>1. /\ r \in Seq(Address) /\ accessed \in Seq(Address)
      /\ Len(r) \in Nat /\ Len(accessed) \in Nat /\ MaxAccesses \in Nat \ {0}
  BY LimitAssumption, LenProperties DEF AccessInv
<1>2. /\ accessed' = Append(accessed, a)
      /\ accessed' \in Seq(Address) /\ Len(accessed') = Len(accessed) + 1
  BY <1>1, AppendProperties DEF record_account_access
<1>3. CASE Len(r) < MaxAccesses
  <2>1. r = accessed
    BY <1>3 DEF AccessInv
  <2>2. r' = Append(accessed, a)
    BY <1>3, <2>1 DEF record_account_access, Recorded
  <2>3. r' = accessed'
    BY <1>2, <2>2
  <2>4. Len(accessed) + 1 <= MaxAccesses
    BY <1>1, <1>3, <2>1, SMT
  <2>5. SubSeq(accessed', 1, Len(accessed')) = accessed'
    BY <1>2, SubSeqFull
  <2>6. IF Len(accessed') < MaxAccesses
        THEN Len(accessed') = Len(accessed')
        ELSE MaxAccesses = Len(accessed')
    BY <1>1, <1>2, <2>4, SMT
  <2>7. RecordsFirstAccesses'
    BY <2>3, <2>5, <2>6 DEF RecordsFirstAccesses
  <2>8. Len(r') <= MaxAccesses /\ Len(r') <= Len(accessed')
    BY <1>1, <1>2, <2>3, <2>4, SMT
  <2> QED
    BY <1>2, <2>3, <2>7, <2>8 DEF AccessInv
<1>4. CASE ~(Len(r) < MaxAccesses)
  <2>1. r' = r
    BY <1>4 DEF record_account_access, Recorded
  <2>2. Len(r) = MaxAccesses /\ MaxAccesses <= Len(accessed)
    BY <1>1, <1>4, SMT DEF AccessInv
  <2>3. ~(Len(accessed) < MaxAccesses) /\ ~(Len(accessed') < MaxAccesses)
        /\ MaxAccesses \in 0..Len(accessed) /\ Len(r) <= Len(accessed')
    BY <1>1, <1>2, <2>2, SMT
  <2>4. r = SubSeq(accessed, 1, MaxAccesses)
    BY <2>3 DEF AccessInv, RecordsFirstAccesses
  <2>5. SubSeq(accessed', 1, MaxAccesses) = SubSeq(accessed, 1, MaxAccesses)
    BY <1>1, <1>2, <2>3, PrefixOfAppend
  <2>6. RecordsFirstAccesses'
    BY <2>1, <2>3, <2>4, <2>5 DEF RecordsFirstAccesses
  <2> QED
    BY <1>1, <1>2, <1>4, <2>1, <2>2, <2>3, <2>6 DEF AccessInv
<1> QED
  BY <1>3, <1>4

\* Nothing is accessed at first.
LEMMA AccessInit == Init => AccessInv
<1>1. SUFFICES ASSUME recorded_account_accesses = <<>>, accessed = <<>>
               PROVE  AccessInv
  BY DEF Init, HostInit
<1>2. <<>> \in Seq(Address) /\ Len(<<>>) = 0
  BY EmptySeq
<1>3. 0 <= MaxAccesses /\ 0 < MaxAccesses
  BY LimitAssumption, SMT
<1>4. SubSeq(<<>>, 1, 0) = <<>>
  BY SubSeqEmpty
<1>5. RecordsFirstAccesses
  BY <1>1, <1>2, <1>3, <1>4 DEF RecordsFirstAccesses
<1>6. 0 <= 0
  BY SMT
<1> QED
  BY <1>1, <1>2, <1>3, <1>5, <1>6 DEF AccessInv

-----------------------------------------------------------------------------
(* Calls.                                                                  *)

\* The copies never moved before the record's bound was passed, because a
\* host with a recorded call has reserved room for all of them.
CallInv ==
  /\ recorded_calls \in Seq(RecordedCall)
  /\ Len(recorded_calls) <= MaxCalls
  /\ inputs \in Seq(Input)
  /\ capacity \in Nat /\ generation \in Nat
  /\ recorded_calls # <<>> => capacity >= MaxCalls
  /\ Len(inputs) <= MaxCalls => generation = 0
  /\ \A i \in DOMAIN recorded_calls :
       LET c == recorded_calls[i] IN
       /\ c.sent # NoInput => c.at \in DOMAIN inputs /\ inputs[c.at] = c.sent
       /\ Len(inputs) <= MaxCalls => c.generation = 0

\* A copied input stands where the recorded call says.
LEMMA CopyStep ==
  ASSUME CallInv, NEW x \in Input, CopyInput(x),
         Len(recorded_calls) < MaxCalls
  PROVE  /\ inputs' = Append(inputs, x) /\ inputs' \in Seq(Input)
         /\ Len(inputs') = Len(inputs) + 1
         /\ capacity' \in Nat /\ capacity' >= MaxCalls
         /\ generation' \in Nat
         /\ Len(inputs') <= MaxCalls => generation' = 0
<1>1. inputs \in Seq(Input) /\ Len(inputs) \in Nat /\ MaxCalls \in Nat \ {0}
      /\ capacity \in Nat /\ generation \in Nat
  BY LimitAssumption, LenProperties DEF CallInv
<1>2. inputs' = Append(inputs, x) /\ inputs' \in Seq(Input)
      /\ Len(inputs') = Len(inputs) + 1
  BY <1>1, AppendProperties DEF CopyInput
<1>3. Reserved \in Nat /\ Reserved >= MaxCalls
  <2>1. CASE recorded_calls = <<>>
    BY <1>1, <2>1, SMT DEF Reserved
  <2>2. CASE recorded_calls # <<>>
    BY <1>1, <2>2, SMT DEF Reserved, CallInv
  <2> QED
    BY <2>1, <2>2
<1> HIDE DEF Reserved
<1>4. CASE Len(inputs) < Reserved
  <2>1. capacity' = Reserved /\ generation' = generation
    BY <1>4 DEF CopyInput
  <2>2. Len(inputs) + 1 <= MaxCalls => generation = 0
    BY <1>1, SMT DEF CallInv
  <2> QED
    BY <1>1, <1>2, <1>3, <2>1, <2>2
<1>5. CASE ~(Len(inputs) < Reserved)
  <2>1. /\ capacity' = IF Reserved = 0 THEN 1 ELSE 2 * Reserved
        /\ generation' = generation + 1
    BY <1>5 DEF CopyInput
  <2>2. capacity' \in Nat /\ capacity' >= MaxCalls /\ generation' \in Nat
    BY <1>1, <1>3, <2>1, SMT
  <2>3. ~(Len(inputs) + 1 <= MaxCalls)
    BY <1>1, <1>3, <1>5, SMT
  <2> QED
    BY <1>2, <2>2, <2>3
<1> QED
  BY <1>4, <1>5

\* A call.
LEMMA CallStep ==
  ASSUME CallInv, NEW a \in Address, NEW x \in Input \cup {NoInput},
         call(a, x)
  PROVE  CallInv'
<1> DEFINE entry == [sent |-> x, at |-> Len(inputs) + 1,
                     generation |-> generation']
<1>1. /\ recorded_calls \in Seq(RecordedCall) /\ Len(recorded_calls) \in Nat
      /\ inputs \in Seq(Input) /\ Len(inputs) \in Nat
      /\ DOMAIN inputs = 1..Len(inputs)
      /\ DOMAIN recorded_calls = 1..Len(recorded_calls)
      /\ MaxCalls \in Nat \ {0} /\ capacity \in Nat /\ generation \in Nat
  BY LimitAssumption, LenProperties DEF CallInv
<1>2. CASE ~(Len(recorded_calls) < MaxCalls)
  BY <1>2 DEF call, callVars, CallInv
<1>3. CASE Len(recorded_calls) < MaxCalls
  <2>1. recorded_calls' = Append(recorded_calls, entry)
    BY <1>3 DEF call
  <2>2. /\ inputs' \in Seq(Input) /\ Len(inputs') \in Nat
        /\ Len(inputs) <= Len(inputs')
        /\ DOMAIN inputs' = 1..Len(inputs')
        /\ \A i \in 1..Len(inputs) : inputs'[i] = inputs[i]
        /\ capacity' \in Nat /\ capacity' >= MaxCalls
        /\ generation' \in Nat
        /\ Len(inputs') <= MaxCalls => generation' = 0
        /\ x # NoInput => /\ Len(inputs) + 1 \in DOMAIN inputs'
                          /\ inputs'[Len(inputs) + 1] = x
    <3>1. CASE x # NoInput
      <4>1. x \in Input /\ CopyInput(x)
        BY <1>3, <3>1 DEF call
      <4>2. /\ inputs' = Append(inputs, x) /\ inputs' \in Seq(Input)
            /\ Len(inputs') = Len(inputs) + 1
            /\ capacity' \in Nat /\ capacity' >= MaxCalls
            /\ generation' \in Nat
            /\ Len(inputs') <= MaxCalls => generation' = 0
        BY <1>3, <4>1, CopyStep
      <4>3. /\ \A i \in 1..Len(inputs) : inputs'[i] = inputs[i]
            /\ inputs'[Len(inputs) + 1] = x
        BY <1>1, <4>1, <4>2, AppendProperties
      <4>4. DOMAIN inputs' = 1..Len(inputs')
        BY <4>2, LenProperties
      <4> QED
        BY <1>1, <4>2, <4>3, <4>4, SMT
    <3>2. CASE x = NoInput
      <4>1. capacity' = Reserved /\ UNCHANGED <<inputs, generation>>
        BY <1>3, <3>2 DEF call
      <4>2. Reserved \in Nat /\ Reserved >= MaxCalls
        <5>1. CASE recorded_calls = <<>>
          BY <1>1, <5>1, SMT DEF Reserved
        <5>2. CASE recorded_calls # <<>>
          BY <1>1, <5>2, SMT DEF Reserved, CallInv
        <5> QED
          BY <5>1, <5>2
      <4>3. Len(inputs) <= Len(inputs)
        BY <1>1, SMT
      <4> QED
        BY <1>1, <3>2, <4>1, <4>2, <4>3 DEF CallInv
    <3> QED
      BY <3>1, <3>2
  <2>3. entry \in RecordedCall
    BY <1>1, <2>2, SMT DEF RecordedCall
  <2> HIDE DEF entry
  <2>4. /\ recorded_calls' \in Seq(RecordedCall)
        /\ Len(recorded_calls') = Len(recorded_calls) + 1
        /\ DOMAIN recorded_calls' = 1..Len(recorded_calls) + 1
        /\ recorded_calls'[Len(recorded_calls) + 1] = entry
        /\ \A i \in 1..Len(recorded_calls) :
             recorded_calls'[i] = recorded_calls[i]
    BY <1>1, <2>1, <2>3, AppendProperties, LenProperties
  <2>5. Len(recorded_calls') <= MaxCalls
    BY <1>1, <1>3, <2>4, SMT
  <2>6. ASSUME NEW i \in DOMAIN recorded_calls'
        PROVE  LET c == recorded_calls'[i] IN
               /\ c.sent # NoInput =>
                    c.at \in DOMAIN inputs' /\ inputs'[c.at] = c.sent
               /\ Len(inputs') <= MaxCalls => c.generation = 0
    <3>1. CASE i = Len(recorded_calls) + 1
      <4>1. /\ entry.sent = x /\ entry.at = Len(inputs) + 1
            /\ entry.generation = generation'
        BY DEF entry
      <4> QED
        BY <2>2, <2>4, <3>1, <4>1
    <3>2. CASE i # Len(recorded_calls) + 1
      <4>1. i \in DOMAIN recorded_calls
        BY <1>1, <2>4, <3>2, SMT
      <4> DEFINE c == recorded_calls[i]
      <4>2. recorded_calls'[i] = c
        BY <1>1, <2>4, <4>1
      <4>3. /\ c.sent # NoInput => c.at \in 1..Len(inputs)
                                   /\ inputs[c.at] = c.sent
            /\ Len(inputs) <= MaxCalls => c.generation = 0
        BY <1>1, <4>1 DEF CallInv
      <4> HIDE DEF c
      <4>4. Len(inputs') <= MaxCalls => Len(inputs) <= MaxCalls
        BY <1>1, <2>2, SMT
      <4>5. 1..Len(inputs) \subseteq 1..Len(inputs')
        BY <1>1, <2>2, SMT
      <4> QED
        BY <2>2, <4>2, <4>3, <4>4, <4>5
    <3> QED
      BY <3>1, <3>2
  <2> QED
    BY <2>2, <2>4, <2>5, <2>6 DEF CallInv
<1> QED
  BY <1>2, <1>3

\* The client clears the record.
LEMMA ClearStep == ASSUME CallInv, ClearCalls PROVE CallInv'
<1>1. recorded_calls' = <<>> /\ UNCHANGED <<inputs, capacity, generation>>
  BY DEF ClearCalls
<1>2. /\ <<>> \in Seq(RecordedCall) /\ Len(<<>>) = 0 /\ DOMAIN <<>> = {}
  BY EmptySeq
<1>3. 0 <= MaxCalls
  BY LimitAssumption, SMT
<1> QED
  BY <1>1, <1>2, <1>3 DEF CallInv

\* No call is recorded at first.
LEMMA CallInit == Init => CallInv
<1>1. SUFFICES ASSUME recorded_calls = <<>>, inputs = <<>>,
                      capacity = 0, generation = 0
               PROVE  CallInv
  BY DEF Init, HostInit
<1>2. /\ <<>> \in Seq(RecordedCall) /\ <<>> \in Seq(Input)
      /\ Len(<<>>) = 0 /\ DOMAIN <<>> = {}
  BY EmptySeq
<1>3. 0 <= MaxCalls /\ 0 \in Nat
  BY LimitAssumption, SMT
<1> QED
  BY <1>1, <1>2, <1>3 DEF CallInv

-----------------------------------------------------------------------------
(* Transaction contexts.                                                   *)

ContextInv ==
  /\ tx_context \in TxContext
  /\ cached \in [Execution -> TxContext \cup {ZeroContext, NoContext}]
  /\ block \in [Execution -> TxContext \cup {NoContext}]
  /\ \A e \in Execution : block[e] # NoContext =>
       cached[e] = block[e] /\ block[e].block_timestamp # 0

\* A context that is kept is answered again.
LEMMA KeptIsBlock ==
  ASSUME ContextInv, NEW e \in Execution, block[e] # NoContext
  PROVE  Kept(e) = block[e]
  BY DEF ContextInv, Kept

\* Every step keeps the first context with a timestamp.
LEMMA ContextStep == ASSUME ContextInv, [Next]_vars PROVE ContextInv'
<1>1. tx_context' \in TxContext
  BY TxContextFrame DEF ContextInv
<1>2. CASE UNCHANGED contextVars
  BY <1>1, <1>2 DEF ContextInv, contextVars
<1>3. ASSUME NEW e \in Execution, Construct(e) PROVE ContextInv'
  <2>1. cached[e] = NoContext /\ block[e] = NoContext
    BY <1>3, ContextAssumption DEF Construct, Live, ContextInv
  <2>2. cached' = [cached EXCEPT ![e] = ZeroContext] /\ block' = block
    BY <1>3 DEF Construct
  <2> QED
    BY <1>1, <2>1, <2>2 DEF ContextInv
<1>4. ASSUME NEW e \in Execution, Destruct(e) PROVE ContextInv'
  <2>1. /\ cached' = [cached EXCEPT ![e] = NoContext]
        /\ block' = [block EXCEPT ![e] = NoContext]
    BY <1>4 DEF Destruct
  <2> QED
    BY <1>1, <2>1 DEF ContextInv
<1>5. ASSUME NEW e \in Execution, GetTxContext(e) PROVE ContextInv'
  <2>1. /\ cached' = [cached EXCEPT ![e] = Kept(e)]
        /\ block' = [block EXCEPT ![e] =
             IF block[e] = NoContext /\ Kept(e).block_timestamp # 0
             THEN Kept(e) ELSE block[e]]
    BY <1>5 DEF GetTxContext
  <2>2. cached[e] \in TxContext \cup {ZeroContext}
    BY <1>5 DEF GetTxContext, Live, ContextInv
  <2>3. Kept(e) \in TxContext
    BY <2>2 DEF Kept, ContextInv, get_tx_context, ZeroContext
  <2>4. block[e] # NoContext => Kept(e) = block[e]
    BY KeptIsBlock
  <2> QED
    BY <1>1, <2>1, <2>3, <2>4 DEF ContextInv
<1> QED
  BY <1>2, <1>3, <1>4, <1>5, ContextFrame

\* No execution has a context at first.
LEMMA ContextInit == Init => ContextInv
  BY DEF Init, HostInit, ContextInv

-----------------------------------------------------------------------------
(* The theorems.                                                           *)

\* The parts without a property of their own.
RecordInv ==
  /\ accounts \subseteq Prepared
  /\ recorded_blockhashes \in Seq(Int)
  /\ recorded_logs \in Seq(Address)
  /\ recorded_selfdestructs \in Seq(Address \X Address)

\* Records grow by entries of their type.
LEMMA RecordStep == ASSUME RecordInv, [Next]_vars PROVE RecordInv'
<1>1. accounts' \subseteq Prepared
  BY AccountFrame DEF RecordInv, AddAccount
<1>2. recorded_blockhashes' \in Seq(Int)
  <2>1. CASE UNCHANGED recorded_blockhashes
    BY <2>1 DEF RecordInv
  <2>2. CASE recorded_blockhashes' = Append(recorded_blockhashes, 0)
    <3>1. 0 \in Int
      BY SMT
    <3> QED
      BY <2>2, <3>1, AppendProperties DEF RecordInv
  <2> QED
    BY <2>1, <2>2, RecordFrame
<1>3. recorded_logs' \in Seq(Address)
  <2>1. CASE UNCHANGED recorded_logs
    BY <2>1 DEF RecordInv
  <2>2. ASSUME NEW a \in Address,
               recorded_logs' = Append(recorded_logs, a)
        PROVE  recorded_logs' \in Seq(Address)
    BY <2>2, AppendProperties DEF RecordInv
  <2> QED
    BY <2>1, <2>2, RecordFrame
<1>4. recorded_selfdestructs' \in Seq(Address \X Address)
  <2>1. CASE UNCHANGED recorded_selfdestructs
    BY <2>1 DEF RecordInv
  <2>2. ASSUME NEW a \in Address, NEW b \in Address,
               recorded_selfdestructs' =
                 Append(recorded_selfdestructs, <<a, b>>)
        PROVE  recorded_selfdestructs' \in Seq(Address \X Address)
    <3>1. <<a, b>> \in Address \X Address
      OBVIOUS
    <3> QED
      BY <2>2, <3>1, AppendProperties DEF RecordInv
  <2> QED
    BY <2>1, <2>2, RecordFrame
<1> QED
  BY <1>1, <1>2, <1>3, <1>4 DEF RecordInv

\* All invariants together.
HostInv == StorageInv /\ AccessInv /\ CallInv /\ ContextInv /\ RecordInv

\* Init establishes the invariants and every step keeps them.
LEMMA HostInvariance == Spec => []HostInv
<1>1. Init => HostInv
  <2>1. Init => RecordInv
    BY EmptySeq DEF Init, HostInit, RecordInv
  <2> QED
    BY <2>1, StorageInit, AccessInit, CallInit, ContextInit DEF HostInv
<1>2. HostInv /\ [Next]_vars => HostInv'
  <2>1. SUFFICES ASSUME HostInv, [Next]_vars PROVE HostInv'
    OBVIOUS
  <2>2. StorageInv'
    BY <2>1, StorageStep DEF HostInv
  <2>3. AccessInv'
    <3>1. CASE UNCHANGED accessVars
      BY <2>1, <3>1 DEF HostInv, AccessInv, accessVars, RecordsFirstAccesses
    <3>2. CASE \E a \in Address : record_account_access(a)
      BY <2>1, <3>2, AccessStep DEF HostInv
    <3> QED
      BY <2>1, <3>1, <3>2, AccessFrame
  <2>4. CallInv'
    <3>1. CASE UNCHANGED callVars
      BY <2>1, <3>1 DEF HostInv, CallInv, callVars
    <3>2. CASE ClearCalls
      BY <2>1, <3>2, ClearStep DEF HostInv
    <3>3. CASE \E a \in Address, i \in Input \cup {NoInput} : call(a, i)
      BY <2>1, <3>3, CallStep DEF HostInv
    <3> QED
      BY <2>1, <3>1, <3>2, <3>3, CallFrame
  <2>5. ContextInv'
    BY <2>1, ContextStep DEF HostInv
  <2>6. RecordInv'
    BY <2>1, RecordStep DEF HostInv
  <2> QED
    BY <2>2, <2>3, <2>4, <2>5, <2>6 DEF HostInv
<1> QED
  BY <1>1, <1>2, PTL DEF Spec

\* Every part of the state keeps its type, and no record passes its bound.
THEOREM HostTypes == Spec => []TypeOK
<1>1. HostInv => TypeOK
  BY DEF HostInv, StorageInv, AccessInv, CallInv, ContextInv, RecordInv, TypeOK
<1> QED
  BY <1>1, HostInvariance, PTL

\* An item is dirty exactly when the transaction has changed it.
THEOREM FlagsTellHistory == Spec => []DirtyTellsHistory
<1>1. HostInv => DirtyTellsHistory
  BY DEF HostInv, StorageInv
<1> QED
  BY <1>1, HostInvariance, PTL

\* set_storage reports what evmc.h defines for the item's history.
THEOREM StatusesTellHistory == Spec => StatusTellsHistory
<1>1. HostInv /\ [Next]_vars =>
        [\A a \in Address, k \in Key :
           history'[a][k] # history[a][k] =>
             status' = StatusFor(history'[a][k])]_vars
  BY StorageStep DEF HostInv
<1> QED
  BY <1>1, HostInvariance, PTL DEF Spec, StatusTellsHistory

\* An execution sees one block.
THEOREM ExecutionsSeeOneBlock == Spec => []OneBlockPerExecution
<1>1. HostInv => OneBlockPerExecution
  BY KeptIsBlock DEF HostInv, OneBlockPerExecution, Live
<1> QED
  BY <1>1, HostInvariance, PTL

\* The record of accesses is the beginning of all accesses.
THEOREM AccessesAreRecorded == Spec => []RecordsFirstAccesses
<1>1. HostInv => RecordsFirstAccesses
  BY DEF HostInv, AccessInv
<1> QED
  BY <1>1, HostInvariance, PTL

\* Recorded inputs do not move while their copies are within the bound.
THEOREM RecordedInputsStay == Spec => []InputsStayValid
<1>1. HostInv => InputsStayValid
  BY DEF HostInv, CallInv, InputsStayValid
<1> QED
  BY <1>1, HostInvariance, PTL
=============================================================================
