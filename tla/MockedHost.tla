----------------------------- MODULE MockedHost -----------------------------
(***************************************************************************)
(* class MockedHost of evmc/mocked_host.hpp: a host for tests.  It keeps   *)
(* accounts with their storage and records what a VM asks of it; the       *)
(* client (external) prepares it and reads its records, which are public   *)
(* members.  Balances, code and hashes are left out: a function that reads *)
(* them leaves the trace of an account access and nothing else.            *)
(***************************************************************************)
EXTENDS Integers, Sequences

CONSTANTS
  Address,              \* of accounts
  Prepared,             \* accounts a client may give the host
  Key, Value,           \* of their storage; Value has zero
  Input, NoInput,       \* input data of calls; none at all
  TxContext,            \* transaction contexts a client may set
  MaxAccesses,          \* max_recorded_account_accesses
  MaxCalls,             \* max_recorded_calls
  MaxHistory,           \* bound on the accesses of a behaviour
  MaxRecords            \* bound on the records the code does not bound

ASSUME AccountAssumption == Prepared \subseteq Address
ASSUME ValueAssumption == 0 \in Value
ASSUME InputAssumption == NoInput \notin Input
ASSUME LimitAssumption ==
  /\ MaxAccesses \in Nat \ {0} /\ MaxCalls \in Nat \ {0}
  /\ MaxHistory \in Nat /\ MaxRecords \in Nat

VARIABLES
  accounts,                   \* addresses that have an account
  storage,                    \* [Address -> [Key -> storage_value]]
  tx_context,
  recorded_account_accesses,
  recorded_calls,
  inputs,                     \* m_recorded_calls_inputs
  capacity, generation,       \* its capacity; how often it has moved
  recorded_blockhashes, recorded_logs, recorded_selfdestructs,
  status,                     \* what set_storage returned last
  accessed,                   \* history: every account access
  history                     \* history: the values of each storage item
storageVars == <<accounts, storage, status, history>>
callVars == <<recorded_calls, inputs, capacity, generation>>
accessVars == <<recorded_account_accesses, accessed>>
recordVars == <<recorded_blockhashes, recorded_logs, recorded_selfdestructs>>
hostVars == <<storageVars, tx_context, callVars, accessVars, recordVars>>

StorageStatus ==
  {"UNCHANGED", "MODIFIED", "MODIFIED_AGAIN", "ADDED", "DELETED"}
storage_value == [value : Value, dirty : BOOLEAN]
RecordedCall == [sent : Input \cup {NoInput}, at : Nat, generation : Nat]
CleanZero == [value |-> 0, dirty |-> FALSE]

\* A client fills the storage of the accounts it adds: an item is clean, or
\* has been modified by the transaction before.
HostInit ==
  /\ accounts \in SUBSET Prepared
  /\ storage \in [Address -> [Key -> storage_value]]
  /\ \A a \in Address \ accounts, k \in Key : storage[a][k] = CleanZero
  /\ history \in [Address -> [Key -> [1..1 -> Value] \cup [1..2 -> Value]]]
  /\ \A a \in Address, k \in Key :
       LET h == history[a][k] IN
       /\ h[Len(h)] = storage[a][k].value
       /\ Len(h) = 2 <=> storage[a][k].dirty
       /\ Len(h) = 2 => h[1] # h[2]
  /\ tx_context \in TxContext
  /\ recorded_account_accesses = <<>>
  /\ recorded_calls = <<>> /\ inputs = <<>>
  /\ capacity = 0 /\ generation = 0
  /\ recorded_blockhashes = <<>>
  /\ recorded_logs = <<>>
  /\ recorded_selfdestructs = <<>>
  /\ status = "UNCHANGED"
  /\ accessed = <<>>

-----------------------------------------------------------------------------
(* Host methods.                                                           *)

\* Bug: the record holds one access more than its bound.
RecordedPastLimit(addr) ==
  IF Len(recorded_account_accesses) <= MaxAccesses
  THEN Append(recorded_account_accesses, addr)
  ELSE recorded_account_accesses

\* What record_account_access leaves of the record.
Recorded(addr) ==
  IF Len(recorded_account_accesses) < MaxAccesses
  THEN Append(recorded_account_accesses, addr)
  ELSE recorded_account_accesses

record_account_access(addr) ==
  /\ Len(accessed) < MaxHistory
  /\ recorded_account_accesses' = Recorded(addr)
  /\ accessed' = Append(accessed, addr)

account_exists(addr) ==
  /\ record_account_access(addr)
  /\ UNCHANGED <<storageVars, tx_context, callVars, recordVars>>

get_storage(addr) ==
  /\ record_account_access(addr)
  /\ UNCHANGED <<storageVars, tx_context, callVars, recordVars>>

\* get_balance, get_code_size, get_code_hash and copy_code.
get_account_data(addr) ==
  /\ record_account_access(addr)
  /\ UNCHANGED <<storageVars, tx_context, callVars, recordVars>>

\* Bug: a deleted item is taken for a clean one.
ForgetsDirty(old, value) ==
  CASE old.value = value -> "UNCHANGED"
    [] old.value # value /\ old.dirty /\ old.value # 0 -> "MODIFIED_AGAIN"
    [] old.value = 0 /\ value # 0 -> "ADDED"
    [] old.value # value /\ ~old.dirty /\ old.value # 0 ->
         IF value # 0 THEN "MODIFIED" ELSE "DELETED"

\* The status set_storage reports for an item it found as old.
StatusOf(old, value) ==
  CASE old.value = value -> "UNCHANGED"
    [] old.value # value /\ old.dirty -> "MODIFIED_AGAIN"
    [] old.value # value /\ ~old.dirty /\ old.value = 0 -> "ADDED"
    [] old.value # value /\ ~old.dirty /\ old.value # 0 ->
         IF value # 0 THEN "MODIFIED" ELSE "DELETED"

\* Bug: the flag is not set with the value.
StoredClean(old, value) == [value |-> value, dirty |-> old.dirty]

\* What set_storage leaves of an item it changes.
Stored(old, value) == [value |-> value, dirty |-> TRUE]

set_storage(addr, key, value) ==
  LET old == storage[addr][key] IN
  /\ record_account_access(addr)
  /\ IF addr \in accounts /\ old.value # value
     THEN /\ storage' = [storage EXCEPT ![addr][key] = Stored(@, value)]
          /\ history' = [history EXCEPT ![addr][key] = Append(@, value)]
     ELSE UNCHANGED <<storage, history>>
  /\ status' = IF addr \in accounts THEN StatusOf(old, value)
               ELSE "UNCHANGED"
  /\ UNCHANGED <<accounts, tx_context, callVars, recordVars>>

RoomInRecords ==
  Len(recorded_blockhashes) + Len(recorded_logs)
    + Len(recorded_selfdestructs) < MaxRecords

selfdestruct(addr, beneficiary) ==
  /\ record_account_access(addr)
  /\ RoomInRecords
  /\ recorded_selfdestructs' =
       Append(recorded_selfdestructs, <<addr, beneficiary>>)
  /\ UNCHANGED <<storageVars, tx_context, callVars,
                 recorded_blockhashes, recorded_logs>>

\* Bug: nothing is reserved.
NothingReserved == capacity

\* The capacity of m_recorded_calls_inputs when call copies an input: it is
\* reserved whenever no call is on record.
Reserved ==
  IF recorded_calls = <<>> /\ capacity < MaxCalls THEN MaxCalls ELSE capacity

\* A copy that does not fit moves every copy: the vector doubles.
CopyInput(input) ==
  /\ inputs' = Append(inputs, input)
  /\ IF Len(inputs) < Reserved
     THEN capacity' = Reserved /\ generation' = generation
     ELSE /\ capacity' = IF Reserved = 0 THEN 1 ELSE 2 * Reserved
          /\ generation' = generation + 1

\* A recorded call points at its copied input: the place of the copy, and
\* the generation of the vector the pointer was taken from.  "sent" is the
\* input itself.
call(destination, input) ==
  /\ record_account_access(destination)
  /\ IF Len(recorded_calls) < MaxCalls
     THEN /\ IF input # NoInput THEN CopyInput(input)
             ELSE /\ capacity' = Reserved
                  /\ UNCHANGED <<inputs, generation>>
          /\ recorded_calls' = Append(recorded_calls,
               [sent |-> input, at |-> Len(inputs) + 1,
                generation |-> generation'])
     ELSE UNCHANGED callVars
  /\ UNCHANGED <<storageVars, tx_context, recordVars>>

get_tx_context == tx_context

get_block_hash(number) ==
  /\ RoomInRecords
  /\ recorded_blockhashes' = Append(recorded_blockhashes, number)
  /\ UNCHANGED <<storageVars, tx_context, callVars, accessVars,
                 recorded_logs, recorded_selfdestructs>>

\* Data and topics are left out.
emit_log(addr) ==
  /\ RoomInRecords
  /\ recorded_logs' = Append(recorded_logs, addr)
  /\ UNCHANGED <<storageVars, tx_context, callVars, accessVars,
                 recorded_blockhashes, recorded_selfdestructs>>

\* The methods a VM reaches through the host interface.
HostMethod ==
  \/ \E a \in Address :
       \/ account_exists(a) \/ get_storage(a) \/ get_account_data(a)
       \/ emit_log(a)
       \/ \E k \in Key, v \in Value : set_storage(a, k, v)
       \/ \E b \in Address : selfdestruct(a, b)
       \/ \E i \in Input \cup {NoInput} : call(a, i)
  \/ get_block_hash(0)

-----------------------------------------------------------------------------
(* The client uses the public members.                                     *)

AddAccount ==
  /\ \E a \in Prepared \ accounts : accounts' = accounts \cup {a}
  /\ UNCHANGED <<storage, status, history, tx_context, callVars, accessVars,
                 recordVars>>

SetTxContext ==
  /\ \E t \in TxContext \ {tx_context} : tx_context' = t
  /\ UNCHANGED <<storageVars, callVars, accessVars, recordVars>>

\* The client clears the record of calls; the copies of inputs are private
\* and stay.
ClearCalls ==
  /\ recorded_calls # <<>> /\ recorded_calls' = <<>>
  /\ UNCHANGED <<storageVars, tx_context, inputs, capacity, generation,
                 accessVars, recordVars>>

ClientStep == AddAccount \/ SetTxContext \/ ClearCalls
=============================================================================
