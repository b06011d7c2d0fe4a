-------------------------- MODULE EVMCClientProps --------------------------
(***************************************************************************)
(* The properties of EVMCClient.                                           *)
(***************************************************************************)
EXTENDS EVMCClient

CONSTANT OptionLists  \* lists of options a configuration may be written from

\* Every part of the state has its type.
TypeOK ==
  /\ lastError \in Error \cup {NoMessage}
  /\ opened \in [Filename -> 0..MaxOpens]
  /\ origin \in [Instance -> Creator \cup {NoFile}]
  /\ destroys \in [Instance -> Nat]
  /\ call = Idle \/ call \in [phase : {"options"}, vm : Instance,
                              text : OptionText, rest : Seq(Char),
                              accepted : Seq(OptionPair)]
  /\ returned \in [code : Code, vm : Instance \cup {NoVM}]
  /\ functions \subseteq Creator
  /\ raw \subseteq Instance
  /\ held \in [VMObject -> Instance \cup {NoVM, Unborn}]
  /\ kept \in [ResultObject -> Memory \cup {NoRelease, Unborn}]
  /\ releases \in [Memory -> Nat]
  /\ allocated \subseteq Memory
  /\ rawResults \subseteq Memory

-----------------------------------------------------------------------------
VMOwners == VMObject \cup {"client", "loader"}

OwnsVM(x, vm) ==
  \/ x = "client" /\ vm \in raw
  \/ x = "loader" /\ call # Idle /\ call.vm = vm
  \/ x \in VMObject /\ held[x] = vm

\* Every instance ever created is destroyed exactly once, by its only owner:
\* it has one owner until then and none afterwards, however it is moved,
\* and a call of the loader that fails leaves none behind ("performs the
\* following actions atomically").
InstancesOwnedOnce ==
  \A vm \in Instance :
    /\ destroys[vm] <= 1
    /\ (\E x \in VMOwners : OwnsVM(x, vm))
         <=> origin[vm] # NoFile /\ destroys[vm] = 0
    /\ \A x, y \in VMOwners : OwnsVM(x, vm) /\ OwnsVM(y, vm) => x = y

ResultOwners == ResultObject \cup {"client"}

OwnsMemory(x, b) ==
  \/ x = "client" /\ b \in rawResults
  \/ x \in ResultObject /\ kept[x] = b

\* The memory of a result is released exactly once, by its only owner,
\* through moves, release_raw and construction from a raw result.
ResultsOwnedOnce ==
  \A b \in Memory :
    /\ releases[b] <= 1
    /\ (\E x \in ResultOwners : OwnsMemory(x, b))
         <=> b \in allocated /\ releases[b] = 0
    /\ \A x, y \in ResultOwners : OwnsMemory(x, b) /\ OwnsMemory(y, b) => x = y

\* The code of an instance that is not yet destroyed, and every create
\* function the client holds, is in a library that is still open.
CodeStaysLoaded ==
  /\ \A vm \in Instance :
       origin[vm] # NoFile /\ destroys[vm] = 0 => opened[origin[vm]] > 0
  /\ \A f \in functions : opened[f] > 0

\* evmc_last_error_msg never describes an error older than the last loader
\* function's, and nothing after a success ("In case any loading function
\* returned EVMC_LOADER_SUCCESS this function always returns NULL").
MessageOfLastError ==
  call = Idle => lastError \in {NoMessage, returned.code}

-----------------------------------------------------------------------------
(* The configuration string as the header defines it.                      *)

Written(option) ==
  option.name \o (IF option.value = <<>> THEN <<>>
                  ELSE <<Equals>> \o option.value)

\* For each i the options of a list from the i-th on, a comma between any two.
WrittenFrom(list) ==
  LET from[i \in 1..Len(list) + 1] ==
        IF i = Len(list) + 1 THEN <<>>
        ELSE IF i = Len(list) THEN Written(list[i])
        ELSE Written(list[i]) \o <<Comma>> \o from[i + 1]
  IN from

WrittenList(list) == WrittenFrom(list)[1]

Without(text, c) == \A i \in DOMAIN text : text[i] # c

\* Names and values hold no delimiter, but a value may hold an equals sign.
ASSUME ListsAssumption ==
  \A list \in OptionLists :
    /\ list \in Seq(OptionPair)
    /\ \A i \in DOMAIN list :
         /\ list[i].name # <<>>
         /\ Without(list[i].name, Comma) /\ Without(list[i].name, Equals)
         /\ Without(list[i].value, Comma)

\* An instance that is returned configured has accepted the options the
\* configuration was written from, all of them and in their order.
OptionsAsWritten ==
  [][call # Idle /\ call' = Idle /\ returned'.code = "SUCCESS" =>
       \A list \in OptionLists :
         WrittenList(list) = call.text => call.accepted = list]_vars
=============================================================================
