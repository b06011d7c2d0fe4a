---------------------------- MODULE MCEVMCClient ----------------------------
(***************************************************************************)
(* EVMCClient on small instances: six files, one for each way loading ends.*)
(***************************************************************************)
EXTENDS EVMCClientProps, TLC

CONSTANTS nullName, missing, plain, outdated, bare, good, letter, comma, equals

MCFilename == {nullName, missing, plain, outdated, bare, good}

MCNames == {<<letter>>}
MCValues == {<<>>, <<letter>>, <<equals, letter>>}
MCOptions == [name : MCNames, value : MCValues]

\* Up to two options.
MCOptionLists == {<<>>} \cup {<<a>> : a \in MCOptions}
                        \cup {<<a, b>> : a \in MCOptions, b \in MCOptions}

\* And texts that are not written from a list: an option without a name, a
\* comma at the end.
MCOptionText == {WrittenList(list) : list \in MCOptionLists}
                  \cup {<<comma, letter>>, <<letter, comma>>}

Symmetry == Permutations(Instance) \cup Permutations(VMObject)
              \cup Permutations(ResultObject) \cup Permutations(Memory)
=============================================================================
