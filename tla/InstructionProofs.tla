------------------------- MODULE InstructionProofs -------------------------
(***************************************************************************)
(* What the instruction tables promise a program, for every limit of the   *)
(* stack: each row covers what it takes, names and metrics agree, and each *)
(* revision keeps what the one before it defined.                          *)
(***************************************************************************)
EXTENDS Instructions, NumberLemmas

-----------------------------------------------------------------------------
(* Rows.                                                                   *)

Row == [gas_cost : Int, stack_height_required : Nat,
        stack_height_change : Int]

\* A row that requires the items it takes.
Covers(m) == m.stack_height_required + m.stack_height_change >= 0

\* A table of such rows.
Sound(table) ==
  /\ table \in [Opcode -> Row]
  /\ \A op \in Opcode : Covers(table[op])

\* Names and metrics draw the same line, but for STOP and INVALID.
Agree(table, names) ==
  \A op \in Opcode :
    table[op] # UNDEFINED <=> op \in names \ {OP_STOP, OP_INVALID}

\* Costs that fit are kept as they are.
LEMMA CostsFit ==
  ASSUME NEW n \in Nat, n < 32768 PROVE Int16(n) = n
<1>1. \A m \in Nat : m < 65536 => m % 65536 = m
  BY SMT
<1>2. n + 32768 \in Nat /\ n + 32768 < 65536
  OBVIOUS
<1> QED
  BY <1>1, <1>2 DEF Int16

\* Rows of instructions that cost, take or leave something.
Defined(m) == m \in Row /\ Covers(m) /\ m # UNDEFINED

LEMMA RowsOf ==
  \A cost, required \in Nat, change \in Int :
    cost < 32768 /\ required + change >= 0 =>
      /\ Metrics(cost, required, change) \in Row
      /\ Covers(Metrics(cost, required, change))
      /\ cost # 0 \/ required # 0 \/ change # 0
           => Defined(Metrics(cost, required, change))
<1> SUFFICES ASSUME NEW cost \in Nat, NEW required \in Nat, NEW change \in Int,
                    cost < 32768, required + change >= 0
             PROVE  /\ Metrics(cost, required, change) \in Row
                    /\ Covers(Metrics(cost, required, change))
                    /\ cost # 0 \/ required # 0 \/ change # 0
                         => Defined(Metrics(cost, required, change))
  OBVIOUS
<1>1. Int16(cost) = cost /\ Int16(0) = 0
  BY CostsFit
<1> QED
  BY <1>1 DEF Metrics, Row, Covers, UNDEFINED, Defined

LEMMA UndefinedRow == UNDEFINED \in Row /\ Covers(UNDEFINED)
  BY RowsOf DEF UNDEFINED

\* What is written in the first table is sound and named.
LEMMA FrontierRows ==
  Sound(frontier_metrics) /\ Agree(frontier_metrics, frontier_names)
<1> SUFFICES ASSUME NEW op \in Opcode
             PROVE  IF op \in frontier_names \ {OP_STOP, OP_INVALID}
                    THEN Defined(frontier_metrics[op])
                    ELSE frontier_metrics[op] = UNDEFINED
  BY UndefinedRow DEF Sound, Agree, frontier_metrics, Defined
<1> USE DEF ZERO, BASE, VERYLOW, LOW, MID, HIGH
<1>1. CASE op \in \h00..\h2f
  <2>1. frontier_metrics[op] = Arithmetic(op)
    BY <1>1 DEF frontier_metrics
  <2>2. /\ Defined(Metrics(VERYLOW, 2, -1)) /\ Defined(Metrics(LOW, 2, -1))
        /\ Defined(Metrics(MID, 3, -2)) /\ Defined(Metrics(HIGH, 2, -1))
        /\ Defined(Metrics(VERYLOW, 1, 0)) /\ Defined(Metrics(30, 2, -1))
    BY RowsOf
  <2> QED
    BY <1>1, <2>1, <2>2
       DEF Arithmetic, frontier_names, OP_STOP, OP_INVALID, OP_SELFDESTRUCT
<1>2. CASE op \in \h30..\h4f
  <2>1. frontier_metrics[op] = Environmental(op)
    BY <1>2 DEF frontier_metrics
  <2>2. /\ Defined(Metrics(BASE, 0, 1)) /\ Defined(Metrics(20, 1, 0))
        /\ Defined(Metrics(VERYLOW, 1, 0)) /\ Defined(Metrics(VERYLOW, 3, -3))
        /\ Defined(Metrics(20, 4, -4))
    BY RowsOf
  <2> QED
    BY <1>2, <2>1, <2>2
       DEF Environmental, frontier_names, OP_STOP, OP_INVALID,
           OP_SELFDESTRUCT, OP_BALANCE, OP_EXTCODESIZE, OP_EXTCODECOPY
<1>3. CASE op \in \h50..\h5b
  <2>1. frontier_metrics[op] = StorageAndFlow(op)
    BY <1>3 DEF frontier_metrics
  <2>2. /\ Defined(Metrics(BASE, 1, -1)) /\ Defined(Metrics(VERYLOW, 1, 0))
        /\ Defined(Metrics(VERYLOW, 2, -2)) /\ Defined(Metrics(50, 1, 0))
        /\ Defined(Metrics(ZERO, 2, -2)) /\ Defined(Metrics(MID, 1, -1))
        /\ Defined(Metrics(HIGH, 2, -2)) /\ Defined(Metrics(BASE, 0, 1))
        /\ Defined(Metrics(1, 0, 0))
    BY RowsOf
  <2> QED
    BY <1>3, <2>1, <2>2
       DEF StorageAndFlow, frontier_names, OP_STOP, OP_INVALID,
           OP_SELFDESTRUCT, OP_SLOAD
<1>4. CASE op \in \h60..\h9f
  <2>1. frontier_metrics[op] = StackItems(op)
    BY <1>4 DEF frontier_metrics
  <2>2. /\ Defined(Metrics(VERYLOW, 0, 1))
        /\ op \in \h80..\h8f => Defined(Metrics(VERYLOW, op - OP_DUP1 + 1, 1))
        /\ op \in \h90..\h9f => Defined(Metrics(VERYLOW, op - OP_SWAP1 + 2, 0))
    BY RowsOf DEF OP_DUP1, OP_SWAP1
  <2> QED
    BY <1>4, <2>1, <2>2
       DEF StackItems, frontier_names, OP_STOP, OP_INVALID, OP_SELFDESTRUCT
<1>5. CASE op \in \ha0..\ha4
  <2>1. frontier_metrics[op] = Logs(op)
    BY <1>5 DEF frontier_metrics
  <2> DEFINE n == op - OP_LOG0
  <2>2. n \in 0..4
    BY <1>5 DEF OP_LOG0
  <2> HIDE DEF n
  <2>3. Defined(Metrics((n + 1) * 375, n + 2, -(n + 2)))
    BY <2>2, RowsOf
  <2> QED
    BY <1>5, <2>1, <2>3
       DEF n, Logs, frontier_names, OP_STOP, OP_INVALID, OP_SELFDESTRUCT
<1>6. CASE op \in \hf0..\hff
  <2>1. frontier_metrics[op] = System(op)
    BY <1>6 DEF frontier_metrics
  <2>2. /\ Defined(Metrics(32000, 3, -2)) /\ Defined(Metrics(40, 7, -6))
        /\ Defined(Metrics(ZERO, 2, -2)) /\ Defined(Metrics(ZERO, 1, -1))
    BY RowsOf
  <2> QED
    BY <1>6, <2>1, <2>2
       DEF System, frontier_names, OP_STOP, OP_INVALID, OP_SELFDESTRUCT,
           OP_CREATE, OP_CALL, OP_CALLCODE
<1>7. CASE op \in \h5c..\h5f \cup \ha5..\hef
  BY <1>7 DEF frontier_metrics, frontier_names, OP_STOP, OP_INVALID,
              OP_SELFDESTRUCT
<1> QED
  BY <1>1, <1>2, <1>3, <1>4, <1>5, <1>6, <1>7 DEF Opcode

-----------------------------------------------------------------------------
(* From one revision to the next.                                          *)

\* A revision keeps what the one before it named, and makes nothing cheaper.
Keeps(table, names, newTable, newNames) ==
  \A op \in names \ {OP_INVALID} :
    /\ op \in newNames
    /\ newTable[op].stack_height_required = table[op].stack_height_required
    /\ newTable[op].stack_height_change = table[op].stack_height_change
    /\ newTable[op].gas_cost >= table[op].gas_cost

\* A row at another cost needs and leaves the same.
LEMMA RepricedRow ==
  ASSUME NEW m \in Row, NEW cost \in Nat, 0 < cost, cost < 32768
  PROVE  /\ Repriced(m, cost) \in Row
         /\ Repriced(m, cost).gas_cost = cost
         /\ Repriced(m, cost).stack_height_required = m.stack_height_required
         /\ Repriced(m, cost).stack_height_change = m.stack_height_change
         /\ Repriced(m, cost) # UNDEFINED
<1>1. Int16(cost) = cost /\ Int16(0) = 0
  BY CostsFit
<1> QED
  BY <1>1 DEF Repriced, Row, UNDEFINED, Metrics

\* A table with its names.
Consistent(table, names) ==
  /\ names \subseteq Opcode /\ OP_INVALID \in names
  /\ Sound(table) /\ Agree(table, names)

Follows(table, names, newTable, newNames) ==
  /\ Consistent(newTable, newNames)
  /\ Keeps(table, names, newTable, newNames)

\* A row that may take the place of another.
Replaces(new, old) ==
  /\ new.stack_height_required = old.stack_height_required
  /\ new.stack_height_change = old.stack_height_change
  /\ new.gas_cost >= old.gas_cost

\* A revision follows the one before it when the rows it changes are defined
\* and, where they were defined before, may take the place of the old ones.
LEMMA ChangedRows ==
  ASSUME NEW table, NEW names, Consistent(table, names),
         NEW changed, changed \subseteq Opcode \ {OP_STOP, OP_INVALID},
         NEW newTable, NEW newNames, newNames = names \cup changed,
         newTable \in [Opcode -> Row],
         \A op \in Opcode \ changed : newTable[op] = table[op],
         \A op \in changed :
           /\ Defined(newTable[op])
           /\ op \in names => Replaces(newTable[op], table[op])
  PROVE  Follows(table, names, newTable, newNames)
<1>1. Sound(newTable)
  BY DEF Consistent, Sound, Defined
<1>2. Agree(newTable, newNames)
  BY DEF Consistent, Agree, Defined
<1>3. ASSUME NEW op \in names \ {OP_INVALID}
      PROVE  op \in newNames /\ Replaces(newTable[op], table[op])
  <2>1. CASE op \in changed
    BY <1>3, <2>1
  <2>2. CASE op \notin changed
    <3>1. newTable[op] = table[op] /\ table[op] \in Row
      BY <1>3, <2>2 DEF Consistent, Sound
    <3>2. table[op].gas_cost \in Int
      BY <3>1 DEF Row
    <3> QED
      BY <1>3, <3>1, <3>2 DEF Replaces
  <2> QED
    BY <2>1, <2>2
<1>4. Keeps(table, names, newTable, newNames)
  BY <1>3 DEF Keeps, Replaces
<1>5. newNames \subseteq Opcode /\ OP_INVALID \in newNames
  BY DEF Consistent
<1> QED
  BY <1>1, <1>2, <1>4, <1>5 DEF Follows, Consistent

LEMMA FrontierConsistent ==
  /\ Consistent(frontier_metrics, frontier_names)
  /\ \A op \in {OP_BALANCE, OP_EXTCODESIZE, OP_EXTCODECOPY} :
       op \in frontier_names /\ frontier_metrics[op].gas_cost = 20
  /\ OP_SLOAD \in frontier_names /\ frontier_metrics[OP_SLOAD].gas_cost = 50
  /\ \A op \in {OP_CALL, OP_CALLCODE} :
       op \in frontier_names /\ frontier_metrics[op].gas_cost = 40
  /\ OP_SELFDESTRUCT \in frontier_names
  /\ frontier_metrics[OP_SELFDESTRUCT].gas_cost = 0
<1> USE DEF OP_BALANCE, OP_EXTCODESIZE, OP_EXTCODECOPY, OP_SLOAD, OP_CALL,
            OP_CALLCODE, OP_SELFDESTRUCT
<1>1. Consistent(frontier_metrics, frontier_names)
  BY FrontierRows DEF Consistent, frontier_names, Opcode, OP_INVALID
<1>2. \A n, r, c : Metrics(n, r, c).gas_cost = Int16(n)
  BY DEF Metrics
<1>3. Int16(20) = 20 /\ Int16(50) = 50 /\ Int16(40) = 40 /\ Int16(0) = 0
  BY CostsFit
<1>4. \A op \in {OP_BALANCE, OP_EXTCODESIZE, OP_EXTCODECOPY} :
        op \in frontier_names /\ frontier_metrics[op].gas_cost = 20
  BY <1>2, <1>3 DEF frontier_metrics, Environmental, frontier_names, Opcode
<1>5. OP_SLOAD \in frontier_names /\ frontier_metrics[OP_SLOAD].gas_cost = 50
  BY <1>2, <1>3 DEF frontier_metrics, StorageAndFlow, frontier_names, Opcode
<1>6. /\ \A op \in {OP_CALL, OP_CALLCODE} :
           op \in frontier_names /\ frontier_metrics[op].gas_cost = 40
      /\ OP_SELFDESTRUCT \in frontier_names
      /\ frontier_metrics[OP_SELFDESTRUCT].gas_cost = 0
  BY <1>2, <1>3 DEF frontier_metrics, System, ZERO, frontier_names, Opcode,
                    OP_CREATE
<1> QED
  BY <1>1, <1>4, <1>5, <1>6

LEMMA HomesteadFollows ==
  /\ Follows(frontier_metrics, frontier_names,
             homestead_metrics, homestead_names)
  /\ \A op \in Opcode \ {OP_DELEGATECALL} :
       homestead_metrics[op] = frontier_metrics[op]
  /\ OP_DELEGATECALL \in homestead_names
  /\ homestead_metrics[OP_DELEGATECALL].gas_cost = 40
<1> DEFINE new == Metrics(40, 6, -5)
<1>1. Defined(new) /\ new.gas_cost = 40
  BY RowsOf, CostsFit DEF Metrics
<1> HIDE DEF new
<1>2. /\ homestead_metrics \in [Opcode -> Row]
      /\ homestead_metrics[OP_DELEGATECALL] = new
      /\ \A op \in Opcode \ {OP_DELEGATECALL} :
           homestead_metrics[op] = frontier_metrics[op]
  <2>1. OP_DELEGATECALL \in Opcode
    BY DEF Opcode, OP_DELEGATECALL
  <2>2. frontier_metrics \in [Opcode -> Row] /\ new \in Row
    BY <1>1, FrontierRows DEF Sound, Defined
  <2> QED
    BY <2>1, <2>2 DEF homestead_metrics, new
<1>3. OP_DELEGATECALL \in Opcode \ (frontier_names \cup {OP_STOP, OP_INVALID})
  BY DEF Opcode, OP_DELEGATECALL, frontier_names, OP_STOP, OP_INVALID,
         OP_SELFDESTRUCT
<1>4. homestead_names = frontier_names \cup {OP_DELEGATECALL}
  BY DEF homestead_names
<1>5. Follows(frontier_metrics, frontier_names,
              homestead_metrics, homestead_names)
  <2> DEFINE changed == {OP_DELEGATECALL}
  <2>1. changed \subseteq Opcode \ {OP_STOP, OP_INVALID}
    BY <1>3
  <2>2. homestead_names = frontier_names \cup changed
    BY <1>4
  <2>3. \A op \in Opcode \ changed : homestead_metrics[op] = frontier_metrics[op]
    BY <1>2
  <2>4. \A op \in changed :
          /\ Defined(homestead_metrics[op])
          /\ op \in frontier_names
               => Replaces(homestead_metrics[op], frontier_metrics[op])
    BY <1>1, <1>2, <1>3
  <2> HIDE DEF changed
  <2> QED
    BY <1>2, <2>1, <2>2, <2>3, <2>4, ChangedRows, FrontierConsistent
<1> QED
  BY <1>1, <1>2, <1>4, <1>5

LEMMA TangerineWhistleFollows ==
  /\ Follows(homestead_metrics, homestead_names,
             tangerine_whistle_metrics, homestead_names)
  /\ tangerine_whistle_metrics[OP_BALANCE].gas_cost = 400
  /\ tangerine_whistle_metrics[OP_SLOAD].gas_cost = 200
<1> DEFINE changed == {OP_BALANCE, OP_EXTCODESIZE, OP_EXTCODECOPY, OP_SLOAD,
                       OP_CALL, OP_CALLCODE, OP_DELEGATECALL, OP_SELFDESTRUCT}
           cost(op) ==
             IF op = OP_BALANCE THEN 400 ELSE IF op = OP_SLOAD THEN 200
             ELSE IF op = OP_SELFDESTRUCT THEN 5000 ELSE 700
           old == homestead_metrics
<1>1. Consistent(old, homestead_names)
  BY HomesteadFollows DEF Follows
<1>2. changed \subseteq Opcode \ {OP_STOP, OP_INVALID}
  BY DEF Opcode, OP_BALANCE, OP_EXTCODESIZE, OP_EXTCODECOPY, OP_SLOAD,
         OP_CALL, OP_CALLCODE, OP_DELEGATECALL, OP_SELFDESTRUCT, OP_STOP,
         OP_INVALID
<1>3. \A op \in changed : op \in homestead_names /\ old[op].gas_cost <= 50
  <2>1. OP_SELFDESTRUCT # OP_DELEGATECALL /\ OP_BALANCE # OP_DELEGATECALL
        /\ OP_EXTCODESIZE # OP_DELEGATECALL /\ OP_EXTCODECOPY # OP_DELEGATECALL
        /\ OP_SLOAD # OP_DELEGATECALL /\ OP_CALL # OP_DELEGATECALL
        /\ OP_CALLCODE # OP_DELEGATECALL
    BY DEF OP_BALANCE, OP_EXTCODESIZE, OP_EXTCODECOPY, OP_SLOAD,
           OP_CALL, OP_CALLCODE, OP_DELEGATECALL, OP_SELFDESTRUCT
  <2> QED
    BY <1>2, <2>1, FrontierConsistent, HomesteadFollows DEF homestead_names
<1>4. old \in [Opcode -> Row]
  BY <1>1 DEF Consistent, Sound
<1> HIDE DEF old
<1>5. /\ tangerine_whistle_metrics \in [Opcode -> Row]
      /\ \A op \in Opcode \ changed : tangerine_whistle_metrics[op] = old[op]
      /\ \A op \in changed :
           tangerine_whistle_metrics[op] = Repriced(old[op], cost(op))
  <2>1. \A op \in changed : Repriced(old[op], cost(op)) \in Row
    BY <1>2, <1>4, RepricedRow
  <2> QED
    BY <1>4, <2>1
       DEF tangerine_whistle_metrics, old, OP_BALANCE, OP_EXTCODESIZE,
           OP_EXTCODECOPY, OP_SLOAD, OP_CALL, OP_CALLCODE, OP_DELEGATECALL,
           OP_SELFDESTRUCT, Opcode
<1>6. ASSUME NEW op \in changed
      PROVE  /\ Defined(tangerine_whistle_metrics[op])
             /\ Replaces(tangerine_whistle_metrics[op], old[op])
             /\ tangerine_whistle_metrics[op].gas_cost = cost(op)
  <2>1. old[op] \in Row /\ Covers(old[op]) /\ old[op].gas_cost \in Int
    BY <1>1, <1>2, <1>4, <1>6 DEF Consistent, Sound, Row
  <2>2. cost(op) \in Nat /\ 50 < cost(op) /\ cost(op) < 32768
    OBVIOUS
  <2>3. old[op].gas_cost <= 50
    BY <1>3
  <2>4. tangerine_whistle_metrics[op] = Repriced(old[op], cost(op))
    BY <1>5
  <2> HIDE DEF cost, changed
  <2> QED
    BY <2>1, <2>2, <2>3, <2>4, RepricedRow DEF Defined, Covers, Replaces
<1>7. homestead_names = homestead_names \cup changed
  BY <1>3
<1>8. /\ OP_BALANCE \in changed /\ OP_SLOAD \in changed
      /\ cost(OP_BALANCE) = 400 /\ cost(OP_SLOAD) = 200
  BY DEF OP_BALANCE, OP_SLOAD
<1> HIDE DEF changed, cost
<1>9. Follows(old, homestead_names, tangerine_whistle_metrics, homestead_names)
  BY <1>1, <1>2, <1>5, <1>6, <1>7, ChangedRows
<1> QED
  BY <1>6, <1>8, <1>9 DEF old

LEMMA ByzantiumFollows ==
  /\ Follows(tangerine_whistle_metrics, homestead_names,
             byzantium_metrics, byzantium_names)
  /\ byzantium_metrics[OP_BALANCE].gas_cost = 400
  /\ byzantium_metrics[OP_SLOAD].gas_cost = 200
<1> DEFINE changed ==
             {OP_RETURNDATASIZE, OP_RETURNDATACOPY, OP_STATICCALL, OP_REVERT}
           old == tangerine_whistle_metrics
<1> USE DEF OP_RETURNDATASIZE, OP_RETURNDATACOPY, OP_STATICCALL, OP_REVERT
<1>1. Consistent(old, homestead_names)
  BY TangerineWhistleFollows DEF Follows
<1>2. changed \subseteq Opcode \ {OP_STOP, OP_INVALID}
  BY DEF Opcode, OP_STOP, OP_INVALID
<1>3. \A op \in changed : op \notin homestead_names
  BY DEF homestead_names, frontier_names, OP_DELEGATECALL, OP_INVALID,
         OP_SELFDESTRUCT
<1>4. old \in [Opcode -> Row]
  BY <1>1 DEF Consistent, Sound
<1>5. /\ Defined(Metrics(BASE, 0, 1)) /\ Defined(Metrics(VERYLOW, 3, -3))
      /\ Defined(Metrics(700, 6, -5)) /\ Defined(Metrics(ZERO, 2, -2))
  BY RowsOf DEF BASE, VERYLOW, ZERO
<1> HIDE DEF old
<1>6. /\ byzantium_metrics \in [Opcode -> Row]
      /\ \A op \in Opcode \ changed : byzantium_metrics[op] = old[op]
      /\ \A op \in changed : Defined(byzantium_metrics[op])
  BY <1>2, <1>4, <1>5 DEF byzantium_metrics, old, Defined
<1>7. byzantium_names = homestead_names \cup changed
  BY DEF byzantium_names
<1>8. OP_BALANCE \in Opcode \ changed /\ OP_SLOAD \in Opcode \ changed
  BY DEF OP_BALANCE, OP_SLOAD, Opcode
<1> HIDE DEF changed
<1>9. Follows(old, homestead_names, byzantium_metrics, byzantium_names)
  BY <1>1, <1>2, <1>3, <1>6, <1>7, ChangedRows
<1> QED
  BY <1>6, <1>8, <1>9, TangerineWhistleFollows DEF old

LEMMA ConstantinopleFollows ==
  /\ Follows(byzantium_metrics, byzantium_names,
             constantinople_metrics, constantinople_names)
  /\ constantinople_metrics[OP_BALANCE].gas_cost = 400
  /\ constantinople_metrics[OP_SLOAD].gas_cost = 200
  /\ constantinople_metrics[OP_EXTCODEHASH].gas_cost = 400
<1> DEFINE changed == \h1b..\h1d \cup {OP_EXTCODEHASH, OP_CREATE2}
           old == byzantium_metrics
<1> USE DEF OP_EXTCODEHASH, OP_CREATE2
<1>1. Consistent(old, byzantium_names)
  BY ByzantiumFollows DEF Follows
<1>2. changed \subseteq Opcode \ {OP_STOP, OP_INVALID}
  BY DEF Opcode, OP_STOP, OP_INVALID
<1>3. \A op \in changed : op \notin byzantium_names
  BY DEF byzantium_names, homestead_names, frontier_names, OP_DELEGATECALL,
         OP_INVALID, OP_SELFDESTRUCT, OP_RETURNDATASIZE, OP_RETURNDATACOPY,
         OP_STATICCALL, OP_REVERT
<1>4. old \in [Opcode -> Row]
  BY <1>1 DEF Consistent, Sound
<1>5. /\ Defined(Metrics(VERYLOW, 2, -1)) /\ Defined(Metrics(400, 1, 0))
      /\ Defined(Metrics(32000, 4, -3))
  BY RowsOf DEF VERYLOW
<1> HIDE DEF old
<1>6. /\ constantinople_metrics \in [Opcode -> Row]
      /\ \A op \in Opcode \ changed : constantinople_metrics[op] = old[op]
      /\ \A op \in changed : Defined(constantinople_metrics[op])
      /\ constantinople_metrics[OP_EXTCODEHASH] = Metrics(400, 1, 0)
  BY <1>2, <1>4, <1>5 DEF constantinople_metrics, old, Defined
<1>7. constantinople_names = byzantium_names \cup changed
  BY DEF constantinople_names
<1>8. OP_BALANCE \in Opcode \ changed /\ OP_SLOAD \in Opcode \ changed
  BY DEF OP_BALANCE, OP_SLOAD, Opcode
<1> HIDE DEF changed
<1>9. Follows(old, byzantium_names, constantinople_metrics, constantinople_names)
  BY <1>1, <1>2, <1>3, <1>6, <1>7, ChangedRows
<1>10. constantinople_metrics[OP_EXTCODEHASH].gas_cost = 400
  BY <1>6, CostsFit DEF Metrics
<1> QED
  BY <1>6, <1>8, <1>9, <1>10, ByzantiumFollows DEF old

LEMMA IstanbulFollows ==
  Follows(constantinople_metrics, constantinople_names,
          istanbul_metrics, istanbul_names)
<1> DEFINE added == {OP_CHAINID, OP_SELFBALANCE}
           repriced == {OP_BALANCE, OP_EXTCODEHASH, OP_SLOAD}
           changed == added \cup repriced
           cost(op) == IF op = OP_SLOAD THEN 800 ELSE 700
           old == constantinople_metrics
<1> USE DEF OP_CHAINID, OP_SELFBALANCE, OP_BALANCE, OP_EXTCODEHASH, OP_SLOAD
<1>1. Consistent(old, constantinople_names)
  BY ConstantinopleFollows DEF Follows
<1>2. changed \subseteq Opcode \ {OP_STOP, OP_INVALID}
  BY DEF Opcode, OP_STOP, OP_INVALID
<1>3. \A op \in added : op \notin constantinople_names
  BY DEF constantinople_names, byzantium_names, homestead_names,
         frontier_names, OP_DELEGATECALL, OP_INVALID, OP_SELFDESTRUCT,
         OP_RETURNDATASIZE, OP_RETURNDATACOPY, OP_STATICCALL, OP_REVERT,
         OP_CREATE2
<1>4. repriced \subseteq constantinople_names
  BY DEF constantinople_names, byzantium_names, homestead_names,
         frontier_names
<1>5. old \in [Opcode -> Row] /\ \A op \in Opcode : Covers(old[op])
  BY <1>1 DEF Consistent, Sound
<1>6. \A op \in repriced : old[op].gas_cost <= 400
  BY ConstantinopleFollows
<1>7. Defined(Metrics(BASE, 0, 1)) /\ Defined(Metrics(LOW, 0, 1))
  BY RowsOf DEF BASE, LOW
<1> HIDE DEF old
<1>8. \A op \in repriced :
        /\ cost(op) \in Nat /\ 400 < cost(op) /\ cost(op) < 32768
        /\ old[op] \in Row /\ Covers(old[op]) /\ old[op].gas_cost \in Int
  BY <1>2, <1>5 DEF Row
<1>9. \A op \in repriced : Repriced(old[op], cost(op)) \in Row
  <2> HIDE DEF repriced, cost
  <2> QED
    BY <1>8, RepricedRow
<1>10. /\ istanbul_metrics \in [Opcode -> Row]
       /\ \A op \in Opcode \ changed : istanbul_metrics[op] = old[op]
       /\ \A op \in added : Defined(istanbul_metrics[op])
       /\ \A op \in repriced :
            istanbul_metrics[op] = Repriced(old[op], cost(op))
  <2>1. Metrics(BASE, 0, 1) \in Row /\ Metrics(LOW, 0, 1) \in Row
    BY <1>7 DEF Defined
  <2>2. /\ Repriced(old[OP_BALANCE], 700) \in Row
        /\ Repriced(old[OP_EXTCODEHASH], 700) \in Row
        /\ Repriced(old[OP_SLOAD], 800) \in Row
    BY <1>9
  <2>3. old \in [Opcode -> Row]
    BY <1>5
  <2>4. changed \subseteq Opcode
    BY <1>2
  <2>5. /\ istanbul_metrics \in [Opcode -> Row]
        /\ istanbul_metrics[OP_CHAINID] = Metrics(BASE, 0, 1)
        /\ istanbul_metrics[OP_SELFBALANCE] = Metrics(LOW, 0, 1)
        /\ istanbul_metrics[OP_BALANCE] = Repriced(old[OP_BALANCE], 700)
        /\ istanbul_metrics[OP_EXTCODEHASH] = Repriced(old[OP_EXTCODEHASH], 700)
        /\ istanbul_metrics[OP_SLOAD] = Repriced(old[OP_SLOAD], 800)
        /\ \A op \in Opcode \ changed : istanbul_metrics[op] = old[op]
    BY <2>1, <2>2, <2>3, <2>4 DEF istanbul_metrics, old
  <2> QED
    BY <1>7, <2>5
<1>11. ASSUME NEW op \in repriced
       PROVE  /\ Defined(istanbul_metrics[op])
              /\ Replaces(istanbul_metrics[op], old[op])
  <2>1. /\ old[op] \in Row /\ Covers(old[op]) /\ old[op].gas_cost \in Int
        /\ cost(op) \in Nat /\ 400 < cost(op) /\ cost(op) < 32768
        /\ old[op].gas_cost <= 400
        /\ istanbul_metrics[op] = Repriced(old[op], cost(op))
    BY <1>6, <1>8, <1>10
  <2> HIDE DEF changed, added, repriced, cost
  <2> QED
    BY <2>1, RepricedRow DEF Defined, Covers, Replaces
<1>12. istanbul_names = constantinople_names \cup changed
  BY <1>4 DEF istanbul_names
<1>13. \A op \in changed :
         /\ Defined(istanbul_metrics[op])
         /\ op \in constantinople_names
              => Replaces(istanbul_metrics[op], old[op])
  BY <1>3, <1>10, <1>11
<1> HIDE DEF changed, added, repriced
<1> QED
  BY <1>1, <1>2, <1>10, <1>12, <1>13, ChangedRows DEF old

-----------------------------------------------------------------------------
(* All revisions.                                                          *)

\* A table follows itself: some revisions share theirs.
LEMMA SameTable ==
  ASSUME NEW table, NEW names, Consistent(table, names)
  PROVE  Follows(table, names, table, names)
<1>1. \A op \in names : table[op].gas_cost \in Int
  BY DEF Consistent, Sound, Row
<1> QED
  BY <1>1 DEF Follows, Keeps, Consistent

LEMMA TablesOf ==
  /\ MetricsTable(0) = frontier_metrics /\ NamesTable(0) = frontier_names
  /\ MetricsTable(1) = homestead_metrics /\ NamesTable(1) = homestead_names
  /\ \A r \in {2, 3} : /\ MetricsTable(r) = tangerine_whistle_metrics
                       /\ NamesTable(r) = homestead_names
  /\ MetricsTable(4) = byzantium_metrics /\ NamesTable(4) = byzantium_names
  /\ \A r \in {5, 6} : /\ MetricsTable(r) = constantinople_metrics
                       /\ NamesTable(r) = constantinople_names
  /\ \A r \in {7, 8} : /\ MetricsTable(r) = istanbul_metrics
                       /\ NamesTable(r) = istanbul_names
  BY DEF MetricsTable, NamesTable, EVMC_FRONTIER, EVMC_HOMESTEAD,
         EVMC_TANGERINE_WHISTLE, EVMC_SPURIOUS_DRAGON, EVMC_BYZANTIUM,
         EVMC_CONSTANTINOPLE, EVMC_PETERSBURG, EVMC_ISTANBUL, EVMC_BERLIN

LEMMA RevisionsAre == Revision = 0..8
  BY DEF Revision, EVMC_FRONTIER, EVMC_BERLIN

LEMMA NextRevision ==
  /\ \A r \in 0..7 : Follows(MetricsTable(r), NamesTable(r),
                             MetricsTable(r + 1), NamesTable(r + 1))
  /\ \A r \in 0..8 : Consistent(MetricsTable(r), NamesTable(r))
<1>1. /\ Consistent(frontier_metrics, frontier_names)
      /\ Consistent(homestead_metrics, homestead_names)
      /\ Consistent(tangerine_whistle_metrics, homestead_names)
      /\ Consistent(byzantium_metrics, byzantium_names)
      /\ Consistent(constantinople_metrics, constantinople_names)
      /\ Consistent(istanbul_metrics, istanbul_names)
  BY FrontierConsistent, HomesteadFollows, TangerineWhistleFollows,
     ByzantiumFollows, ConstantinopleFollows, IstanbulFollows DEF Follows
<1>2. ASSUME NEW r \in 0..8
      PROVE  Consistent(MetricsTable(r), NamesTable(r))
  <2>1. r \in {0, 1, 2, 3, 4, 5, 6, 7, 8}
    OBVIOUS
  <2> QED
    BY <1>1, <2>1, TablesOf
<1>3. ASSUME NEW r \in 0..7
      PROVE  Follows(MetricsTable(r), NamesTable(r),
                     MetricsTable(r + 1), NamesTable(r + 1))
  <2>1. CASE r = 0
    BY <2>1, TablesOf, HomesteadFollows
  <2>2. CASE r = 1
    BY <2>2, TablesOf, TangerineWhistleFollows
  <2>3. CASE r = 3
    BY <2>3, TablesOf, ByzantiumFollows
  <2>4. CASE r = 4
    BY <2>4, TablesOf, ConstantinopleFollows
  <2>5. CASE r = 6
    BY <2>5, TablesOf, IstanbulFollows
  <2>6. CASE r \in {2, 5, 7}
    BY <1>1, <2>6, TablesOf, SameTable
  <2> QED
    BY <2>1, <2>2, <2>3, <2>4, <2>5, <2>6
<1> QED
  BY <1>2, <1>3

\* Every later revision keeps what an earlier one defined.
LEMMA LaterRevisions ==
  \A r, s \in Revision : r <= s =>
    Keeps(MetricsTable(r), NamesTable(r), MetricsTable(s), NamesTable(s))
<1> SUFFICES ASSUME NEW r \in 0..8
             PROVE  \A s \in r..8 :
                      Keeps(MetricsTable(r), NamesTable(r),
                            MetricsTable(s), NamesTable(s))
  BY RevisionsAre
<1> DEFINE N == 8 - r
           T == {n \in 0..N : Keeps(MetricsTable(r), NamesTable(r),
                                    MetricsTable(r + n), NamesTable(r + n))}
<1>1. 0 \in T
  <2>1. r + 0 = r /\ 0 \in 0..N
    OBVIOUS
  <2> QED
    BY <2>1, NextRevision, SameTable DEF Follows
<1>2. ASSUME NEW n \in 0..N - 1, n \in T PROVE n + 1 \in T
  <2> DEFINE s == r + n
  <2>1. s \in 0..7 /\ r + (n + 1) = s + 1 /\ n + 1 \in 0..N /\ s \in 0..8
        /\ s + 1 \in 0..8
    OBVIOUS
  <2>2. Keeps(MetricsTable(r), NamesTable(r), MetricsTable(s), NamesTable(s))
    BY <1>2
  <2>3. Follows(MetricsTable(s), NamesTable(s),
                MetricsTable(s + 1), NamesTable(s + 1))
    BY <2>1, NextRevision
  <2>4. /\ Consistent(MetricsTable(r), NamesTable(r))
        /\ Consistent(MetricsTable(s), NamesTable(s))
        /\ Consistent(MetricsTable(s + 1), NamesTable(s + 1))
    BY <2>1, NextRevision
  <2> HIDE DEF s
  <2>5. ASSUME NEW op \in NamesTable(r) \ {OP_INVALID}
        PROVE  /\ op \in NamesTable(s + 1)
               /\ Replaces(MetricsTable(s + 1)[op], MetricsTable(r)[op])
    <3>1. /\ op \in NamesTable(s)
          /\ Replaces(MetricsTable(s)[op], MetricsTable(r)[op])
      BY <2>2, <2>5 DEF Keeps, Replaces
    <3>2. /\ op \in NamesTable(s + 1)
          /\ Replaces(MetricsTable(s + 1)[op], MetricsTable(s)[op])
      BY <2>3, <2>5, <3>1 DEF Keeps, Replaces, Follows
    <3>3. /\ MetricsTable(r)[op].gas_cost \in Int
          /\ MetricsTable(s)[op].gas_cost \in Int
          /\ MetricsTable(s + 1)[op].gas_cost \in Int
      BY <2>4, <2>5, <3>1, <3>2 DEF Consistent, Sound, Row
    <3> QED
      BY <3>1, <3>2, <3>3 DEF Replaces
  <2>6. Keeps(MetricsTable(r), NamesTable(r),
              MetricsTable(s + 1), NamesTable(s + 1))
    BY <2>5 DEF Keeps, Replaces
  <2> QED
    BY <2>1, <2>6
<1> HIDE DEF T
<1>3. N \in Nat
  OBVIOUS
<1>4. 0..N \subseteq T
  BY <1>1, <1>2, <1>3, UpTo
<1>5. ASSUME NEW s \in r..8
      PROVE  Keeps(MetricsTable(r), NamesTable(r),
                   MetricsTable(s), NamesTable(s))
  <2>1. s - r \in 0..N /\ r + (s - r) = s
    OBVIOUS
  <2>2. s - r \in T
    BY <1>4, <2>1
  <2> QED
    BY <2>1, <2>2 DEF T
<1> QED
  BY <1>5

-----------------------------------------------------------------------------
(* Programs.                                                               *)

\* Two runs of one program under an older and a newer revision.
ProgramInv ==
  /\ older \in Revision /\ newer \in Revision /\ older <= newer
  /\ height \in [{"older", "newer"} -> 0..StackLimit]
  /\ height["older"] = height["newer"]
  /\ extra \in Nat
  /\ upset = FALSE

LEMMA ProgramsBegin == InstructionsInit => ProgramInv
  BY StackAssumption, RevisionsAre DEF InstructionsInit, ProgramInv

LEMMA ProgramsGoOn ==
  ProgramInv /\ [InstructionsNext]_instructionVars => ProgramInv'
<1> SUFFICES ASSUME ProgramInv, InstructionsNext PROVE ProgramInv'
  BY DEF ProgramInv, instructionVars
<1>1. PICK op \in Opcode : ExecuteOpcode(op)
  BY DEF InstructionsNext
<1> DEFINE m == MetricsTable(older)[op]
           n == MetricsTable(newer)[op]
           h == height["older"]
<1>2. /\ op \in NamesTable(older) \ {OP_INVALID}
      /\ m.stack_height_required <= h
      /\ h + m.stack_height_change <= StackLimit
  BY <1>1 DEF ExecuteOpcode, Executable
<1>3. /\ m \in Row /\ Covers(m) /\ n \in Row
  BY NextRevision, RevisionsAre DEF ProgramInv, Consistent, Sound
<1>4. /\ op \in NamesTable(newer)
      /\ n.stack_height_required = m.stack_height_required
      /\ n.stack_height_change = m.stack_height_change
      /\ n.gas_cost >= m.gas_cost
  BY <1>2, LaterRevisions DEF ProgramInv, Keeps
<1>5. Executable(newer, op, height["newer"])
  BY <1>2, <1>4 DEF Executable, ProgramInv
<1>6. /\ height' = [older |-> h + m.stack_height_change,
                    newer |-> height["newer"] + n.stack_height_change]
      /\ extra' = Counted(extra + n.gas_cost - m.gas_cost)
      /\ UNCHANGED <<older, newer, upset>>
  BY <1>1, <1>5 DEF ExecuteOpcode
<1>7. h \in 0..StackLimit /\ height["newer"] = h
  BY DEF ProgramInv
<1>8. /\ m.stack_height_required \in Nat /\ m.stack_height_change \in Int
      /\ m.gas_cost \in Int /\ n.gas_cost \in Int
      /\ m.stack_height_required + m.stack_height_change >= 0
  BY <1>3 DEF Row, Covers
<1> HIDE DEF m, n, h
<1>9. h + m.stack_height_change \in 0..StackLimit
  BY <1>2, <1>7, <1>8, StackAssumption
<1>10. /\ height' \in [{"older", "newer"} -> 0..StackLimit]
       /\ height'["older"] = height'["newer"]
  BY <1>4, <1>6, <1>7, <1>9
<1>11. extra' \in Nat
  BY <1>4, <1>6, <1>8, CapAssumption DEF Counted, ProgramInv
<1> QED
  BY <1>6, <1>10, <1>11 DEF ProgramInv

THEOREM ProgramsRun == InstructionsSpec => []ProgramInv
  BY ProgramsBegin, ProgramsGoOn, PTL DEF InstructionsSpec

\* The two lookups agree on which opcodes a revision defines.
THEOREM TablesDrawTheSameLine == InstructionsSpec => []TablesAgree
<1>1. ProgramInv => TablesAgree
  BY NextRevision, RevisionsAre
     DEF ProgramInv, TablesAgree, Consistent, Agree
<1> QED
  BY <1>1, ProgramsRun, PTL

\* No program that respects the required heights leaves its stack.
THEOREM StacksAreCovered == InstructionsSpec => []StackCovered
<1>1. ProgramInv => StackCovered
  BY DEF ProgramInv, StackCovered
<1> QED
  BY <1>1, ProgramsRun, PTL

\* No program breaks, or gets cheaper, when its revision is raised.
THEOREM UpgradesKeepPrograms == InstructionsSpec => []UpgradeKeepsPrograms
<1>1. ProgramInv => UpgradeKeepsPrograms
  BY DEF ProgramInv, UpgradeKeepsPrograms
<1> QED
  BY <1>1, ProgramsRun, PTL
=============================================================================
