--------------------------- MODULE BadgeMailProofs ---------------------------
(***************************************************************************)
(* Theorems of BadgeMail, for any number of players, badges, releases and  *)
(* nodes.                                                                  *)
(***************************************************************************)
EXTENDS BadgeMail, TLAPS

-----------------------------------------------------------------------------
(***************************************************************************)
(* Types.  What a node works on is its own; what is in the tables only     *)
(* grows, and a node's batch names rows that are there.                    *)
(***************************************************************************)
Own(n) ==
  /\ node[n] \in NodeState
  /\ At(n, "record") => node[n].at \in node[n].codes
  /\ At(n, "mark") => node[n].at \in User /\ Known(n, node[n].at) # {}
  /\ \A u \in User : \A c \in node[n].batch[u] : row[u][c] # "none"

Tables ==
  /\ meets \subseteq Pairs
  /\ row \in [User -> [Code -> {"none", "unannounced", "announced"}]]
  /\ recorded \subseteq Code
  /\ mailed \subseteq Pairs
  /\ unlocked \subseteq Pairs
  /\ spent \in [changes : Nat, faults : Nat, inits : Nat]
  /\ \A p \in mailed \union unlocked : row[p[1]][p[2]] # "none"

Typed ==
  /\ Tables
  /\ node \in [Node -> NodeState]
  /\ \A n \in Node : Own(n)

LEMMA TypedIsTypeOK == Typed => TypeOK
BY DEF Typed, Tables, Own, TypeOK

\* One node moves, the others stand still.
Moves(n) ==
  /\ node' = [node EXCEPT ![n] = node'[n]]
  /\ Own(n)'

RowsStay == \A u \in User, c \in Code : row[u][c] # "none" => row'[u][c] # "none"

LEMMA MoveTyped ==
  ASSUME Typed, NEW n \in Node, Moves(n), RowsStay
  PROVE  node' \in [Node -> NodeState] /\ \A m \in Node : Own(m)'
<1>1. node' \in [Node -> NodeState]
  BY DEF Typed, Moves, Own
<1>2. ASSUME NEW m \in Node, m # n PROVE Own(m)'
  <2>1. node'[m] = node[m] /\ Own(m)
    BY <1>2 DEF Moves, Typed
  <2>2. \A u \in User : node[m].batch[u] \subseteq Code
    BY <1>2 DEF Typed, NodeState
  <2> QED BY <2>1, <2>2 DEF Own, At, Known, RowsStay
<1> QED BY <1>1, <1>2 DEF Moves

(***************************************************************************)
(* A node that goes on empty-handed, and one that keeps what it has.       *)
(***************************************************************************)
LEMMA DownTyped ==
  ASSUME NEW pc \in {"down", "boot", "codes", "stamp", "evaluate", "rows", "mail"}
  PROVE  LET r == [Down EXCEPT !.pc = pc] IN
         r \in NodeState /\ r.pc = pc /\ r.codes = {} /\ r.batch = NoRows
BY DEF Down, NoRows, NodeState

LEMMA GotoMoves ==
  ASSUME Typed, NEW n \in Node,
         NEW pc \in {"down", "boot", "codes", "stamp", "evaluate", "rows", "mail"},
         Goto(n, pc)
  PROVE  /\ Moves(n)
         /\ node'[n].pc = pc /\ node'[n].codes = {} /\ node'[n].batch = NoRows
<1> DEFINE r == [Down EXCEPT !.pc = pc]
<1>1. node'[n] = r /\ node' = [node EXCEPT ![n] = r]
  BY DEF Goto, Typed
<1>2. r \in NodeState /\ r.pc = pc /\ r.codes = {} /\ r.batch = NoRows
  BY DownTyped
<1> HIDE DEF r
<1> QED BY <1>1, <1>2 DEF Moves, Own, At, NoRows

(***************************************************************************)
(* The two ways rows change.                                               *)
(***************************************************************************)
LEMMA EvaluateTyped ==
  ASSUME Typed, NEW n \in Node, EvaluateAll(n)
  PROVE  Tables' /\ RowsStay
<1> DEFINE granted == {p \in meets : p[2] \in Catalog[n] /\ row[p[1]][p[2]] = "none"}
<1>1. row' = [u \in User |-> [c \in Code |->
               IF <<u, c>> \in granted THEN "unannounced" ELSE row[u][c]]]
  BY DEF EvaluateAll
<1>2. unlocked' = unlocked \union {p \in granted : p[2] \in recorded}
  BY DEF EvaluateAll
<1>3. granted \subseteq Pairs
  BY DEF Typed, Tables
<1> HIDE DEF granted
<1>4. /\ row' \in [User -> [Code -> {"none", "unannounced", "announced"}]]
      /\ RowsStay
  BY <1>1 DEF Typed, Tables, RowsStay
<1>5. ASSUME NEW p \in mailed' \union unlocked' PROVE row'[p[1]][p[2]] # "none"
  <2>1. mailed' = mailed
    BY DEF EvaluateAll
  <2>2. p \in Pairs /\ p[1] \in User /\ p[2] \in Code /\ p = <<p[1], p[2]>>
    BY <1>2, <1>3, <2>1 DEF Typed, Tables, Pairs
  <2>3. CASE p \in granted
    BY <2>2, <2>3, <1>1
  <2>4. CASE p \in mailed \union unlocked
    BY <2>2, <2>4, <1>4 DEF Typed, Tables, RowsStay
  <2> QED BY <2>1, <2>3, <2>4, <1>2
<1> QED BY <1>2, <1>3, <1>4, <1>5 DEF Typed, Tables, EvaluateAll

LEMMA StampTyped ==
  ASSUME Typed,
         row' \in [User -> [Code -> {"none", "unannounced", "announced"}]], RowsStay,
         UNCHANGED <<meets, recorded, mailed, unlocked>>,
         spent' \in [changes : Nat, faults : Nat, inits : Nat]
  PROVE  Tables'
BY DEF Typed, Tables, RowsStay, Pairs

LEMMA AnnounceTyped ==
  ASSUME Typed, NEW u \in User, NEW codes
  PROVE  /\ Announce(u, codes) \in [User -> [Code -> {"none", "unannounced", "announced"}]]
         /\ \A v \in User, c \in Code :
              Announce(u, codes)[v][c] = IF v = u /\ c \in codes /\ row[v][c] = "unannounced"
                                         THEN "announced" ELSE row[v][c]
BY DEF Announce, Typed, Tables

LEMMA SpendTyped ==
  ASSUME Typed, NEW what \in {"changes", "faults", "inits"}, Spend(what)
  PROVE  spent' \in [changes : Nat, faults : Nat, inits : Nat]
BY DEF Typed, Tables, Spend

LEMMA NoStampTyped ==
  ASSUME Typed, UNCHANGED <<row, mailed, unlocked>>, meets' \subseteq Pairs,
         recorded' \subseteq Code,
         spent' \in [changes : Nat, faults : Nat, inits : Nat]
  PROVE  Tables' /\ RowsStay
BY DEF Typed, Tables, RowsStay

LEMMA InitTyped == Init => Typed
<1> SUFFICES ASSUME Init PROVE Typed
  OBVIOUS
<1>1. recorded \subseteq Code
  BY CatalogAssumption DEF Init
<1>2. Down \in NodeState /\ [Down EXCEPT !.pc = "evaluate"] \in NodeState
      /\ Down.pc = "down" /\ [Down EXCEPT !.pc = "evaluate"].pc = "evaluate"
      /\ Down.batch = NoRows /\ [Down EXCEPT !.pc = "evaluate"].batch = NoRows
  BY DEF Down, NoRows, NodeState
<1>3. /\ node \in [Node -> NodeState]
      /\ \A n \in Node : node[n].batch = NoRows /\ node[n].pc \in {"down", "evaluate"}
  BY <1>2 DEF Init
<1>4. row \in [User -> [Code -> {"none", "unannounced", "announced"}]]
  BY DEF Init
<1>5. Tables
  BY <1>1, <1>4 DEF Init, Tables
<1>6. \A n \in Node : Own(n)
  BY <1>3 DEF Own, At, NoRows
<1> QED BY <1>3, <1>5, <1>6 DEF Typed

(***************************************************************************)
(* The steps of a node, each up to what the tables keep.                   *)
(***************************************************************************)
LEMMA BootTyped ==
  ASSUME Typed, NEW n \in Node, Boot(n)
  PROVE  Typed'
<1> USE DEF Typed
<1>1. CASE Start(n)
  <2>1. Moves(n)
    BY <1>1, GotoMoves DEF Start
  <2>2. Tables' /\ RowsStay
    BY <1>1, NoStampTyped DEF Start, Tables
  <2> QED BY <2>1, <2>2, MoveTyped
<1>2. CASE BootEvaluate(n)
  <2>1. Moves(n)
    BY <1>2, GotoMoves DEF BootEvaluate
  <2>2. Tables' /\ RowsStay
    BY <1>2, EvaluateTyped DEF BootEvaluate
  <2> QED BY <2>1, <2>2, MoveTyped
<1>3. CASE ReadCodes(n)
  <2>1. Tables' /\ RowsStay
    BY <1>3, NoStampTyped DEF ReadCodes, Tables
  <2>2. Catalog[n] \ recorded \subseteq Code
    BY CatalogAssumption
  <2>3. Moves(n)
    BY <1>3, <2>1, <2>2 DEF ReadCodes, Moves, Own, At, NodeState, RowsStay
  <2> QED BY <2>1, <2>3, MoveTyped
<1>4. CASE \E c \in Code : StampGrants(n, c)
  <2> PICK c \in Code : StampGrants(n, c)
    BY <1>4
  <2>1. row' \in [User -> [Code -> {"none", "unannounced", "announced"}]] /\ RowsStay
    BY AnnounceTyped DEF StampGrants, RowsStay
  <2>2. Tables'
    BY <2>1, StampTyped DEF StampGrants, Tables
  <2>3. /\ c \in node[n].codes
        /\ node' = [node EXCEPT ![n].pc = "record", ![n].at = c]
    BY DEF StampGrants
  <2>4. Moves(n)
    BY <2>1, <2>3 DEF Moves, Own, At, NodeState, RowsStay
  <2> QED BY <2>1, <2>2, <2>4, MoveTyped
<1>5. CASE RecordCode(n)
  <2>1. node[n].at \in Code
    BY <1>5 DEF RecordCode, Own, NodeState
  <2>2. Tables' /\ RowsStay
    BY <1>5, <2>1, NoStampTyped DEF RecordCode, Tables
  <2>3. Moves(n)
    BY <1>5, <2>2 DEF RecordCode, Moves, Own, At, NodeState, RowsStay
  <2> QED BY <2>2, <2>3, MoveTyped
<1>6. CASE InitEnds(n)
  <2>1. Moves(n)
    BY <1>6, GotoMoves DEF InitEnds
  <2>2. Tables' /\ RowsStay
    BY <1>6, NoStampTyped DEF InitEnds, Tables
  <2> QED BY <2>1, <2>2, MoveTyped
<1> QED BY <1>1, <1>2, <1>3, <1>4, <1>5, <1>6 DEF Boot

LEMMA TakeNextMoves ==
  ASSUME Typed, NEW n \in Node, At(n, "mark"), TakeNext(n), RowsStay
  PROVE  Moves(n)
BY DEF Typed, TakeNext, Moves, Own, At, NodeState, RowsStay

LEMMA LoopTyped ==
  ASSUME Typed, NEW n \in Node, Loop(n)
  PROVE  Typed'
<1> USE DEF Typed
<1>1. CASE LoopEvaluate(n)
  <2>1. Moves(n)
    BY <1>1, GotoMoves DEF LoopEvaluate
  <2>2. Tables' /\ RowsStay
    BY <1>1, EvaluateTyped DEF LoopEvaluate
  <2> QED BY <2>1, <2>2, MoveTyped
<1>2. CASE ReadRows(n)
  <2>1. Tables' /\ RowsStay
    BY <1>2, NoStampTyped DEF ReadRows, Tables
  <2>2. Moves(n)
    BY <1>2, <2>1 DEF ReadRows, Moves, Own, At, NodeState, RowsStay
  <2> QED BY <2>1, <2>2, MoveTyped
<1>3. CASE PassEnds(n)
  <2>1. Moves(n)
    BY <1>3, GotoMoves DEF PassEnds
  <2>2. Tables' /\ RowsStay
    BY <1>3, NoStampTyped DEF PassEnds, Tables
  <2> QED BY <2>1, <2>2, MoveTyped
<1>4. CASE \E u \in User : Send(n, u)
  <2> PICK u \in User : Send(n, u)
    BY <1>4
  <2>1. RowsStay
    BY DEF Send, RowsStay
  <2>2. Known(n, u) \subseteq Code /\ \A c \in Known(n, u) : row[u][c] # "none"
    BY CatalogAssumption DEF Known, Own, NodeState
  <2>3. Tables'
    BY <2>2 DEF Send, Tables, Pairs
  <2>4. Moves(n)
    BY <2>1 DEF Send, Moves, Own, At, Known, NodeState, RowsStay
  <2> QED BY <2>1, <2>3, <2>4, MoveTyped
<1>5. CASE Mark(n)
  <2>1. node[n].at \in User
    BY <1>5 DEF Mark, Own
  <2>2. row' \in [User -> [Code -> {"none", "unannounced", "announced"}]] /\ RowsStay
    BY <1>5, <2>1, AnnounceTyped DEF Mark, RowsStay
  <2>3. Tables'
    BY <1>5, <2>2, StampTyped DEF Mark, Tables
  <2>4. Moves(n)
    BY <1>5, <2>2, TakeNextMoves DEF Mark
  <2> QED BY <2>2, <2>3, <2>4, MoveTyped
<1> QED BY <1>1, <1>2, <1>3, <1>4, <1>5 DEF Loop

LEMMA FaultTyped ==
  ASSUME Typed, NEW n \in Node, Fault(n)
  PROVE  Typed'
<1> USE DEF Typed
<1>0. ASSUME \E what \in {"faults", "inits"} : Spend(what), UNCHANGED <<meets, row, recorded, mailed, unlocked>>
      PROVE  Tables' /\ RowsStay
  BY <1>0, NoStampTyped, SpendTyped DEF Tables
<1>1. CASE InitFails(n)
  BY <1>1, <1>0, GotoMoves, MoveTyped DEF InitFails
<1>2. CASE \E u \in User : SendFails(n, u)
  <2> PICK u \in User : SendFails(n, u)
    BY <1>2
  <2>1. Tables' /\ RowsStay
    BY <1>0 DEF SendFails
  <2>2. Moves(n)
    BY <2>1 DEF SendFails, Moves, Own, At, NodeState, RowsStay
  <2> QED BY <2>1, <2>2, MoveTyped
<1>3. CASE MarkFails(n)
  BY <1>3, <1>0, TakeNextMoves, MoveTyped DEF MarkFails
<1>4. CASE JobFails(n)
  BY <1>4, <1>0, GotoMoves, MoveTyped DEF JobFails
<1>5. CASE Crash(n)
  BY <1>5, <1>0, GotoMoves, MoveTyped DEF Crash
<1> QED BY <1>1, <1>2, <1>3, <1>4, <1>5 DEF Fault

LEMMA ChangeTyped ==
  ASSUME Typed, NEW p \in Pairs, Change(p)
  PROVE  Typed'
<1>1. Tables' /\ RowsStay
  BY NoStampTyped, SpendTyped DEF Change, Typed, Tables
<1>2. UNCHANGED <<node, row>>
  BY DEF Change
<1> QED BY <1>1, <1>2 DEF Typed, Own, At, Known

LEMMA NextTyped == Typed /\ [Next]_vars => Typed'
<1> SUFFICES ASSUME Typed, [Next]_vars PROVE Typed'
  OBVIOUS
<1>1. CASE UNCHANGED vars
  BY <1>1 DEF vars, Typed, Tables, Own, At, Known
<1>2. CASE Next
  BY <1>2, ChangeTyped, BootTyped, LoopTyped, FaultTyped DEF Next
<1> QED BY <1>1, <1>2

(***************************************************************************)
(* TypeOK, and with it: a badge that was granted or announced keeps its    *)
(* row, whatever results are corrected and nodes crash.                    *)
(***************************************************************************)
THEOREM TypeCorrect == Spec => []TypeOK
<1>1. Spec => []Typed
  BY InitTyped, NextTyped, PTL DEF Spec
<1> QED BY <1>1, TypedIsTypeOK, PTL

-----------------------------------------------------------------------------
(***************************************************************************)
(* No unlock is dropped, when each new badge comes with one node: two that *)
(* initialise the same badge may drop one (run badge_mail_twins).          *)
(***************************************************************************)
OneInitialiser ==
  \A m, n \in Node : \A c \in Catalog[m] \intersect Catalog[n] :
    m # n => \E k \in Running : c \in Catalog[k]

\* The codes a node is about to stamp are new, and it stamps what it has mailed.
Careful(n) ==
  /\ node[n].codes \subseteq Catalog[n]
  /\ \A c \in node[n].codes : c \notin recorded
  /\ At(n, "mark") => \A c \in Known(n, node[n].at) : <<node[n].at, c>> \in mailed

Stamped ==
  /\ \A k \in Running : Catalog[k] \subseteq recorded
  /\ \A u \in User, c \in Code : <<u, c>> \in unlocked => c \in recorded
  /\ \A n \in Node : Careful(n)
  /\ \A u \in User, c \in Code :
       <<u, c>> \in unlocked /\ row[u][c] = "announced" => <<u, c>> \in mailed

LEMMA StampedIsStampedWasMailed ==
  ASSUME Typed, Stamped PROVE StampedWasMailed
<1> SUFFICES ASSUME NEW p \in unlocked, row[p[1]][p[2]] = "announced" PROVE p \in mailed
  BY DEF StampedWasMailed
<1>1. p[1] \in User /\ p[2] \in Code /\ p = <<p[1], p[2]>>
  BY DEF Typed, Tables, Pairs
<1> QED BY <1>1 DEF Stamped

LEMMA NewCodeIsOwn ==
  ASSUME OneInitialiser, Stamped, NEW m \in Node, NEW n \in Node, m # n,
         NEW c \in node[n].codes
  PROVE  c \notin Catalog[m]
BY CatalogAssumption DEF OneInitialiser, Stamped, Careful

LEMMA InitStamped == Init => Stamped
<1> SUFFICES ASSUME Init PROVE Stamped
  OBVIOUS
<1>1. \A n \in Node : node[n].codes = {} /\ node[n].pc # "mark"
  BY DEF Init, Down
<1> QED BY <1>1 DEF Init, Stamped, Careful, At

(***************************************************************************)
(* A node that goes on empty-handed, the tables as they were.              *)
(***************************************************************************)
LEMMA GotoStamped ==
  ASSUME Typed, Stamped, NEW n \in Node,
         NEW pc \in {"down", "boot", "codes", "stamp", "evaluate", "rows", "mail"},
         Goto(n, pc), UNCHANGED <<row, recorded, mailed, unlocked>>
  PROVE  Stamped'
<1>1. Moves(n) /\ node'[n].pc = pc /\ node'[n].codes = {}
  BY GotoMoves
<1>2. \A m \in Node : Careful(m)'
  BY <1>1 DEF Stamped, Careful, At, Known, Moves, Typed
<1> QED BY <1>2 DEF Stamped

LEMMA EvaluateStamped ==
  ASSUME Typed, Stamped, NEW n \in Node,
         NEW pc \in {"codes", "rows"}, EvaluateAll(n), Goto(n, pc)
  PROVE  Stamped'
<1> DEFINE granted == {p \in meets : p[2] \in Catalog[n] /\ row[p[1]][p[2]] = "none"}
<1>1. /\ row' = [u \in User |-> [c \in Code |->
                  IF <<u, c>> \in granted THEN "unannounced" ELSE row[u][c]]]
      /\ unlocked' = unlocked \union {p \in granted : p[2] \in recorded}
      /\ UNCHANGED <<recorded, mailed>>
  BY DEF EvaluateAll
<1> HIDE DEF granted
<1>2. Moves(n) /\ node'[n].pc = pc /\ node'[n].codes = {}
  BY GotoMoves
<1>3. \A m \in Node : Careful(m)'
  BY <1>1, <1>2 DEF Stamped, Careful, At, Known, Moves, Typed
<1>4. \A u \in User, c \in Code : <<u, c>> \in unlocked' => c \in recorded'
  BY <1>1 DEF Stamped
<1>5. ASSUME NEW u \in User, NEW c \in Code, <<u, c>> \in unlocked', row'[u][c] = "announced"
      PROVE  <<u, c>> \in mailed'
  BY <1>1, <1>5 DEF Stamped, Typed, Tables
<1> QED BY <1>1, <1>3, <1>4, <1>5 DEF Stamped

LEMMA BootStamped ==
  ASSUME Typed, Stamped, OneInitialiser, NEW n \in Node, Boot(n)
  PROVE  Stamped'
<1>1. CASE Start(n)
  BY <1>1, GotoStamped DEF Start
<1>2. CASE BootEvaluate(n)
  BY <1>2, EvaluateStamped DEF BootEvaluate
<1>3. CASE ReadCodes(n)
  BY <1>3 DEF ReadCodes, Stamped, Careful, At, Known, Typed
<1>4. CASE \E c \in Code : StampGrants(n, c)
  <2> PICK c \in Code : StampGrants(n, c)
    BY <1>4
  <2>1. /\ c \in node[n].codes /\ UNCHANGED <<recorded, mailed, unlocked>>
        /\ node' = [node EXCEPT ![n].pc = "record", ![n].at = c]
        /\ row' = [u \in User |-> Announce(u, {c})[u]]
    BY DEF StampGrants
  <2>2. \A m \in Node : Careful(m)'
    BY <2>1 DEF Stamped, Careful, At, Known, Typed, NodeState
  <2>3. \A u \in User, d \in Code : d # c => row'[u][d] = row[u][d]
    BY <2>1, AnnounceTyped
  <2>4. c \notin recorded
    BY <2>1 DEF Stamped, Careful
  <2> QED BY <2>1, <2>2, <2>3, <2>4 DEF Stamped
<1>5. CASE RecordCode(n)
  <2> DEFINE c == node[n].at
  <2>1. c \in node[n].codes
    BY <1>5 DEF RecordCode, Typed, Own
  <2>2. \A m \in Node \ {n} : node[m].codes \subseteq Code \ {c}
    BY <2>1, NewCodeIsOwn DEF Stamped, Careful, Typed, NodeState
  <2>3. \A m \in Node : Careful(m)'
    BY <1>5, <2>1, <2>2 DEF RecordCode, Stamped, Careful, At, Known, Typed, NodeState
  <2> QED BY <1>5, <2>3 DEF RecordCode, Stamped
<1>6. CASE InitEnds(n)
  BY <1>6, GotoStamped DEF InitEnds
<1> QED BY <1>1, <1>2, <1>3, <1>4, <1>5, <1>6 DEF Boot

\* A node that goes on to the next player has no e-mail of its own to stamp.
LEMMA TakeNextCareful ==
  ASSUME Typed, Stamped, NEW n \in Node, TakeNext(n), UNCHANGED <<recorded, mailed>>
  PROVE  \A m \in Node : Careful(m)'
BY DEF TakeNext, Stamped, Careful, At, Known, Typed, NodeState

LEMMA LoopStamped ==
  ASSUME Typed, Stamped, NEW n \in Node, Loop(n)
  PROVE  Stamped'
<1>1. CASE LoopEvaluate(n)
  BY <1>1, EvaluateStamped DEF LoopEvaluate
<1>2. CASE ReadRows(n)
  <2>1. \A m \in Node : Careful(m)'
    BY <1>2 DEF ReadRows, Stamped, Careful, At, Known, Typed, NodeState
  <2> QED BY <1>2, <2>1 DEF ReadRows, Stamped
<1>3. CASE PassEnds(n)
  BY <1>3, GotoStamped DEF PassEnds
<1>4. CASE \E u \in User : Send(n, u)
  <2> PICK u \in User : Send(n, u)
    BY <1>4
  <2>1. \A m \in Node : Careful(m)'
    BY DEF Send, Stamped, Careful, At, Known, Typed, NodeState
  <2> QED BY <2>1 DEF Send, Stamped
<1>5. CASE Mark(n)
  <2> DEFINE u == node[n].at
  <2>1. u \in User /\ \A c \in Known(n, u) : <<u, c>> \in mailed
    BY <1>5 DEF Mark, Stamped, Careful, Typed, Own
  <2>2. \A m \in Node : Careful(m)'
    BY <1>5, TakeNextCareful DEF Mark
  <2>3. \A v \in User, c \in Code :
          row'[v][c] = IF v = u /\ c \in Known(n, u) /\ row[v][c] = "unannounced"
                       THEN "announced" ELSE row[v][c]
    BY <1>5, <2>1, AnnounceTyped DEF Mark
  <2> QED BY <1>5, <2>1, <2>2, <2>3 DEF Mark, Stamped
<1> QED BY <1>1, <1>2, <1>3, <1>4, <1>5 DEF Loop

LEMMA FaultStamped ==
  ASSUME Typed, Stamped, NEW n \in Node, Fault(n)
  PROVE  Stamped'
<1>1. CASE InitFails(n)
  BY <1>1, GotoStamped DEF InitFails
<1>2. CASE \E u \in User : SendFails(n, u)
  <2> PICK u \in User : SendFails(n, u)
    BY <1>2
  <2>1. \A m \in Node : Careful(m)'
    BY DEF SendFails, Stamped, Careful, At, Known, Typed, NodeState
  <2> QED BY <2>1 DEF SendFails, Stamped
<1>3. CASE MarkFails(n)
  <2>1. \A m \in Node : Careful(m)'
    BY <1>3, TakeNextCareful DEF MarkFails
  <2> QED BY <1>3, <2>1 DEF MarkFails, Stamped
<1>4. CASE JobFails(n)
  BY <1>4, GotoStamped DEF JobFails
<1>5. CASE Crash(n)
  BY <1>5, GotoStamped DEF Crash
<1> QED BY <1>1, <1>2, <1>3, <1>4, <1>5 DEF Fault

LEMMA NextStamped ==
  ASSUME OneInitialiser PROVE Typed /\ Stamped /\ [Next]_vars => Stamped'
<1> SUFFICES ASSUME Typed, Stamped, [Next]_vars PROVE Stamped'
  OBVIOUS
<1>1. CASE UNCHANGED vars \/ \E p \in Pairs : Change(p)
  BY <1>1 DEF vars, Change, Stamped, Careful, At, Known
<1>2. CASE \E n \in Node : Boot(n) \/ Loop(n) \/ Fault(n)
  BY <1>2, BootStamped, LoopStamped, FaultStamped
<1> QED BY <1>1, <1>2 DEF Next

(***************************************************************************)
(* A row is stamped only once an e-mail has gone out, when each new badge  *)
(* comes with one node.                                                    *)
(***************************************************************************)
THEOREM NoUnlockIsDropped ==
  ASSUME OneInitialiser PROVE Spec => []StampedWasMailed
<1>1. Init => Typed /\ Stamped
  BY InitTyped, InitStamped
<1>2. Typed /\ Stamped /\ [Next]_vars => Typed' /\ Stamped'
  BY NextTyped, NextStamped
<1>3. Typed /\ Stamped => StampedWasMailed
  BY StampedIsStampedWasMailed
<1> QED BY <1>1, <1>2, <1>3, PTL DEF Spec

-----------------------------------------------------------------------------
(***************************************************************************)
(* No history is announced, as long as no initialisation has failed.       *)
(***************************************************************************)
InLoop(n) == node[n].pc \in {"evaluate", "rows", "mail", "mark"}

\* The loop runs with every code recorded; what it will mail was unlocked.
Ready(n) ==
  /\ InLoop(n) => Catalog[n] \subseteq recorded
  /\ node[n].pc \in {"stamp", "record"} => Catalog[n] \subseteq recorded \union node[n].codes
  /\ At(n, "record") => \A u \in User : row[u][node[n].at] # "unannounced"
  /\ \A u \in User : \A c \in Known(n, u) : <<u, c>> \in unlocked

Historyless ==
  /\ \A u \in User, c \in Code :
       c \in recorded /\ row[u][c] = "unannounced" => <<u, c>> \in unlocked
  /\ \A n \in Node : Ready(n)
  /\ mailed \subseteq unlocked

Safe == spent.inits = 0 => Historyless

LEMMA InitHistoryless == Init => Historyless
<1> SUFFICES ASSUME Init PROVE Historyless
  OBVIOUS
<1>1. \A n \in Node : /\ node[n].pc = IF n \in Running THEN "evaluate" ELSE "down"
                     /\ \A u \in User : node[n].batch[u] = {}
  BY DEF Init, Down, NoRows
<1>2. \A n \in Node : Ready(n)
  BY <1>1 DEF Init, Ready, InLoop, At, Known
<1> QED BY <1>2 DEF Init, Historyless

LEMMA GotoReady ==
  ASSUME Typed, Historyless, NEW n \in Node,
         NEW pc \in {"down", "boot", "codes", "evaluate", "rows"}, Goto(n, pc),
         pc \in {"evaluate", "rows"} => Catalog[n] \subseteq recorded,
         UNCHANGED <<row, recorded, mailed, unlocked>>
  PROVE  Historyless'
<1>1. Moves(n) /\ node'[n].pc = pc /\ node'[n].batch = NoRows
  BY GotoMoves
<1>2. \A m \in Node : Ready(m)'
  BY <1>1 DEF Historyless, Ready, InLoop, At, Known, Moves, Typed, NoRows
<1> QED BY <1>2 DEF Historyless

LEMMA EvaluateReady ==
  ASSUME Typed, Stamped, Historyless, OneInitialiser, NEW n \in Node,
         NEW pc \in {"codes", "rows"}, EvaluateAll(n), Goto(n, pc), ~ At(n, "record"),
         pc = "rows" => Catalog[n] \subseteq recorded
  PROVE  Historyless'
<1> DEFINE granted == {p \in meets : p[2] \in Catalog[n] /\ row[p[1]][p[2]] = "none"}
<1>1. /\ row' = [u \in User |-> [c \in Code |->
                  IF <<u, c>> \in granted THEN "unannounced" ELSE row[u][c]]]
      /\ unlocked' = unlocked \union {p \in granted : p[2] \in recorded}
      /\ UNCHANGED <<recorded, mailed>>
  BY DEF EvaluateAll
<1>2. \A u \in User, c \in Code : <<u, c>> \in granted => c \in Catalog[n]
  OBVIOUS
<1> HIDE DEF granted
<1>3. Moves(n) /\ node'[n].pc = pc /\ node'[n].codes = {} /\ node'[n].batch = NoRows
  BY GotoMoves
<1>4. Ready(n)'
  BY <1>1, <1>3 DEF Ready, InLoop, At, Known, NoRows
<1>5. ASSUME NEW m \in Node, m # n PROVE Ready(m)'
  <2>1. node'[m] = node[m] /\ Ready(m) /\ Own(m)
    BY <1>3, <1>5 DEF Moves, Historyless, Typed
  <2>2. ASSUME At(m, "record"), NEW u \in User PROVE row'[u][node[m].at] # "unannounced"
    <3>1. node[m].at \in node[m].codes /\ node[m].at \in Code
      BY <2>1, <2>2 DEF Own, NodeState
    <3>2. node[m].at \notin Catalog[n]
      BY <1>5, <3>1, NewCodeIsOwn
    <3> QED BY <1>1, <1>2, <2>1, <2>2, <3>1, <3>2 DEF Ready
  <2> QED BY <1>1, <2>1, <2>2 DEF Ready, InLoop, At, Known
<1>6. \A u \in User, c \in Code :
        c \in recorded' /\ row'[u][c] = "unannounced" => <<u, c>> \in unlocked'
  BY <1>1 DEF Historyless, Typed, Tables
<1> QED BY <1>1, <1>4, <1>5, <1>6 DEF Historyless

LEMMA BootReady ==
  ASSUME Typed, Stamped, Historyless, OneInitialiser, NEW n \in Node, Boot(n)
  PROVE  Historyless'
<1>1. CASE Start(n)
  BY <1>1, GotoReady DEF Start
<1>2. CASE BootEvaluate(n)
  BY <1>2, EvaluateReady DEF BootEvaluate, At
<1>3. CASE ReadCodes(n)
  <2>1. \A m \in Node : Ready(m)'
    BY <1>3 DEF ReadCodes, Historyless, Ready, InLoop, At, Known, Typed, NodeState
  <2> QED BY <1>3, <2>1 DEF ReadCodes, Historyless
<1>4. CASE \E c \in Code : StampGrants(n, c)
  <2> PICK c \in Code : StampGrants(n, c)
    BY <1>4
  <2>1. /\ At(n, "stamp") /\ UNCHANGED <<recorded, mailed, unlocked>>
        /\ node' = [node EXCEPT ![n].pc = "record", ![n].at = c]
        /\ row' = [u \in User |-> Announce(u, {c})[u]]
    BY DEF StampGrants
  <2>2. \A u \in User, d \in Code :
          row'[u][d] = IF d = c /\ row[u][d] = "unannounced" THEN "announced" ELSE row[u][d]
    BY <2>1, AnnounceTyped
  <2>3. \A m \in Node : Own(m)
    BY DEF Typed
  <2>4. \A m \in Node : At(m, "record") => node[m].at \in Code
    BY <2>3 DEF Own, NodeState
  <2>5. ASSUME NEW m \in Node, m # n PROVE Ready(m)'
    BY <2>1, <2>2, <2>4, <2>5 DEF Historyless, Ready, InLoop, At, Known, Typed
  <2>6. Ready(n)'
    <3>1. /\ node'[n].pc = "record" /\ node'[n].at = c
          /\ node'[n].codes = node[n].codes /\ node'[n].batch = node[n].batch
      BY <2>1 DEF Typed, NodeState
    <3>2. \A u \in User : row'[u][c] # "unannounced"
      BY <2>2
    <3>3. Ready(n)
      BY DEF Historyless
    <3> QED BY <2>1, <3>1, <3>2, <3>3 DEF Ready, InLoop, At, Known
  <2> QED BY <2>1, <2>2, <2>5, <2>6 DEF Historyless
<1>5. CASE RecordCode(n)
  <2>1. node[n].at \in node[n].codes /\ \A u \in User : row[u][node[n].at] # "unannounced"
    BY <1>5 DEF RecordCode, Typed, Own, Historyless, Ready
  <2>2. \A m \in Node : Ready(m)'
    BY <1>5, <2>1 DEF RecordCode, Historyless, Ready, InLoop, At, Known, Typed, NodeState
  <2> QED BY <1>5, <2>1, <2>2 DEF RecordCode, Historyless
<1>6. CASE InitEnds(n)
  BY <1>6, GotoReady DEF InitEnds, Historyless, Ready, At
<1> QED BY <1>1, <1>2, <1>3, <1>4, <1>5, <1>6 DEF Boot

LEMMA TakeNextReady ==
  ASSUME Typed, Historyless, NEW n \in Node, At(n, "mark"), TakeNext(n),
         UNCHANGED <<recorded, unlocked>>,
         \A u \in User, c \in Code : row'[u][c] = "unannounced" => row[u][c] = "unannounced"
  PROVE  \A m \in Node : Ready(m)'
<1>1. \A m \in Node : Own(m)
  BY DEF Typed
<1>2. \A m \in Node : At(m, "record") => node[m].at \in Code
  BY <1>1 DEF Own, NodeState
<1> QED BY <1>1, <1>2 DEF TakeNext, Historyless, Ready, InLoop, At, Known, Typed, NodeState, Own

LEMMA LoopReady ==
  ASSUME Typed, Stamped, Historyless, OneInitialiser, NEW n \in Node, Loop(n)
  PROVE  Historyless'
<1>0. InLoop(n) => Catalog[n] \subseteq recorded
  BY DEF Historyless, Ready
<1>1. CASE LoopEvaluate(n)
  BY <1>0, <1>1, EvaluateReady DEF LoopEvaluate, At, InLoop
<1>2. CASE ReadRows(n)
  <2>1. Ready(n)'
    <3> DEFINE fresh == [u \in User |-> {c \in Code : row[u][c] = "unannounced"}]
    <3>1. /\ node' = [node EXCEPT ![n].pc = "mail", ![n].batch = fresh]
          /\ UNCHANGED <<row, recorded, unlocked>>
      BY <1>2 DEF ReadRows
    <3>2. \A u \in User : \A c \in fresh[u] \intersect Catalog[n] : <<u, c>> \in unlocked
      BY <1>0, <1>2 DEF ReadRows, Historyless, At, InLoop
    <3> HIDE DEF fresh
    <3>3. node'[n].pc = "mail" /\ node'[n].batch = fresh
      BY <3>1 DEF Typed, NodeState
    <3> QED BY <1>0, <1>2, <3>1, <3>2, <3>3 DEF ReadRows, Ready, InLoop, At, Known
  <2>2. \A m \in Node : m # n => Ready(m)'
    BY <1>2 DEF ReadRows, Historyless, Ready, InLoop, At, Known, Typed
  <2> QED BY <1>2, <2>1, <2>2 DEF ReadRows, Historyless
<1>3. CASE PassEnds(n)
  BY <1>0, <1>3, GotoReady DEF PassEnds, At, InLoop
<1>4. CASE \E u \in User : Send(n, u)
  <2> PICK u \in User : Send(n, u)
    BY <1>4
  <2>1. \A m \in Node : Ready(m)'
    BY <1>0 DEF Send, Historyless, Ready, InLoop, At, Known, Typed, NodeState
  <2>2. ({u} \X Known(n, u)) \subseteq unlocked
    BY DEF Historyless, Ready
  <2> QED BY <2>1, <2>2 DEF Send, Historyless
<1>5. CASE Mark(n)
  <2>1. node[n].at \in User
    BY <1>5 DEF Mark, Typed, Own
  <2>2. \A u \in User, c \in Code : row'[u][c] = "unannounced" => row[u][c] = "unannounced"
    BY <1>5, <2>1, AnnounceTyped DEF Mark
  <2>3. \A m \in Node : Ready(m)'
    BY <1>5, <2>2, TakeNextReady DEF Mark
  <2> QED BY <1>5, <2>2, <2>3 DEF Mark, Historyless
<1> QED BY <1>1, <1>2, <1>3, <1>4, <1>5 DEF Loop

LEMMA FaultReady ==
  ASSUME Typed, Historyless, NEW n \in Node, Fault(n), ~ InitFails(n)
  PROVE  Historyless'
<1>0. InLoop(n) => Catalog[n] \subseteq recorded
  BY DEF Historyless, Ready
<1>2. CASE \E u \in User : SendFails(n, u)
  <2> PICK u \in User : SendFails(n, u)
    BY <1>2
  <2>1. \A m \in Node : Ready(m)'
    BY DEF SendFails, Historyless, Ready, InLoop, At, Known, Typed, NodeState
  <2> QED BY <2>1 DEF SendFails, Historyless
<1>3. CASE MarkFails(n)
  <2>1. \A m \in Node : Ready(m)'
    BY <1>3, TakeNextReady DEF MarkFails
  <2> QED BY <1>3, <2>1 DEF MarkFails, Historyless
<1>4. CASE JobFails(n)
  BY <1>0, <1>4, GotoReady DEF JobFails, At, InLoop
<1>5. CASE Crash(n)
  BY <1>5, GotoReady DEF Crash
<1> QED BY <1>2, <1>3, <1>4, <1>5 DEF Fault

LEMMA NextSafe ==
  ASSUME OneInitialiser PROVE Typed /\ Stamped /\ Safe /\ [Next]_vars => Safe'
<1> SUFFICES ASSUME Typed, Stamped, Safe, [Next]_vars, spent'.inits = 0 PROVE Historyless'
  BY DEF Safe
<1>1. Historyless
  <2>1. spent.inits \in Nat /\ spent \in [changes : Nat, faults : Nat, inits : Nat]
    BY DEF Typed, Tables
  <2>2. spent' = spent \/ \E what \in {"changes", "faults", "inits"} : Spend(what)
    BY DEF Next, vars, Boot, Loop, Fault, Change, Start, BootEvaluate, ReadCodes, StampGrants,
           RecordCode, InitEnds, InitFails, LoopEvaluate, ReadRows, PassEnds, Send, Mark,
           SendFails, MarkFails, JobFails, Crash, EvaluateAll
  <2>3. spent'.inits >= spent.inits
    BY <2>1, <2>2 DEF Spend
  <2> QED BY <2>1, <2>3 DEF Safe
<1>2. CASE UNCHANGED vars \/ \E p \in Pairs : Change(p)
  BY <1>1, <1>2 DEF vars, Change, Historyless, Ready, InLoop, At, Known
<1>3. ASSUME NEW n \in Node, Boot(n) \/ Loop(n) \/ Fault(n) PROVE Historyless'
  <2>1. ~ InitFails(n)
    BY DEF InitFails, Spend, Typed, Tables
  <2> QED BY <1>1, <1>3, <2>1, BootReady, LoopReady, FaultReady
<1> QED BY <1>2, <1>3 DEF Next

(***************************************************************************)
(* Whatever nodes crash, e-mails are refused and statements of the loop    *)
(* fail: as long as no initialisation has failed, only unlocks are         *)
(* announced, when each new badge comes with one node.                     *)
(***************************************************************************)
THEOREM NoHistoryIsAnnounced ==
  ASSUME OneInitialiser PROVE Spec => []NoBlastOnceInitialised
<1>1. Init => Typed /\ Stamped /\ Safe
  BY InitTyped, InitStamped, InitHistoryless DEF Safe
<1>2. Typed /\ Stamped /\ Safe /\ [Next]_vars => Typed' /\ Stamped' /\ Safe'
  BY NextTyped, NextStamped, NextSafe
<1>3. Safe => NoBlastOnceInitialised
  BY DEF Safe, Historyless, NoBlastOnceInitialised, NoBlast
<1> QED BY <1>1, <1>2, <1>3, PTL DEF Spec

-----------------------------------------------------------------------------
(***************************************************************************)
(* Every unlock is announced in the end: by a node whose release knows the *)
(* badge, whose passes go on ending, and whose e-mails to the player are   *)
(* refused no more from some time on.  Crashes, failed statements and the  *)
(* other nodes may go on.                                                  *)
(***************************************************************************)
Waits(n) == node[n].pc \notin {"mail", "mark"}

\* The e-mail that announces the badge is among those the node is sending.
Holds(n, p) == node[n].pc \in {"mail", "mark"} /\ p[2] \in Known(n, p[1])

Announced(p) == p \in mailed

Owed(p) == p \in unlocked

LEMMA OthersStand ==
  ASSUME Typed, NEW n \in Node, NEW m \in Node, m # n, Boot(m) \/ Loop(m) \/ Fault(m)
  PROVE  node'[n] = node[n]
BY DEF Typed, Boot, Loop, Fault, Start, BootEvaluate, ReadCodes, StampGrants, RecordCode, InitEnds,
       LoopEvaluate, ReadRows, Send, Mark, PassEnds, InitFails, SendFails, MarkFails, JobFails, Crash,
       Goto, TakeNext

LEMMA HeldIsMailed ==
  ASSUME Typed, Stamped, NEW n \in Node, NEW p \in Pairs, p[2] \in Catalog[n], Owed(p),
         Waits(n) \/ Holds(n, p), [Next]_vars, ~ SendFails(n, p[1])
  PROVE  Waits(n)' \/ Holds(n, p)' \/ Announced(p)'
<1> USE DEF Waits, Holds, Known, At
<1>1. CASE node'[n] = node[n]
  BY <1>1
<1>2. CASE Boot(n)
  <2>1. node[n].pc \in {"down", "boot", "codes", "stamp", "record"}
    BY <1>2 DEF Boot, Start, BootEvaluate, ReadCodes, StampGrants, RecordCode, InitEnds
  <2>2. node'[n].pc \in {"boot", "codes", "stamp", "record", "evaluate"}
    <3>1. CASE Start(n) \/ BootEvaluate(n) \/ InitEnds(n)
      BY <3>1 DEF Start, BootEvaluate, InitEnds, Goto, Typed, Down
    <3>2. CASE ReadCodes(n) \/ RecordCode(n) \/ \E c \in Code : StampGrants(n, c)
      <4>1. node[n] \in NodeState /\ DOMAIN node = Node
        BY DEF Typed
      <4>2. ASSUME ReadCodes(n) PROVE node'[n].pc = "stamp"
        BY <4>1, <4>2 DEF ReadCodes, NodeState
      <4>3. ASSUME RecordCode(n) PROVE node'[n].pc = "stamp"
        BY <4>1, <4>3 DEF RecordCode, NodeState
      <4>4. ASSUME NEW c \in Code, StampGrants(n, c) PROVE node'[n].pc = "record"
        BY <4>1, <4>4 DEF StampGrants, NodeState
      <4> QED BY <3>2, <4>2, <4>3, <4>4
    <3> QED BY <1>2, <3>1, <3>2 DEF Boot
  <2> QED BY <2>2
<1>3. CASE LoopEvaluate(n) \/ PassEnds(n)
  BY <1>3 DEF LoopEvaluate, PassEnds, Goto, Typed, Down
<1>4. CASE ReadRows(n)
  <2>1. CASE p \in mailed
    BY <1>4, <2>1 DEF ReadRows, Announced
  <2>2. CASE p \notin mailed
    <3>1. p[1] \in User /\ p[2] \in Code /\ p = <<p[1], p[2]>>
      BY DEF Pairs
    <3>2. row[p[1]][p[2]] = "unannounced"
      BY <2>2, <3>1 DEF Owed, Typed, Tables, Stamped
    <3>3. p[2] \in node'[n].batch[p[1]] /\ node'[n].pc = "mail"
      BY <1>4, <3>1, <3>2 DEF ReadRows, Typed, NodeState
    <3> QED BY <3>3
  <2> QED BY <2>1, <2>2
<1>5. ASSUME NEW u \in User, Send(n, u) PROVE Waits(n)' \/ Holds(n, p)'
  BY <1>5 DEF Send, Typed, NodeState
<1>6. CASE Mark(n) \/ MarkFails(n)
  <2>1. CASE node[n].at = p[1]
    <3>1. p = <<p[1], p[2]>> /\ p[2] \in Known(n, p[1])
      BY <1>6 DEF Pairs, Mark, MarkFails
    <3>2. p \in mailed
      BY <1>6, <2>1, <3>1 DEF Mark, MarkFails, Stamped, Careful
    <3> QED BY <1>6, <3>2 DEF Announced, Mark, MarkFails
  <2>2. CASE node[n].at # p[1]
    BY <1>6, <2>2 DEF Mark, MarkFails, TakeNext, Typed, NodeState, Pairs
  <2> QED BY <2>1, <2>2
<1>7. ASSUME NEW u \in User, SendFails(n, u) PROVE Waits(n)' \/ Holds(n, p)'
  <2>1. u # p[1]
    BY <1>7
  <2> QED BY <1>7, <2>1 DEF SendFails, Typed, NodeState, Pairs
<1>8. CASE InitFails(n) \/ JobFails(n) \/ Crash(n)
  BY <1>8 DEF InitFails, JobFails, Crash, Goto, Typed, Down
<1>9. CASE UNCHANGED vars \/ \E q \in Pairs : Change(q)
  BY <1>9 DEF vars, Change
<1>10. CASE \E m \in Node : Boot(m) \/ Loop(m) \/ Fault(m)
  <2> PICK m \in Node : Boot(m) \/ Loop(m) \/ Fault(m)
    BY <1>10
  <2>1. CASE m # n
    BY <1>1, <2>1, OthersStand
  <2>2. CASE m = n
    BY <1>2, <1>3, <1>4, <1>5, <1>6, <1>7, <1>8, <2>2 DEF Loop, Fault
  <2> QED BY <2>1, <2>2
<1> QED BY <1>9, <1>10 DEF Next

LEMMA BooksStay ==
  ASSUME NEW p \in Pairs, [Next]_vars
  PROVE  (Owed(p) => Owed(p)') /\ (Announced(p) => Announced(p)')
BY DEF Owed, Announced, Next, vars, Change, Boot, Loop, Fault, Start, BootEvaluate, ReadCodes, StampGrants,
       RecordCode, InitEnds, LoopEvaluate, ReadRows, Send, Mark, PassEnds, InitFails, SendFails, MarkFails,
       JobFails, Crash, EvaluateAll

\* A pass ends when nothing is left that the node could announce, and the node then waits.
LEMMA PassEndsEmpty ==
  ASSUME Typed, NEW n \in Node, NEW p \in Pairs, PassEnds(n)
  PROVE  ~ Waits(n) /\ ~ Holds(n, p) /\ Waits(n)'
BY DEF Typed, PassEnds, Waits, Holds, At, Goto, Down, Pairs

(***************************************************************************)
(* Node n serves the pair p of a player and a badge.                       *)
(***************************************************************************)
Served(n, p) ==
  /\ p[2] \in Catalog[n]
  /\ []<><<PassEnds(n)>>_vars
  /\ <>[][~ SendFails(n, p[1])]_vars

LEMMA ServedAreMailed ==
  ASSUME OneInitialiser, NEW n \in Node, NEW p \in Pairs
  PROVE  Spec /\ Served(n, p) => (p \in unlocked ~> p \in mailed)
<1> DEFINE Knows == p[2] \in Catalog[n]
           I == Typed /\ Stamped
           In == Waits(n) \/ Holds(n, p)
           NoRefusal == ~ SendFails(n, p[1])
<1>1. Init => I
  BY InitTyped, InitStamped
<1>2. I /\ [Next]_vars => I'
  BY NextTyped, NextStamped
<1>3. Knows /\ I /\ Owed(p) /\ In /\ [Next]_vars /\ [NoRefusal]_vars => In' \/ Announced(p)'
  <2>1. ASSUME UNCHANGED vars, In PROVE In'
    BY <2>1 DEF vars, Waits, Holds, Known
  <2> QED BY <2>1, HeldIsMailed
<1>4. I /\ In => ~ PassEnds(n)
  BY PassEndsEmpty
<1>5. I /\ PassEnds(n) => In'
  BY PassEndsEmpty
<1>6. [Next]_vars => (Owed(p) => Owed(p)') /\ (Announced(p) => Announced(p)')
  BY BooksStay
<1>7. (p \in unlocked <=> Owed(p)) /\ (p \in mailed <=> Announced(p))
  BY DEF Owed, Announced
<1>8. Served(n, p) <=> Knows /\ []<><<PassEnds(n)>>_vars /\ <>[][NoRefusal]_vars
  BY DEF Served
<1>9. Knows => []Knows
  OBVIOUS
<1> HIDE DEF Knows, I, In, NoRefusal
<1> QED BY <1>1, <1>2, <1>3, <1>4, <1>5, <1>6, <1>7, <1>8, <1>9, PTL DEF Spec

(***************************************************************************)
(* When each pair is served by a node, each unlock is mailed to its player *)
(* in the end (send_badge_unlocks of src/notifications.rs), whatever       *)
(* the other nodes do and whatever crashes or fails: the row stays         *)
(* unannounced until an e-mail that holds the badge has gone out.          *)
(***************************************************************************)
THEOREM UnlocksGetMailed ==
  ASSUME OneInitialiser
  PROVE  Spec /\ (\A p \in Pairs : \E n \in Node : Served(n, p)) => UnlocksAreMailed
<1> SUFFICES ASSUME NEW p \in Pairs
             PROVE  Spec /\ (\E n \in Node : Served(n, p)) => (p \in unlocked ~> p \in mailed)
  BY DEF UnlocksAreMailed
<1>1. ASSUME NEW n \in Node PROVE Spec /\ Served(n, p) => (p \in unlocked ~> p \in mailed)
  BY ServedAreMailed
<1> QED BY <1>1
=============================================================================
