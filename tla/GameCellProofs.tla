--------------------------- MODULE GameCellProofs ---------------------------
(***************************************************************************)
(* TLAPS proofs about GameCell, for every set of players, cells, batches   *)
(* and output data: boards never list a player twice, no move is counted   *)
(* twice, only signed moves count, seq is the number of moves, a board is  *)
(* the tally of its moves, and the cells implement GameLedger.             *)
(***************************************************************************)
EXTENDS GameCell, DataLemmas

-----------------------------------------------------------------------------
(***************************************************************************)
(* The rules crate.                                                        *)
(***************************************************************************)

\* The entries of a board have natural-number fields.
LEMMA EntryType ==
    ASSUME NEW s \in GameState, NEW i \in 1 .. Len(s.players)
    PROVE  /\ s.players[i] \in PlayerEntry
           /\ s.players[i].nonce \in Nat
           /\ s.players[i].score \in Nat
<1>1. s.players[i] \in PlayerEntry
  BY DEF GameState
<1>2. U64 \subseteq Nat
  BY RulesAssumption DEF U64
<1>3. QED
  BY <1>1, <1>2 DEF PlayerEntry

\* On a board without duplicates, find() returns the one entry of the player.
LEMMA PlayerIndexUnique ==
    ASSUME NEW s \in GameState, DistinctPlayers(s), NEW h, HasPlayer(s, h)
    PROVE  /\ PlayerIndex(s, h) \in 1 .. Len(s.players)
           /\ s.players[PlayerIndex(s, h)].hash = h
           /\ \A i \in 1 .. Len(s.players) :
                s.players[i].hash = h => i = PlayerIndex(s, h)
<1>1. DOMAIN s.players = 1 .. Len(s.players)
  BY DEF GameState
<1>2. PICK k \in DOMAIN s.players : s.players[k].hash = h
  BY DEF HasPlayer
<1>3. \A j \in DOMAIN s.players : s.players[j].hash = h => k <= j
  BY <1>1, <1>2 DEF DistinctPlayers
<1>4. /\ PlayerIndex(s, h) \in DOMAIN s.players
      /\ s.players[PlayerIndex(s, h)].hash = h
  BY <1>2, <1>3 DEF PlayerIndex
<1>5. QED
  BY <1>1, <1>4 DEF DistinctPlayers

\* A move that applies to a board of the right type leaves one.
LEMMA ApplyIntentType ==
    ASSUME NEW s \in GameState, DistinctPlayers(s), NEW m \in Intent, CanApply(s, m)
    PROVE  apply_intent(s, m) \in GameState
<1>1. CASE HasPlayer(s, m.hash)
  <2> DEFINE k == PlayerIndex(s, m.hash)
  <2>1. k \in 1 .. Len(s.players)
    BY <1>1, PlayerIndexUnique
  <2>2. s.players[k] \in PlayerEntry
    BY <2>1 DEF GameState
  <2>3. s.players[k].score + m.points \in U64
    BY <1>1, <2>2, RulesAssumption DEF CanApply, PlayerEntry, Intent, U64
  <2> DEFINE e == [s.players[k] EXCEPT !.score = s.players[k].score + m.points, !.nonce = m.nonce]
  <2>4. e \in PlayerEntry
    BY <2>2, <2>3 DEF PlayerEntry, Intent
  <2>5. [s.players EXCEPT ![k] = e] \in Seq(PlayerEntry)
    BY <2>1, <2>4 DEF GameState
  <2>6. apply_intent(s, m) = [s EXCEPT !.players = [s.players EXCEPT ![k] = e]]
    BY <1>1, <2>1 DEF apply_intent, GameState
  <2>7. QED
    BY <2>5, <2>6 DEF GameState
<1>2. CASE ~ HasPlayer(s, m.hash)
  <2>1. [hash |-> m.hash, score |-> m.points, nonce |-> 1] \in PlayerEntry
    BY RulesAssumption DEF PlayerEntry, Intent, U64
  <2>2. QED
    BY <1>2, <2>1 DEF apply_intent, GameState
<1>3. QED
  BY <1>1, <1>2

\* The entries of the board a move leaves: the mover's entry carries the
\* move's nonce, every other entry is as before.
LEMMA ApplyIntentEntries ==
    ASSUME NEW s \in GameState, DistinctPlayers(s), NEW m \in Intent, CanApply(s, m)
    PROVE  LET o == apply_intent(s, m)
           IN  /\ o.seq = s.seq
               /\ DistinctPlayers(o)
               /\ \E i \in DOMAIN o.players :
                    o.players[i].hash = m.hash /\ o.players[i].nonce = m.nonce
               /\ \A i \in DOMAIN s.players :
                    /\ i \in DOMAIN o.players
                    /\ o.players[i].hash = s.players[i].hash
                    /\ s.players[i].nonce <= o.players[i].nonce
                    /\ s.players[i].hash = m.hash => s.players[i].nonce < m.nonce
<1> DEFINE o == apply_intent(s, m)
<1>0. /\ s.players \in Seq(PlayerEntry)
      /\ DOMAIN s.players = 1 .. Len(s.players)
      /\ Len(s.players) \in Nat
  BY DEF GameState
<1>1. CASE HasPlayer(s, m.hash)
  <2> DEFINE k == PlayerIndex(s, m.hash)
             e == [s.players[k] EXCEPT !.score = s.players[k].score + m.points,
                                       !.nonce = m.nonce]
  <2>1. /\ k \in 1 .. Len(s.players)
        /\ s.players[k].hash = m.hash
        /\ \A i \in 1 .. Len(s.players) : s.players[i].hash = m.hash => i = k
    BY <1>1, PlayerIndexUnique
  <2>2. s.players[k] \in PlayerEntry
    BY <2>1, <1>0
  <2>3. o.players = [s.players EXCEPT ![k] = e] /\ o.seq = s.seq
    BY <1>1 DEF apply_intent, GameState
  <2>4. e.hash = m.hash /\ e.nonce = m.nonce
    BY <2>1, <2>2 DEF PlayerEntry
  <2>5. s.players[k].nonce \in Nat /\ m.nonce = s.players[k].nonce + 1
    BY <1>1, <2>2, RulesAssumption DEF CanApply, PlayerEntry, U64
  <2>6. DOMAIN o.players = 1 .. Len(s.players)
    BY <2>3, <1>0
  <2>7. \A i \in 1 .. Len(s.players) :
          o.players[i] = IF i = k THEN e ELSE s.players[i]
    BY <2>3, <1>0
  <2>8. \A i \in 1 .. Len(s.players) : s.players[i].nonce \in Nat
    BY EntryType
  <2>9. DistinctPlayers(o)
    BY <1>0, <2>1, <2>4, <2>6, <2>7 DEF DistinctPlayers
  <2>10. QED
    BY <1>0, <2>1, <2>3, <2>4, <2>5, <2>6, <2>7, <2>8, <2>9
<1>2. CASE ~ HasPlayer(s, m.hash)
  <2> DEFINE e == [hash |-> m.hash, score |-> m.points, nonce |-> 1]
             n == Len(s.players)
  <2>1. e \in PlayerEntry /\ m.nonce = 1
    BY <1>2, RulesAssumption DEF PlayerEntry, Intent, U64, CanApply
  <2>2. o.players = Append(s.players, e) /\ o.seq = s.seq
    BY <1>2 DEF apply_intent, GameState
  <2>3. /\ DOMAIN o.players = 1 .. n + 1
        /\ \A i \in 1 .. n : o.players[i] = s.players[i]
        /\ o.players[n + 1] = e
    BY <1>0, <2>1, <2>2
  <2>4. \A i \in 1 .. n : s.players[i].hash # m.hash
    BY <1>0, <1>2 DEF HasPlayer
  <2>5. \A i \in 1 .. n : s.players[i].nonce \in Nat
    BY EntryType
  <2>6. DistinctPlayers(o)
    <3> SUFFICES ASSUME NEW i \in 1 .. n + 1, NEW j \in 1 .. n + 1,
                        o.players[i].hash = o.players[j].hash
                 PROVE  i = j
      BY <2>3 DEF DistinctPlayers
    <3>0. n \in Nat /\ o.players[n + 1].hash = m.hash
      BY <1>0, <2>3
    <3>1. CASE i = n + 1 \/ j = n + 1
      <4> HIDE DEF o, n, e
      <4>1. \A l \in 1 .. n : o.players[l].hash # m.hash
        BY <2>3, <2>4
      <4>2. \A l \in 1 .. n + 1 : l \in 1 .. n \/ l = n + 1
        BY <3>0
      <4>3. \A l \in 1 .. n + 1 : o.players[l].hash = m.hash => l = n + 1
        BY <4>1, <4>2
      <4> QED
        BY <3>0, <3>1, <4>3
    <3>2. CASE i \in 1 .. n /\ j \in 1 .. n
      BY <1>0, <2>3, <3>2 DEF DistinctPlayers
    <3>3. QED
      BY <1>0, <3>1, <3>2
  <2>7. n + 1 \in DOMAIN o.players
    BY <1>0, <2>3
  <2>8. QED
    BY <1>0, <2>1, <2>2, <2>3, <2>4, <2>5, <2>6, <2>7
<1>3. QED
  BY <1>1, <1>2

\* equals_unordered compares in one direction only.  From a board without
\* duplicates that is enough: the output is a permutation of it.
LEMMA EqualsUnorderedPermutes ==
    ASSUME NEW s \in GameState, NEW o \in GameState,
           DistinctPlayers(s), equals_unordered(s, o)
    PROVE  /\ DistinctPlayers(o)
           /\ \A j \in DOMAIN o.players : \E i \in DOMAIN s.players :
                s.players[i] = o.players[j]
<1> DEFINE n == Len(s.players)
           f == [i \in 1 .. n |-> CHOOSE j \in 1 .. n : o.players[j] = s.players[i]]
<1>1. /\ n \in Nat
      /\ DOMAIN s.players = 1 .. n
      /\ DOMAIN o.players = 1 .. n
  BY DEF GameState, equals_unordered
<1>2. \A i \in 1 .. n : f[i] \in 1 .. n /\ o.players[f[i]] = s.players[i]
  BY <1>1 DEF equals_unordered
<1>3. f \in [1 .. n -> 1 .. n]
  BY <1>2
<1> HIDE DEF f
<1>4. \A i, j \in 1 .. n : f[i] = f[j] => i = j
  <2> SUFFICES ASSUME NEW i \in 1 .. n, NEW j \in 1 .. n, f[i] = f[j]
               PROVE  i = j
    OBVIOUS
  <2>1. s.players[i] = s.players[j]
    BY <1>2
  <2>2. QED
    BY <1>1, <2>1 DEF DistinctPlayers
<1>5. f \in Injection(1 .. n, 1 .. n)
  BY <1>3, <1>4 DEF Injection, IsInjective
<1>6. IsFiniteSet(1 .. n)
  BY <1>1, FS_Interval
<1>7. f \in Surjection(1 .. n, 1 .. n)
  BY <1>5, <1>6, FS_Injection
<1>8. \A j \in 1 .. n : \E i \in 1 .. n : f[i] = j
  BY <1>7 DEF Surjection
<1>9. \A j \in 1 .. n : \E i \in 1 .. n : f[i] = j /\ o.players[j] = s.players[i]
  <2> TAKE j \in 1 .. n
  <2>1. PICK i \in 1 .. n : f[i] = j
    BY <1>8
  <2>2. o.players[f[i]] = s.players[i]
    BY <1>2
  <2>3. QED
    BY <2>1, <2>2
<1>10. DistinctPlayers(o)
  <2> SUFFICES ASSUME NEW j \in 1 .. n, NEW k \in 1 .. n,
                      o.players[j].hash = o.players[k].hash
               PROVE  j = k
    BY <1>1 DEF DistinctPlayers
  <2>1. PICK i1 \in 1 .. n : f[i1] = j /\ o.players[j] = s.players[i1]
    BY <1>9
  <2>2. PICK i2 \in 1 .. n : f[i2] = k /\ o.players[k] = s.players[i2]
    BY <1>9
  <2>3. i1 = i2
    BY <1>1, <2>1, <2>2 DEF DistinctPlayers
  <2>4. QED
    BY <2>1, <2>2, <2>3
<1>11. QED
  BY <1>1, <1>9, <1>10

-----------------------------------------------------------------------------
(***************************************************************************)
(* A board stays accounted for by its moves.                               *)
(***************************************************************************)

\* One turn of the loop: the move joins the moves behind the board, and it is
\* none of the earlier ones because its nonce exceeds all of theirs.
LEMMA ApplyKeepsAccounted ==
    ASSUME NEW s \in GameState, NEW moves \in Seq(Intent), NEW m \in Intent,
           Accounted(s, moves), CanApply(s, m)
    PROVE  Accounted(apply_intent(s, m), Append(moves, m))
<1> DEFINE o == apply_intent(s, m)
           t == Append(moves, m)
           n == Len(moves)
<1>1. /\ n \in Nat
      /\ DOMAIN moves = 1 .. n
      /\ DOMAIN t = 1 .. n + 1
      /\ \A k \in 1 .. n : t[k] = moves[k]
      /\ t[n + 1] = m
      /\ \A k \in 1 .. n : moves[k] \in Intent
  OBVIOUS
<1>2. DistinctPlayers(s)
  BY DEF Accounted
<1>3. /\ DistinctPlayers(o)
      /\ \E i \in DOMAIN o.players :
           o.players[i].hash = m.hash /\ o.players[i].nonce = m.nonce
      /\ \A i \in DOMAIN s.players :
           /\ i \in DOMAIN o.players
           /\ o.players[i].hash = s.players[i].hash
           /\ s.players[i].nonce <= o.players[i].nonce
           /\ s.players[i].hash = m.hash => s.players[i].nonce < m.nonce
  BY <1>2, ApplyIntentEntries
<1>4. o \in GameState
  BY <1>2, ApplyIntentType
<1>5. \A i \in DOMAIN s.players : s.players[i].nonce \in Nat
  BY EntryType DEF GameState
<1>6. \A i \in DOMAIN o.players : o.players[i].nonce \in Nat
  BY <1>4, EntryType DEF GameState
<1>7. m.nonce \in Nat /\ \A k \in 1 .. n : moves[k].nonce \in Nat
  <2>1. U64 \subseteq Nat
    BY RulesAssumption DEF U64
  <2>2. QED
    BY <1>1, <2>1 DEF Intent
<1> HIDE DEF o, t, n
<1>8. \A k \in DOMAIN t : \E i \in DOMAIN o.players :
        o.players[i].hash = t[k].hash /\ t[k].nonce <= o.players[i].nonce
  <2> TAKE k \in DOMAIN t
  <2>1. CASE k = n + 1
    <3>1. PICK i \in DOMAIN o.players :
            o.players[i].hash = m.hash /\ o.players[i].nonce = m.nonce
      BY <1>3
    <3>2. QED
      BY <1>1, <1>7, <2>1, <3>1
  <2>2. CASE k \in 1 .. n
    <3>1. PICK i \in DOMAIN s.players :
            s.players[i].hash = moves[k].hash /\ moves[k].nonce <= s.players[i].nonce
      BY <1>1, <2>2 DEF Accounted
    <3>2. i \in DOMAIN o.players
      BY <1>3
    <3>3. moves[k].nonce <= o.players[i].nonce
      BY <1>3, <1>5, <1>6, <1>7, <2>2, <3>1, <3>2
    <3>4. QED
      BY <1>1, <1>3, <2>2, <3>1, <3>2, <3>3
  <2>3. QED
    BY <1>1, <2>1, <2>2
<1>9. \A k \in 1 .. n : ~ (moves[k].hash = m.hash /\ moves[k].nonce = m.nonce)
  <2> SUFFICES ASSUME NEW k \in 1 .. n, moves[k].hash = m.hash
               PROVE  moves[k].nonce < m.nonce
    BY <1>7
  <2>1. PICK i \in DOMAIN s.players :
          s.players[i].hash = moves[k].hash /\ moves[k].nonce <= s.players[i].nonce
    BY <1>1 DEF Accounted
  <2>2. s.players[i].nonce < m.nonce
    BY <1>3, <2>1
  <2>3. QED
    BY <1>5, <1>7, <2>1, <2>2
<1>10. \A k, l \in DOMAIN t :
         t[k].hash = t[l].hash /\ t[k].nonce = t[l].nonce => k = l
  <2> SUFFICES ASSUME NEW k \in 1 .. n + 1, NEW l \in 1 .. n + 1,
                      t[k].hash = t[l].hash, t[k].nonce = t[l].nonce
               PROVE  k = l
    BY <1>1
  <2>1. CASE k \in 1 .. n /\ l \in 1 .. n
    BY <1>1, <2>1 DEF Accounted
  <2>2. CASE k = n + 1 /\ l \in 1 .. n
    BY <1>1, <1>9, <2>2
  <2>3. CASE k \in 1 .. n /\ l = n + 1
    BY <1>1, <1>9, <2>3
  <2>4. QED
    BY <1>1, <2>1, <2>2, <2>3
<1>11. Accounted(o, t)
  BY <1>3, <1>8, <1>10 DEF Accounted
<1>12. QED
  BY <1>11 DEF o, t

\* Writing the players in another order, and bumping seq, changes nothing.
LEMMA ReorderKeepsAccounted ==
    ASSUME NEW s \in GameState, NEW o \in GameState, NEW moves,
           Accounted(s, moves), equals_unordered(s, o)
    PROVE  Accounted(o, moves)
<1>1. DistinctPlayers(s)
  BY DEF Accounted
<1>2. DistinctPlayers(o)
  BY <1>1, EqualsUnorderedPermutes
<1>3. \A i \in DOMAIN s.players : \E j \in DOMAIN o.players : o.players[j] = s.players[i]
  BY DEF equals_unordered
<1>4. QED
  BY <1>2, <1>3 DEF Accounted

-----------------------------------------------------------------------------
(***************************************************************************)
(* The tally of a log: how many moves a player made, for how many points.  *)
(***************************************************************************)

\* A player's moves are finitely many, and none in an empty log.
LEMMA MovesByType ==
    ASSUME NEW moves \in Seq(Intent), NEW h
    PROVE  /\ IsFiniteSet(Ledger!MovesOf(moves, h))
           /\ MovesBy(moves, h) \in Nat
           /\ (\A k \in DOMAIN moves : moves[k].hash # h) => MovesBy(moves, h) = 0
<1>1. DOMAIN moves = 1 .. Len(moves) /\ Len(moves) \in Nat
  OBVIOUS
<1>2. IsFiniteSet(1 .. Len(moves))
  BY <1>1, FS_Interval
<1>3. IsFiniteSet(Ledger!MovesOf(moves, h))
  <2>1. Ledger!MovesOf(moves, h) \subseteq 1 .. Len(moves)
    BY <1>1 DEF Ledger!MovesOf
  <2> QED
    BY <1>2, <2>1, FS_Subset
<1>4. ASSUME \A k \in DOMAIN moves : moves[k].hash # h PROVE MovesBy(moves, h) = 0
  <2>1. Ledger!MovesOf(moves, h) = {}
    BY <1>4 DEF Ledger!MovesOf
  <2> QED
    BY <2>1, FS_EmptySet DEF MovesBy
<1> QED
  BY <1>3, <1>4, FS_CardinalityType DEF MovesBy

\* The players' moves in a log extended by one.
LEMMA MovesOfAppend ==
    ASSUME NEW moves \in Seq(Intent), NEW m \in Intent, NEW h
    PROVE  Ledger!MovesOf(Append(moves, m), h) =
             IF m.hash = h THEN Ledger!MovesOf(moves, h) \cup {Len(moves) + 1}
             ELSE Ledger!MovesOf(moves, h)
<1> DEFINE t == Append(moves, m)
           n == Len(moves)
<1>1. /\ n \in Nat /\ DOMAIN moves = 1 .. n /\ DOMAIN t = 1 .. n + 1
      /\ t[n + 1] = m /\ \A i \in 1 .. n : t[i] = moves[i]
  OBVIOUS
<1> HIDE DEF t, n
<1>2. \A i : i \in 1 .. n + 1 <=> (i \in 1 .. n \/ i = n + 1)
  BY <1>1
<1>3. n + 1 \notin 1 .. n
  BY <1>1
<1>4. \A i : i \in Ledger!MovesOf(t, h) <=>
               (i \in Ledger!MovesOf(moves, h) \/ (i = n + 1 /\ m.hash = h))
  BY <1>1, <1>2, <1>3 DEF Ledger!MovesOf
<1> QED
  BY <1>4 DEF t, n

\* Their number.
LEMMA MovesByAppend ==
    ASSUME NEW moves \in Seq(Intent), NEW m \in Intent, NEW h
    PROVE  MovesBy(Append(moves, m), h) = MovesBy(moves, h) + IF m.hash = h THEN 1 ELSE 0
<1>1. Len(moves) + 1 \notin Ledger!MovesOf(moves, h)
  BY DEF Ledger!MovesOf
<1>2. IsFiniteSet(Ledger!MovesOf(moves, h)) /\ MovesBy(moves, h) \in Nat
  BY MovesByType
<1>3. CASE m.hash = h
  <2>1. Ledger!MovesOf(Append(moves, m), h) = Ledger!MovesOf(moves, h) \cup {Len(moves) + 1}
    BY <1>3, MovesOfAppend
  <2> DEFINE S == Ledger!MovesOf(moves, h)
             x == Len(moves) + 1
  <2>2. x \notin S /\ IsFiniteSet(S)
    BY <1>1, <1>2
  <2> HIDE DEF S, x
  <2>3. Cardinality(S \cup {x}) = Cardinality(S) + 1
    BY <2>2, FS_AddElement
  <2> QED
    BY <1>3, <2>1, <2>3 DEF MovesBy, S, x
<1>4. CASE m.hash # h
  <2>1. Ledger!MovesOf(Append(moves, m), h) = Ledger!MovesOf(moves, h)
    BY <1>4, MovesOfAppend
  <2> QED
    BY <1>2, <1>4, <2>1 DEF MovesBy
<1> QED
  BY <1>3, <1>4

\* What move m scores for player h.
Scored(m, h) == IF m.hash = h THEN m.points ELSE 0

\* f adds up what the first n moves score for h.
IsScore(f, moves, h) ==
    f = [n \in 0 .. Len(moves) |->
            IF n = 0 THEN 0
            ELSE f[n-1] + (IF moves[n].hash = h THEN moves[n].points ELSE 0)]

\* PointsIn is the last value of such a function, and its values are numbers.
LEMMA PointsInSteps ==
    ASSUME NEW moves \in Seq(Intent), NEW h
    PROVE  \E f : /\ PointsIn(moves, h) = f[Len(moves)]
                  /\ f[0] = 0
                  /\ \A n \in 0 .. Len(moves) : f[n] \in Nat
                  /\ \A n \in 1 .. Len(moves) : f[n] = f[n-1] + Scored(moves[n], h)
<1> DEFINE L == Len(moves)
           step == [k \in 1 .. L |-> [x \in Nat |-> x + Scored(moves[k], h)]]
<1>0. L \in Nat /\ \A k \in 1 .. L : Scored(moves[k], h) \in Nat
  <2>1. U64 \subseteq Nat
    BY RulesAssumption DEF U64
  <2>2. L \in Nat /\ \A k \in 1 .. L : moves[k] \in Intent
    OBVIOUS
  <2> HIDE DEF L
  <2>3. \A k \in 1 .. L : moves[k].points \in Nat
    BY <2>1, <2>2 DEF Intent
  <2> QED
    BY <2>2, <2>3 DEF Scored
<1>1. \A k \in 1 .. L : \A x \in Nat : step[k][x] \in Nat /\ step[k][x] = x + Scored(moves[k], h)
  BY <1>0
<1> HIDE DEF step, L
<1>2. PICK g : Takes(g, L, Nat, 0, step)
  BY <1>0, <1>1, StepsExist
<1>3. /\ g \in [0 .. L -> Nat] /\ g[0] = 0
      /\ \A n \in 1 .. L : g[n] = g[n-1] + Scored(moves[n], h)
  <2>1. ASSUME NEW n \in 1 .. L PROVE g[n] = g[n-1] + Scored(moves[n], h)
    <3>1. n - 1 \in 0 .. L
      BY <1>0
    <3>2. g[n-1] \in Nat
      BY <1>2, <3>1 DEF Takes
    <3> QED
      BY <1>1, <1>2, <3>2 DEF Takes
  <2> QED
    BY <1>2, <2>1 DEF Takes
<1>4. IsScore(g, moves, h)
  <2>1. \A n \in 0 .. L : n # 0 => n \in 1 .. L
    BY <1>0
  <2>2. \A n \in 0 .. L :
          g[n] = IF n = 0 THEN 0
                 ELSE g[n-1] + (IF moves[n].hash = h THEN moves[n].points ELSE 0)
    BY <1>3, <2>1 DEF Scored
  <2>3. g = [n \in 0 .. L |-> g[n]]
    BY <1>3
  <2> QED
    BY <2>2, <2>3 DEF IsScore, L
<1>5. PICK f : f = (CHOOSE k : IsScore(k, moves, h))
  OBVIOUS
<1>6. IsScore(f, moves, h)
  BY <1>4, <1>5
<1>7. PointsIn(moves, h) = f[L]
  BY <1>5 DEF PointsIn, IsScore, L
<1>8. /\ f[0] = 0
      /\ \A n \in 1 .. L : f[n] = f[n-1] + Scored(moves[n], h)
  <2>1. 0 \in 0 .. L /\ \A n \in 1 .. L : n \in 0 .. L /\ n # 0
    BY <1>0
  <2> QED
    BY <1>6, <2>1 DEF IsScore, Scored, L
<1>9. \A n \in 0 .. L : n \in {k \in Int : f[k] \in Nat}
  <2> DEFINE S == {k \in Int : f[k] \in Nat}
  <2>1. 0 \in S
    BY <1>8
  <2>2. \A k \in 1 .. L : k - 1 \in S => k \in S
    BY <1>0, <1>8
  <2> HIDE DEF S
  <2>3. \A n \in 0 .. L : n \in S
    BY <1>0, <2>1, <2>2, StepsReach
  <2> QED
    BY <2>3 DEF S
<1> QED
  BY <1>7, <1>8, <1>9 DEF L

\* One move adds its points to its player's and to nobody else's.
LEMMA PointsInAppend ==
    ASSUME NEW moves \in Seq(Intent), NEW m \in Intent, NEW h
    PROVE  /\ PointsIn(moves, h) \in Nat
           /\ PointsIn(Append(moves, m), h) = PointsIn(moves, h) + Scored(m, h)
<1> DEFINE t == Append(moves, m)
           n == Len(moves)
<1>1. /\ t \in Seq(Intent) /\ Len(t) = n + 1 /\ n \in Nat
      /\ t[n + 1] = m /\ \A i \in 1 .. n : t[i] = moves[i]
  OBVIOUS
<1> HIDE DEF t, n
<1>2. PICK f : /\ PointsIn(moves, h) = f[n] /\ f[0] = 0
               /\ \A k \in 0 .. n : f[k] \in Nat
               /\ \A k \in 1 .. n : f[k] = f[k-1] + Scored(moves[k], h)
  BY PointsInSteps DEF n
<1>3. PICK g : /\ PointsIn(t, h) = g[n + 1] /\ g[0] = 0
               /\ \A k \in 1 .. n + 1 : g[k] = g[k-1] + Scored(t[k], h)
  <2>0. t \in Seq(Intent)
    BY <1>1
  <2>1. \E f2 : /\ PointsIn(t, h) = f2[Len(t)] /\ f2[0] = 0
                /\ \A k \in 0 .. Len(t) : f2[k] \in Nat
                /\ \A k \in 1 .. Len(t) : f2[k] = f2[k-1] + Scored(t[k], h)
    BY <2>0, PointsInSteps
  <2> QED
    BY <1>1, <2>1
<1>4. g[n] = f[n]
  <2> DEFINE S == {k \in Int : g[k] = f[k]}
  <2>1. 0 \in S
    BY <1>2, <1>3
  <2>2. ASSUME NEW k \in 1 .. n, k - 1 \in S PROVE k \in S
    <3>1. k \in 1 .. n + 1 /\ t[k] = moves[k]
      BY <1>1
    <3> QED
      BY <1>2, <1>3, <2>2, <3>1
  <2> HIDE DEF S
  <2>3. \A k \in 0 .. n : k \in S
    BY <1>1, <2>1, <2>2, StepsReach
  <2>4. n \in S
    BY <1>1, <2>3
  <2> QED
    BY <2>4 DEF S
<1>5. g[n + 1] = g[n] + Scored(m, h)
  <2>1. n + 1 \in 1 .. n + 1 /\ (n + 1) - 1 = n
    BY <1>1
  <2>2. g[n + 1] = g[(n + 1) - 1] + Scored(t[n + 1], h)
    BY <1>3, <2>1
  <2> QED
    BY <1>1, <2>1, <2>2
<1>6. f[n] \in Nat
  BY <1>1, <1>2
<1> QED
  BY <1>2, <1>3, <1>4, <1>5, <1>6 DEF t

-----------------------------------------------------------------------------
(***************************************************************************)
(* The board is the tally of its moves.                                    *)
(***************************************************************************)

\* A board and its moves at one step of the loop: every entry is an entry from
\* before, the mover's entry with the move added, or the mover's first.
LEMMA ApplyIntentBoard ==
    ASSUME NEW s \in GameState, DistinctPlayers(s), NEW m \in Intent, CanApply(s, m),
           NEW i \in DOMAIN apply_intent(s, m).players
    PROVE  LET e == apply_intent(s, m).players[i]
           IN  \/ /\ i \in DOMAIN s.players /\ e = s.players[i] /\ s.players[i].hash # m.hash
               \/ /\ i \in DOMAIN s.players /\ s.players[i].hash = m.hash /\ e.hash = m.hash
                  /\ e.nonce = s.players[i].nonce + 1
                  /\ e.score = s.players[i].score + m.points
               \/ /\ ~ HasPlayer(s, m.hash)
                  /\ e = [hash |-> m.hash, score |-> m.points, nonce |-> 1]
<1> DEFINE o == apply_intent(s, m)
<1>0. /\ s.players \in Seq(PlayerEntry) /\ Len(s.players) \in Nat
      /\ DOMAIN s.players = 1 .. Len(s.players)
  BY DEF GameState
<1>1. CASE HasPlayer(s, m.hash)
  <2> DEFINE k == PlayerIndex(s, m.hash)
             e == [s.players[k] EXCEPT !.score = s.players[k].score + m.points,
                                       !.nonce = m.nonce]
  <2>1. /\ k \in 1 .. Len(s.players) /\ s.players[k].hash = m.hash
        /\ \A j \in 1 .. Len(s.players) : s.players[j].hash = m.hash => j = k
    BY <1>1, PlayerIndexUnique
  <2>2. s.players[k] \in PlayerEntry
    BY <1>0, <2>1
  <2>3. o.players = [s.players EXCEPT ![k] = e]
    BY <1>1 DEF apply_intent, GameState
  <2>4. /\ e.hash = m.hash /\ e.nonce = m.nonce
        /\ e.score = s.players[k].score + m.points
    BY <2>1, <2>2 DEF PlayerEntry
  <2>5. m.nonce = s.players[k].nonce + 1
    BY <1>1 DEF CanApply
  <2> HIDE DEF e, k
  <2>6. i \in 1 .. Len(s.players) /\ o.players[i] = IF i = k THEN e ELSE s.players[i]
    BY <1>0, <2>1, <2>3
  <2> QED
    BY <1>0, <2>1, <2>4, <2>5, <2>6
<1>2. CASE ~ HasPlayer(s, m.hash)
  <2> DEFINE e == [hash |-> m.hash, score |-> m.points, nonce |-> 1]
             n == Len(s.players)
  <2>1. e \in PlayerEntry
    BY RulesAssumption DEF PlayerEntry, Intent, U64
  <2>2. o.players = Append(s.players, e)
    BY <1>2 DEF apply_intent, GameState
  <2> HIDE DEF e
  <2>3. i = n + 1 \/ i \in 1 .. n
    BY <1>0, <2>1, <2>2
  <2>4. CASE i = n + 1
    <3>1. o.players[i] = e
      BY <1>0, <2>1, <2>2, <2>4
    <3> QED
      BY <1>2, <3>1 DEF e
  <2>5. CASE i \in 1 .. n
    <3>1. o.players[i] = s.players[i]
      BY <1>0, <2>1, <2>2, <2>5
    <3>2. s.players[i].hash # m.hash
      BY <1>0, <1>2, <2>5 DEF HasPlayer
    <3> QED
      BY <1>0, <2>5, <3>1, <3>2
  <2> QED
    BY <2>3, <2>4, <2>5
<1> QED
  BY <1>1, <1>2

\* Whoever has no entry has made no move.
LEMMA NoEntryNoMoves ==
    ASSUME NEW s \in GameState, NEW moves \in Seq(Intent), Accounted(s, moves),
           NEW h, ~ HasPlayer(s, h)
    PROVE  /\ \A k \in DOMAIN moves : moves[k].hash # h
           /\ MovesBy(moves, h) = 0
<1>1. \A k \in DOMAIN moves : moves[k].hash # h
  BY DEF Accounted, HasPlayer
<1> QED
  BY <1>1, MovesByType

\* Nor have they scored.
LEMMA NoMovesNoPoints ==
    ASSUME NEW moves \in Seq(Intent), NEW h, \A k \in DOMAIN moves : moves[k].hash # h
    PROVE  PointsIn(moves, h) = 0
<1> DEFINE n == Len(moves)
<1>0. n \in Nat /\ DOMAIN moves = 1 .. n
  OBVIOUS
<1>1. PICK f : /\ PointsIn(moves, h) = f[Len(moves)] /\ f[0] = 0
               /\ \A k \in 0 .. Len(moves) : f[k] \in Nat
               /\ \A k \in 1 .. Len(moves) : f[k] = f[k-1] + Scored(moves[k], h)
  BY PointsInSteps
<1> DEFINE S == {k \in Int : f[k] = 0}
<1>2. 0 \in S
  BY <1>1
<1>3. \A k \in 1 .. n : Scored(moves[k], h) = 0
  BY <1>0 DEF Scored
<1>4. ASSUME NEW k \in 1 .. n, k - 1 \in S PROVE k \in S
  <2>1. f[k] = f[k-1] + Scored(moves[k], h)
    BY <1>1
  <2>2. Scored(moves[k], h) = 0
    BY <1>3
  <2>3. f[k-1] = 0
    BY <1>4
  <2>4. f[k] = 0
    BY <2>1, <2>2, <2>3
  <2> QED
    BY <1>0, <2>4
<1> HIDE DEF S, n
<1>5. \A k \in 0 .. n : k \in S
  BY <1>0, <1>2, <1>4, StepsReach
<1>6. n \in S
  BY <1>0, <1>5
<1> QED
  BY <1>1, <1>6 DEF S, n

\* One turn of the loop keeps the tally.
LEMMA ApplyKeepsTallied ==
    ASSUME NEW s \in GameState, NEW moves \in Seq(Intent), NEW m \in Intent,
           Accounted(s, moves), Tallied(s, moves), CanApply(s, m)
    PROVE  Tallied(apply_intent(s, m), Append(moves, m))
<1> DEFINE o == apply_intent(s, m)
           t == Append(moves, m)
<1>1. DistinctPlayers(s)
  BY DEF Accounted
<1> SUFFICES ASSUME NEW i \in DOMAIN o.players
             PROVE  /\ o.players[i].nonce = MovesBy(t, o.players[i].hash)
                    /\ o.players[i].score = PointsIn(t, o.players[i].hash)
  BY DEF Tallied
<1> DEFINE e == o.players[i]
<1>2. /\ MovesBy(t, e.hash) = MovesBy(moves, e.hash) + IF m.hash = e.hash THEN 1 ELSE 0
      /\ PointsIn(t, e.hash) = PointsIn(moves, e.hash) + Scored(m, e.hash)
      /\ MovesBy(moves, e.hash) \in Nat /\ PointsIn(moves, e.hash) \in Nat
  BY MovesByAppend, PointsInAppend, MovesByType
<1>3. \/ /\ i \in DOMAIN s.players /\ e = s.players[i] /\ s.players[i].hash # m.hash
      \/ /\ i \in DOMAIN s.players /\ s.players[i].hash = m.hash /\ e.hash = m.hash
         /\ e.nonce = s.players[i].nonce + 1
         /\ e.score = s.players[i].score + m.points
      \/ /\ ~ HasPlayer(s, m.hash)
         /\ e = [hash |-> m.hash, score |-> m.points, nonce |-> 1]
  BY <1>1, ApplyIntentBoard
<1> HIDE DEF e, o, t
<1>4. CASE i \in DOMAIN s.players /\ e = s.players[i] /\ s.players[i].hash # m.hash
  BY <1>2, <1>4 DEF Tallied, Scored, e
<1>5. CASE /\ i \in DOMAIN s.players /\ s.players[i].hash = m.hash /\ e.hash = m.hash
           /\ e.nonce = s.players[i].nonce + 1
           /\ e.score = s.players[i].score + m.points
  BY <1>2, <1>5 DEF Tallied, Scored, e
<1>6. CASE /\ ~ HasPlayer(s, m.hash)
           /\ e = [hash |-> m.hash, score |-> m.points, nonce |-> 1]
  <2>1. e.hash = m.hash /\ e.nonce = 1 /\ e.score = m.points
    BY <1>6
  <2>2. MovesBy(moves, m.hash) = 0 /\ PointsIn(moves, m.hash) = 0
    BY <1>6, NoEntryNoMoves, NoMovesNoPoints
  <2>3. m.points \in Nat
    BY RulesAssumption DEF Intent, U64
  <2> QED
    BY <1>2, <2>1, <2>2, <2>3 DEF Scored, e
<1> QED
  BY <1>3, <1>4, <1>5, <1>6

\* Writing the players in another order keeps it too.
LEMMA ReorderKeepsTallied ==
    ASSUME NEW s \in GameState, NEW o \in GameState, NEW moves,
           DistinctPlayers(s), equals_unordered(s, o), Tallied(s, moves)
    PROVE  Tallied(o, moves)
<1>1. \A j \in DOMAIN o.players : \E i \in DOMAIN s.players : s.players[i] = o.players[j]
  BY EqualsUnorderedPermutes
<1> QED
  BY <1>1 DEF Tallied

-----------------------------------------------------------------------------
(***************************************************************************)
(* apply_batch's loop.                                                     *)
(***************************************************************************)

\* r is the loop of apply_batch(s, b).
IsRan(r, s, b) ==
    r = [n \in 0 .. Len(b) |->
            IF n = 0 THEN [ok |-> TRUE, state |-> s]
            ELSE IF r[n-1].ok /\ CanApply(r[n-1].state, b[n])
                 THEN [ok |-> TRUE, state |-> apply_intent(r[n-1].state, b[n])]
                 ELSE [ok |-> FALSE, state |-> s]]

\* One turn of it, from what the turns before have left.
Turn(x, s, m) ==
    IF x.ok /\ CanApply(x.state, m)
    THEN [ok |-> TRUE, state |-> apply_intent(x.state, m)] ELSE [ok |-> FALSE, state |-> s]

\* What a turn may leave: a board that lists nobody twice.
TurnResult == [ok : BOOLEAN, state : {x \in GameState : DistinctPlayers(x)}]

\* A turn leaves such a result.
LEMMA TurnType ==
    ASSUME NEW x \in TurnResult, NEW s \in GameState, DistinctPlayers(s), NEW m \in Intent
    PROVE  Turn(x, s, m) \in TurnResult
<1>1. x.state \in GameState /\ DistinctPlayers(x.state)
  BY DEF TurnResult
<1>2. CASE x.ok /\ CanApply(x.state, m)
  <2>1. apply_intent(x.state, m) \in GameState
    BY <1>1, <1>2, ApplyIntentType
  <2>2. DistinctPlayers(apply_intent(x.state, m))
    BY <1>1, <1>2, ApplyIntentEntries
  <2> QED
    BY <1>2, <2>1, <2>2 DEF Turn, TurnResult
<1>3. CASE ~ (x.ok /\ CanApply(x.state, m))
  BY <1>3 DEF Turn, TurnResult
<1> QED
  BY <1>2, <1>3

\* The loop starts from the board and takes one turn per intent.
LEMMA RanSteps ==
    ASSUME NEW s \in GameState, DistinctPlayers(s), NEW b \in Seq(Intent)
    PROVE  /\ ran(s, b)[0] = [ok |-> TRUE, state |-> s]
           /\ \A n \in 1 .. Len(b) : ran(s, b)[n] = Turn(ran(s, b)[n-1], s, b[n])
<1> DEFINE L == Len(b)
           a == [ok |-> TRUE, state |-> s]
           step == [k \in 1 .. L |-> [x \in TurnResult |-> Turn(x, s, b[k])]]
<1>0. L \in Nat /\ \A k \in 1 .. L : b[k] \in Intent
  OBVIOUS
<1>1. a \in TurnResult
  BY DEF TurnResult
<1>2. \A k \in 1 .. L : \A x \in TurnResult :
        step[k][x] \in TurnResult /\ step[k][x] = Turn(x, s, b[k])
  BY <1>0, TurnType
<1> HIDE DEF step, L, a
<1>3. PICK g : Takes(g, L, TurnResult, a, step)
  BY <1>0, <1>1, <1>2, StepsExist
<1>4. /\ g \in [0 .. L -> TurnResult] /\ g[0] = a
      /\ \A n \in 1 .. L : g[n] = Turn(g[n-1], s, b[n])
  <2>1. ASSUME NEW n \in 1 .. L PROVE g[n] = Turn(g[n-1], s, b[n])
    <3>1. n - 1 \in 0 .. L
      BY <1>0
    <3>2. g[n-1] \in TurnResult
      BY <1>3, <3>1 DEF Takes
    <3> QED
      BY <1>2, <1>3, <3>2 DEF Takes
  <2> QED
    BY <1>3, <2>1 DEF Takes
<1>5. IsRan(g, s, b)
  <2>1. \A n \in 0 .. L : n # 0 => n \in 1 .. L
    BY <1>0
  <2>2. \A n \in 0 .. L : g[n] = IF n = 0 THEN a ELSE Turn(g[n-1], s, b[n])
    BY <1>4, <2>1
  <2>3. g = [n \in 0 .. L |-> g[n]]
    BY <1>4
  <2>4. g = [n \in 0 .. L |-> IF n = 0 THEN a ELSE Turn(g[n-1], s, b[n])]
    BY <2>2, <2>3
  <2> QED
    BY <2>4 DEF IsRan, Turn, a, L
<1>6. PICK r : r = (CHOOSE k : IsRan(k, s, b))
  OBVIOUS
<1>7. IsRan(r, s, b)
  BY <1>5, <1>6
<1>8. ran(s, b) = r
  BY <1>6 DEF ran, IsRan
<1>9. /\ r[0] = a
      /\ \A n \in 1 .. L : r[n] = Turn(r[n-1], s, b[n])
  <2>1. 0 \in 0 .. L /\ \A n \in 1 .. L : n \in 0 .. L /\ n # 0
    BY <1>0
  <2> QED
    BY <1>7, <2>1 DEF IsRan, Turn, L, a
<1> QED
  BY <1>8, <1>9 DEF a, L

-----------------------------------------------------------------------------
(***************************************************************************)
(* Legal moves of the ledger.                                              *)
(***************************************************************************)

\* Whether a move extends the moves before it does not depend on later ones.
LEMMA LegalBefore ==
    ASSUME NEW c, NEW moves \in Seq(Intent), NEW m \in Intent, NEW k \in 1 .. Len(moves),
           Ledger!LegalMove(c, moves, k)
    PROVE  Ledger!LegalMove(c, Append(moves, m), k)
<1> DEFINE t == Append(moves, m)
           n == Len(moves)
<1>1. n \in Nat /\ t[k] = moves[k]
  OBVIOUS
<1>2. \A h : {i \in Ledger!MovesOf(t, h) : i < k} = {i \in Ledger!MovesOf(moves, h) : i < k}
  <2> TAKE h
  <2>1. \A i \in Ledger!MovesOf(moves, h) : i \in Ledger!MovesOf(t, h)
    BY MovesOfAppend
  <2>2. \A i \in Ledger!MovesOf(t, h) : i < k => i \in Ledger!MovesOf(moves, h)
    <3>1. \A i \in Ledger!MovesOf(t, h) : i = n + 1 \/ i \in Ledger!MovesOf(moves, h)
      BY MovesOfAppend
    <3>2. ~ (n + 1 < k)
      BY <1>1
    <3> QED
      BY <3>1, <3>2
  <2> QED
    BY <2>1, <2>2
<1> HIDE DEF t
<1> QED
  BY <1>1, <1>2 DEF Ledger!LegalMove, t

\* A signed move that applies to the board is legal after the board's moves.
LEMMA LegalNext ==
    ASSUME TypeOK, NEW c \in Cell, NEW s \in GameState, NEW moves \in Seq(Intent), NEW m \in Intent,
           Accounted(s, moves), Tallied(s, moves), CanApply(s, m),
           verify_intent_sig(GameOf[c], m)
    PROVE  Ledger!LegalMove(c, Append(moves, m), Len(moves) + 1)
<1> DEFINE t == Append(moves, m)
           n == Len(moves)
           h == m.hash
<1>1. n \in Nat /\ t[n + 1] = m
  OBVIOUS
<1>2. {i \in Ledger!MovesOf(t, h) : i < n + 1} = Ledger!MovesOf(moves, h)
  <2>1. \A i \in Ledger!MovesOf(moves, h) : i \in Ledger!MovesOf(t, h) /\ i < n + 1
    <3>1. \A i \in Ledger!MovesOf(moves, h) : i \in 1 .. n
      BY DEF Ledger!MovesOf
    <3> QED
      BY <1>1, <3>1, MovesOfAppend
  <2>2. \A i \in Ledger!MovesOf(t, h) : i < n + 1 => i \in Ledger!MovesOf(moves, h)
    <3>1. \A i \in Ledger!MovesOf(t, h) : i = n + 1 \/ i \in Ledger!MovesOf(moves, h)
      BY MovesOfAppend
    <3> QED
      BY <1>1, <3>1
  <2> QED
    BY <2>1, <2>2
<1>3. m.nonce = 1 + MovesBy(moves, h)
  <2>1. MovesBy(moves, h) \in Nat
    BY MovesByType
  <2>2. CASE HasPlayer(s, h)
    <3>1. DistinctPlayers(s)
      BY DEF Accounted
    <3>2. /\ PlayerIndex(s, h) \in 1 .. Len(s.players)
          /\ s.players[PlayerIndex(s, h)].hash = h
      BY <2>2, <3>1, PlayerIndexUnique
    <3>3. m.nonce = s.players[PlayerIndex(s, h)].nonce + 1
      BY <2>2 DEF CanApply
    <3>4. s.players[PlayerIndex(s, h)].nonce = MovesBy(moves, h)
      BY <3>2 DEF Tallied, GameState
    <3> QED
      BY <2>1, <3>3, <3>4
  <2>3. CASE ~ HasPlayer(s, h)
    <3>1. MovesBy(moves, h) = 0
      BY <2>3, NoEntryNoMoves
    <3>2. m.nonce = 1
      BY <2>3 DEF CanApply
    <3> QED
      BY <3>1, <3>2
  <2> QED
    BY <2>2, <2>3
<1>4. /\ m.sig \in Signed
      /\ m.sig = [game |-> GameOf[c], hash |-> h, points |-> m.points, nonce |-> m.nonce]
      /\ m.points <= MAX_POINTS_PER_MOVE
  BY DEF verify_intent_sig, intent_message, CanApply
<1>5. \A S : Ledger!Cardinality(S) = Cardinality(S)
  BY DEF Cardinality, Ledger!Cardinality
<1> HIDE DEF t, n
<1>6. m.nonce = 1 + Ledger!Cardinality({i \in Ledger!MovesOf(t, h) : i < n + 1})
  BY <1>2, <1>3, <1>5 DEF MovesBy
<1> QED
  BY <1>1, <1>4, <1>6 DEF Ledger!LegalMove, t, n

-----------------------------------------------------------------------------
(***************************************************************************)
(* A batch: the board and the moves it leaves.                             *)
(***************************************************************************)

\* The board of a new game has the right type.
LEMMA EmptyStateType == EmptyState \in GameState
BY RulesAssumption DEF EmptyState, GameState, U64

\* Cell data that decodes, decodes to a board.
LEMMA DecodeType ==
    ASSUME NEW d \in CellData, Decodes(d)
    PROVE  decode(d) \in GameState
<1>1. CASE d.tag = "empty"
  BY <1>1, EmptyStateType DEF decode
<1>2. CASE d.tag # "empty"
  BY <1>2 DEF decode, Decodes, CellData
<1>3. QED
  BY <1>1, <1>2

\* The board s and the moves that continue those of cell c, after some intents.
Reached(c, s, moves) ==
    /\ s \in GameState /\ moves \in Seq(Intent)
    /\ Accounted(s, moves)
    /\ Tallied(s, moves)
    /\ s.seq = decode(data[c]).seq
    /\ SignedFor(GameOf[c], moves)
    /\ Continues(c, moves)

\* A signed move that applies leaves the board and the moves as they should be.
LEMMA MoveReaches ==
    ASSUME TypeOK, NEW c \in Cell, NEW s, NEW moves, Reached(c, s, moves),
           NEW m \in Intent, CanApply(s, m), verify_intent_sig(GameOf[c], m)
    PROVE  Reached(c, apply_intent(s, m), Append(moves, m))
<1> DEFINE o == apply_intent(s, m)
           t == Append(moves, m)
           l == Len(log[c])
           n == Len(moves)
<1>1. /\ s \in GameState /\ moves \in Seq(Intent) /\ Accounted(s, moves) /\ Tallied(s, moves)
      /\ DistinctPlayers(s) /\ log[c] \in Seq(Intent)
  BY DEF Reached, Accounted, TypeOK
<1>2. o \in GameState /\ o.seq = s.seq
  BY <1>1, ApplyIntentType, ApplyIntentEntries
<1>3. Accounted(o, t) /\ Tallied(o, t)
  BY <1>1, ApplyKeepsAccounted, ApplyKeepsTallied
<1>4. t \in Seq(Intent) /\ n \in Nat /\ Len(t) = n + 1 /\ t[n + 1] = m
      /\ \A i \in 1 .. n : t[i] = moves[i]
  BY <1>1
<1>5. SignedFor(GameOf[c], t)
  <2>1. intent_message(GameOf[c], m.hash, m.points, m.nonce) \in Signed
    BY DEF verify_intent_sig
  <2> QED
    BY <1>1, <1>4, <2>1 DEF SignedFor, Reached
<1>6. Continues(c, t)
  <2>1. /\ l <= n /\ SubSeq(moves, 1, l) = log[c]
        /\ \A k \in l + 1 .. n : Ledger!LegalMove(c, moves, k)
    BY DEF Reached, Continues
  <2>2. l \in Nat /\ n \in Nat /\ Len(t) = n + 1 /\ l <= n
    BY <1>1, <1>4, <2>1
  <2>3. SubSeq(t, 1, l) = SubSeq(moves, 1, l)
    <3> HIDE DEF t, l, n
    <3>1. /\ t \in Seq(Intent) /\ moves \in Seq(Intent) /\ n = Len(moves)
          /\ \A i \in 1 .. n : t[i] = moves[i]
      BY <1>1, <1>4 DEF n
    <3>2. /\ SubSeq(t, 1, l) = [i \in 1 .. l |-> t[i]]
          /\ SubSeq(moves, 1, l) = [i \in 1 .. l |-> moves[i]]
      BY <2>2, <3>1
    <3>3. \A i \in 1 .. l : t[i] = moves[i]
      BY <2>2, <3>1
    <3> QED
      BY <3>2, <3>3
  <2>4. Ledger!LegalMove(c, t, n + 1)
    BY <1>1, LegalNext
  <2>5. \A k \in l + 1 .. n : Ledger!LegalMove(c, t, k)
    <3>1. \A k \in l + 1 .. n : k \in 1 .. n
      BY <2>2
    <3> QED
      BY <1>1, <2>1, <3>1, LegalBefore
  <2> HIDE DEF t, l, n
  <2>6. \A k \in l + 1 .. n + 1 : k \in l + 1 .. n \/ k = n + 1
    BY <2>2
  <2>7. \A k \in l + 1 .. Len(t) : Ledger!LegalMove(c, t, k)
    BY <2>2, <2>4, <2>5, <2>6
  <2>8. l <= Len(t)
    BY <2>2
  <2>9. SubSeq(t, 1, l) = log[c]
    BY <2>1, <2>3 DEF l
  <2> QED
    BY <2>7, <2>8, <2>9 DEF Continues, l
<1> HIDE DEF o, t
<1>7. o.seq = decode(data[c]).seq
  BY <1>2 DEF Reached
<1>8. Reached(c, o, t)
  BY <1>2, <1>3, <1>4, <1>5, <1>6, <1>7 DEF Reached
<1> QED
  BY <1>8 DEF o, t

\* The committed board and moves of a cell, before the first intent.
LEMMA CellReaches ==
    ASSUME IndInv, NEW c \in born
    PROVE  Reached(c, decode(data[c]), log[c])
<1>1. /\ data[c] \in CellData /\ Decodes(data[c]) /\ log[c] \in Seq(Intent)
      /\ Accounted(decode(data[c]), log[c]) /\ Tallied(decode(data[c]), log[c])
      /\ SignedFor(GameOf[c], log[c])
  BY DEF IndInv, TypeOK
<1>2. decode(data[c]) \in GameState
  BY <1>1, DecodeType
<1>3. Continues(c, log[c])
  <2>1. SubSeq(log[c], 1, Len(log[c])) = log[c] /\ Len(log[c]) \in Nat
    BY <1>1
  <2>2. Len(log[c]) + 1 .. Len(log[c]) = {}
    BY <2>1
  <2> QED
    BY <2>1, <2>2 DEF Continues
<1> QED
  BY <1>1, <1>2, <1>3 DEF Reached

\* The moves q followed by the first k of b.
Joined(q, b, k) == q \o SubSeq(b, 1, k)

\* Nothing of b at first, one move more at a time, and all of it at the end.
LEMMA JoinedSteps ==
    ASSUME NEW q \in Seq(Intent), NEW b \in Seq(Intent)
    PROVE  /\ Joined(q, b, 0) = q
           /\ Joined(q, b, Len(b)) = q \o b
           /\ \A k \in 1 .. Len(b) : Joined(q, b, k) = Append(Joined(q, b, k - 1), b[k])
<1>1. Joined(q, b, 0) = q
  BY DEF Joined
<1>2. Joined(q, b, Len(b)) = q \o b
  BY DEF Joined
<1>3. ASSUME NEW k \in 1 .. Len(b)
      PROVE  Joined(q, b, k) = Append(Joined(q, b, k - 1), b[k])
  <2>1. SubSeq(b, 1, k) = Append(SubSeq(b, 1, k - 1), b[k])
    OBVIOUS
  <2>2. PICK p : p = SubSeq(b, 1, k - 1)
    OBVIOUS
  <2>3. p \in Seq(Intent) /\ b[k] \in Intent
    BY <2>2
  <2>4. q \o Append(p, b[k]) = Append(q \o p, b[k])
    BY <2>3
  <2> QED
    BY <2>1, <2>2, <2>4 DEF Joined
<1> QED
  BY <1>1, <1>2, <1>3

\* Every turn of apply_batch's loop that has not failed has reached a board and moves
\* that are as they should be.
LEMMA LoopReaches ==
    ASSUME IndInv, NEW c \in born, NEW b \in Seq(Intent),
           \A i \in DOMAIN b : verify_intent_sig(GameOf[c], b[i])
    PROVE  LET r == ran(decode(data[c]), b)
           IN  r[Len(b)].ok => Reached(c, r[Len(b)].state, log[c] \o b)
<1>1. PICK s : s = decode(data[c])
  OBVIOUS
<1>2. PICK r : r = ran(s, b)
  OBVIOUS
<1>3. PICK q : q = log[c]
  OBVIOUS
<1>4. /\ TypeOK /\ c \in Cell /\ q \in Seq(Intent) /\ Reached(c, s, q)
      /\ s \in GameState /\ DistinctPlayers(s)
  BY <1>1, <1>3, CellReaches DEF IndInv, TypeOK, Reached, Accounted
<1>5. /\ r[0] = [ok |-> TRUE, state |-> s]
      /\ \A n \in 1 .. Len(b) : r[n] = Turn(r[n-1], s, b[n])
  BY <1>2, <1>4, RanSteps
<1>6. Len(b) \in Nat /\ \A k \in 1 .. Len(b) : b[k] \in Intent /\ k \in DOMAIN b
  OBVIOUS
<1> DEFINE S == {k \in Int : r[k].ok => Reached(c, r[k].state, Joined(q, b, k))}
<1>7. 0 \in S
  <2>1. r[0].state = s /\ Joined(q, b, 0) = q
    BY <1>4, <1>5, JoinedSteps
  <2> QED
    BY <1>4, <2>1
<1>8. ASSUME NEW k \in 1 .. Len(b), k - 1 \in S PROVE k \in S
  <2> SUFFICES ASSUME r[k].ok PROVE Reached(c, r[k].state, Joined(q, b, k))
    OBVIOUS
  <2>1. r[k] = Turn(r[k-1], s, b[k])
    BY <1>5
  <2>2. /\ r[k-1].ok /\ CanApply(r[k-1].state, b[k])
        /\ r[k].state = apply_intent(r[k-1].state, b[k])
    BY <2>1 DEF Turn
  <2>3. Reached(c, r[k-1].state, Joined(q, b, k - 1))
    BY <1>8, <2>2
  <2>4. b[k] \in Intent /\ verify_intent_sig(GameOf[c], b[k])
    BY <1>6
  <2>5. Joined(q, b, k) = Append(Joined(q, b, k - 1), b[k])
    BY <1>4, JoinedSteps
  <2> QED
    BY <1>4, <2>2, <2>3, <2>4, <2>5, MoveReaches
<1> HIDE DEF S
<1>9. \A k \in 0 .. Len(b) : k \in S
  BY <1>6, <1>7, <1>8, StepsReach
<1>10. Len(b) \in S
  BY <1>6, <1>9
<1>11. Joined(q, b, Len(b)) = q \o b
  BY <1>4, JoinedSteps
<1>12. r[Len(b)].ok => Reached(c, r[Len(b)].state, q \o b)
  BY <1>10, <1>11 DEF S
<1> QED
  BY <1>1, <1>2, <1>3, <1>12

\* What apply_batch returns for a signed batch: a board that accounts for the moves of
\* the cell and then those of the batch, and counts them all.
LEMMA BatchReaches ==
    ASSUME IndInv, NEW c \in born, NEW b \in Seq(Intent),
           \A i \in DOMAIN b : verify_intent_sig(GameOf[c], b[i]),
           apply_batch(decode(data[c]), b).ok
    PROVE  LET o == apply_batch(decode(data[c]), b).state
               moves == log[c] \o b
           IN  /\ o \in GameState /\ moves \in Seq(Intent)
               /\ Accounted(o, moves) /\ Tallied(o, moves)
               /\ o.seq = Len(moves)
               /\ SignedFor(GameOf[c], moves)
               /\ Continues(c, moves)
<1>1. PICK s : s = decode(data[c])
  OBVIOUS
<1>2. PICK x : x = ran(s, b)[Len(b)]
  OBVIOUS
<1>3. PICK moves : moves = log[c] \o b
  OBVIOUS
<1>4. apply_batch(s, b) = IF x.ok /\ s.seq + Len(b) <= U64_MAX
                          THEN [ok |-> TRUE, state |-> [x.state EXCEPT !.seq = s.seq + Len(b)]]
                          ELSE [ok |-> FALSE, state |-> s]
  BY <1>2 DEF apply_batch
<1>5. x.ok /\ s.seq + Len(b) <= U64_MAX
  BY <1>1, <1>4
<1>6. Reached(c, x.state, moves)
  BY <1>1, <1>2, <1>3, <1>5, LoopReaches
<1>7. PICK o : o = [x.state EXCEPT !.seq = s.seq + Len(b)]
  OBVIOUS
<1>8. apply_batch(s, b).state = o
  BY <1>4, <1>5, <1>7
<1>9. log[c] \in Seq(Intent) /\ s.seq = Len(log[c]) /\ s.seq \in Nat
  BY <1>1, RulesAssumption DEF IndInv, TypeOK, U64
<1>10. Len(moves) = s.seq + Len(b) /\ s.seq + Len(b) \in U64
  BY <1>3, <1>5, <1>9, RulesAssumption DEF U64
<1>11. o \in GameState /\ o.players = x.state.players /\ o.seq = Len(moves)
  <2>1. x.state \in GameState
    BY <1>6 DEF Reached
  <2> QED
    BY <1>7, <1>10, <2>1 DEF GameState
<1>12. Accounted(o, moves) /\ Tallied(o, moves)
  BY <1>6, <1>11 DEF Reached, Accounted, DistinctPlayers, Tallied
<1>13. moves \in Seq(Intent) /\ SignedFor(GameOf[c], moves) /\ Continues(c, moves)
  BY <1>6 DEF Reached
<1> QED
  BY <1>1, <1>3, <1>8, <1>11, <1>12, <1>13

-----------------------------------------------------------------------------
(***************************************************************************)
(* The inductive invariant.                                                *)
(***************************************************************************)

\* The empty board is accounted for by no moves.
LEMMA EmptyAccounted ==
    ASSUME NEW s, s.players = << >>, NEW moves, moves = << >>
    PROVE  Accounted(s, moves)
BY DEF Accounted, DistinctPlayers

\* No moves need no tally.
LEMMA EmptyTallied ==
    ASSUME NEW s, s.players = << >>, NEW moves, moves = << >>
    PROVE  Tallied(s, moves)
BY DEF Tallied

\* The invariant holds before any genesis.
LEMMA InitIndInv == Init => IndInv
BY RulesAssumption DEF Init, IndInv, TypeOK, CellData, U64

\* What IndInv asks of a cell that is on chain.
CellInv(c) ==
    LET s == decode(data[c])
    IN  /\ Decodes(data[c])
        /\ Accounted(s, log[c])
        /\ Tallied(s, log[c])
        /\ s.seq = Len(log[c])
        /\ SignedFor(GameOf[c], log[c])

\* A step that gives cell c the data d and these moves keeps the invariant if they
\* go together.
LEMMA CellStep ==
    ASSUME IndInv, NEW c \in Cell, NEW d \in CellData, NEW moves \in Seq(Intent),
           born' = born \cup {c},
           data' = [data EXCEPT ![c] = d],
           log' = [log EXCEPT ![c] = moves],
           Decodes(d), Accounted(decode(d), moves), Tallied(decode(d), moves),
           decode(d).seq = Len(moves), SignedFor(GameOf[c], moves)
    PROVE  IndInv'
<1>1. /\ TypeOK
      /\ data \in [Cell -> CellData] /\ log \in [Cell -> Seq(Intent)] /\ born \subseteq Cell
      /\ \A k \in born : CellInv(k)
  BY DEF IndInv, TypeOK, CellInv
<1>2. /\ data'[c] = d /\ log'[c] = moves
      /\ \A k \in Cell \ {c} : data'[k] = data[k] /\ log'[k] = log[k]
  BY <1>1
<1>3. decode(d) \in GameState
  BY DecodeType
<1>4. TypeOK'
  <2>1. Len(moves) \in U64
    BY <1>3 DEF GameState
  <2>2. \A k \in Cell : Len(log'[k]) \in U64
    BY <1>1, <1>2, <2>1 DEF TypeOK
  <2> QED
    BY <1>1, <2>2 DEF TypeOK
<1>5. \A k \in Cell \ born' : log'[k] = << >>
  BY <1>2 DEF IndInv
<1>6. ASSUME NEW k \in born' PROVE CellInv(k)'
  <2>1. CASE k = c
    BY <1>2, <2>1 DEF CellInv
  <2>2. CASE k # c
    <3>1. k \in born /\ data'[k] = data[k] /\ log'[k] = log[k]
      BY <1>1, <1>2, <2>2
    <3> QED
      BY <1>1, <3>1 DEF CellInv
  <2> QED
    BY <2>1, <2>2
<1> QED
  BY <1>4, <1>5, <1>6 DEF IndInv, CellInv

\* Creating a cell.
LEMMA GenesisIndInv ==
    ASSUME IndInv, NEW c \in Cell, NEW d \in Data, verify_genesis(c, d)
    PROVE  IndInv'
<1>1. /\ d \in CellData /\ Decodes(d) /\ decode(d).seq = 0 /\ decode(d).players = << >>
      /\ born' = born \cup {c} /\ data' = [data EXCEPT ![c] = d] /\ log' = log /\ c \notin born
  BY CellAssumption DEF verify_genesis
<1>2. PICK none : none = << >>
  OBVIOUS
<1>3. log' = [log EXCEPT ![c] = none]
  <2>1. log[c] = none /\ log \in [Cell -> Seq(Intent)]
    BY <1>1, <1>2 DEF IndInv, TypeOK
  <2> QED
    BY <1>1, <2>1
<1>4. SignedFor(GameOf[c], none) /\ none \in Seq(Intent) /\ Len(none) = 0
  BY <1>2 DEF SignedFor
<1>5. Accounted(decode(d), none) /\ Tallied(decode(d), none)
  BY <1>1, <1>2, EmptyAccounted, EmptyTallied
<1>6. decode(d).seq = Len(none)
  BY <1>1, <1>4
<1> QED
  BY <1>1, <1>3, <1>4, <1>5, <1>6, CellStep

\* A transition: the output carries the computed board, in some order.
LEMMA TransitionIndInv ==
    ASSUME IndInv, NEW c \in Cell, NEW b \in Batch, verify_transition(c, b)
    PROVE  IndInv'
<1>1. PICK o : o = apply_batch(decode(data[c]), b).state
  OBVIOUS
<1>2. PICK d \in Data : /\ Decodes(d)
                        /\ equals_unordered(o, decode(d))
                        /\ data' = [data EXCEPT ![c] = d]
  BY <1>1 DEF verify_transition
<1>3. PICK moves : moves = log[c] \o b
  OBVIOUS
<1>4. /\ c \in born /\ born' = born /\ d \in CellData /\ b \in Seq(Intent)
      /\ \A i \in DOMAIN b : verify_intent_sig(GameOf[c], b[i])
      /\ apply_batch(decode(data[c]), b).ok
      /\ log' = [log EXCEPT ![c] = moves]
  BY <1>3, CellAssumption DEF verify_transition
<1>5. /\ o \in GameState /\ moves \in Seq(Intent)
      /\ Accounted(o, moves) /\ Tallied(o, moves) /\ o.seq = Len(moves)
      /\ SignedFor(GameOf[c], moves)
  BY <1>1, <1>3, <1>4, BatchReaches
<1>6. decode(d) \in GameState /\ DistinctPlayers(o)
  BY <1>2, <1>4, <1>5, DecodeType DEF Accounted
<1>7. Accounted(decode(d), moves) /\ Tallied(decode(d), moves)
  BY <1>2, <1>5, <1>6, ReorderKeepsAccounted, ReorderKeepsTallied
<1>8. decode(d).seq = Len(moves)
  BY <1>2, <1>5 DEF equals_unordered
<1>9. born' = born \cup {c}
  BY <1>4
<1> QED
  BY <1>2, <1>4, <1>5, <1>7, <1>8, <1>9, CellStep

\* Every transaction the script lets through keeps the invariant.
LEMMA NextIndInv == IndInv /\ [Next]_vars => IndInv'
<1> SUFFICES ASSUME IndInv, [Next]_vars PROVE IndInv'
  OBVIOUS
<1>1. ASSUME NEW c \in Cell, NEW d \in Data, verify_genesis(c, d) PROVE IndInv'
  BY <1>1, GenesisIndInv
<1>2. ASSUME NEW c \in Cell, NEW b \in Batch, verify_transition(c, b) PROVE IndInv'
  BY <1>2, TransitionIndInv
<1>3. CASE UNCHANGED vars
  <2>1. TypeOK'
    BY <1>3 DEF IndInv, TypeOK, vars
  <2> QED
    BY <1>3, <2>1 DEF IndInv, vars
<1> QED
  BY <1>1, <1>2, <1>3 DEF Next

\* In every behaviour the committed boards are accounted for, entry by entry, by
\* signed, unrepeated moves.
THEOREM GameCellInductive == Spec => []IndInv
BY InitIndInv, NextIndInv, PTL DEF Spec

\* Type correctness of the game-cell model.
THEOREM GameCellTypeOK == Spec => []TypeOK
<1>1. IndInv => TypeOK
  BY DEF IndInv
<1>2. QED
  BY <1>1, GameCellInductive, PTL

\* A board never lists a player twice: verify_transition's one-directional
\* comparison is sound from genesis on.
THEOREM GameCellUniquePlayers == Spec => []UniquePlayers
<1>1. IndInv => UniquePlayers
  BY DEF IndInv, UniquePlayers, Accounted
<1>2. QED
  BY <1>1, GameCellInductive, PTL

\* The nonce rule of apply_intent is an anti-replay rule: a cell never counts
\* the same (player, nonce) twice.
THEOREM GameCellNoReplay == Spec => []NoReplay
<1>1. IndInv => NoReplay
  <2> SUFFICES ASSUME IndInv, NEW c \in Cell PROVE
        \A i, j \in DOMAIN log[c] :
          log[c][i].hash = log[c][j].hash /\ log[c][i].nonce = log[c][j].nonce => i = j
    BY DEF NoReplay
  <2>1. CASE c \in born
    BY <2>1 DEF IndInv, Accounted
  <2>2. CASE c \notin born
    BY <2>2 DEF IndInv
  <2>3. QED
    BY <2>1, <2>2
<1>2. QED
  BY <1>1, GameCellInductive, PTL

\* Every counted move carries a signature over this game and this very move.
THEOREM GameCellOnlySigned == Spec => []OnlySignedMoves
<1>1. IndInv => OnlySignedMoves
  <2> SUFFICES ASSUME IndInv, NEW c \in Cell PROVE SignedFor(GameOf[c], log[c])
    BY DEF OnlySignedMoves, SignedFor, intent_message
  <2>1. CASE c \in born
    BY <2>1 DEF IndInv
  <2>2. CASE c \notin born
    BY <2>2 DEF IndInv, SignedFor
  <2>3. QED
    BY <2>1, <2>2
<1>2. QED
  BY <1>1, GameCellInductive, PTL

\* seq is the number of moves the cell has accepted.
THEOREM GameCellSeqCounts == Spec => []SeqCountsMoves
<1>1. IndInv => SeqCountsMoves
  BY DEF IndInv, SeqCountsMoves
<1>2. QED
  BY <1>1, GameCellInductive, PTL

-----------------------------------------------------------------------------
(***************************************************************************)
(* The board is the log, and the cells implement the ledger.               *)
(***************************************************************************)

\* The board apply_intent leaves is a function of the moves: the nonce of a player is
\* how many of their moves the cell has accepted, the score what those were worth.
THEOREM GameCellBoardIsLog == Spec => []BoardIsLog
<1>1. IndInv => BoardIsLog
  <2> SUFFICES ASSUME IndInv, NEW c \in born, NEW h \in Player
               PROVE  LET s == decode(data[c])
                      IN  /\ NonceOnBoard(s, h) = MovesBy(log[c], h)
                          /\ HasPlayer(s, h) =>
                               s.players[PlayerIndex(s, h)].score = PointsIn(log[c], h)
    BY DEF BoardIsLog
  <2> DEFINE s == decode(data[c])
  <2>1. /\ data[c] \in CellData /\ Decodes(data[c]) /\ log[c] \in Seq(Intent)
        /\ Accounted(s, log[c]) /\ Tallied(s, log[c])
    BY DEF IndInv, TypeOK
  <2>2. s \in GameState /\ DistinctPlayers(s)
    BY <2>1, DecodeType DEF Accounted
  <2> HIDE DEF s
  <2>3. CASE HasPlayer(s, h)
    <3>1. /\ PlayerIndex(s, h) \in DOMAIN s.players
          /\ s.players[PlayerIndex(s, h)].hash = h
      BY <2>2, <2>3, PlayerIndexUnique DEF GameState
    <3> QED
      BY <2>1, <2>3, <3>1 DEF Tallied, NonceOnBoard, s
  <2>4. CASE ~ HasPlayer(s, h)
    BY <2>1, <2>2, <2>4, NoEntryNoMoves DEF NonceOnBoard, s
  <2> QED
    BY <2>3, <2>4
<1> QED
  BY <1>1, GameCellInductive, PTL

\* A transition is a step of the ledger, unless its batch is empty.
LEMMA TransitionAdvances ==
    ASSUME IndInv, NEW c \in Cell, NEW b \in Batch, verify_transition(c, b)
    PROVE  Ledger!Next \/ log' = log
<1>1. PICK moves : moves = log[c] \o b
  OBVIOUS
<1>2. /\ c \in born /\ b \in Seq(Intent) /\ log' = [log EXCEPT ![c] = moves]
      /\ \A i \in DOMAIN b : verify_intent_sig(GameOf[c], b[i])
      /\ apply_batch(decode(data[c]), b).ok
      /\ log \in [Cell -> Seq(Intent)]
  BY <1>1, CellAssumption DEF verify_transition, IndInv, TypeOK
<1>3. moves \in Seq(Intent) /\ Continues(c, moves)
  BY <1>1, <1>2, BatchReaches
<1> DEFINE l == Len(log[c])
<1>4. /\ l <= Len(moves) /\ SubSeq(moves, 1, l) = log[c]
      /\ \A k \in l + 1 .. Len(moves) : Ledger!LegalMove(c, moves, k)
  BY <1>3 DEF Continues
<1>5. l \in Nat /\ Len(moves) \in Nat
  BY <1>2, <1>3
<1>6. log'[c] = moves /\ \A e \in Cell \ {c} : log'[e] = log[e]
  BY <1>2
<1>7. CASE l = Len(moves)
  <2>1. SubSeq(moves, 1, Len(moves)) = moves
    BY <1>3
  <2>2. log[c] = moves
    BY <1>4, <1>7, <2>1
  <2> QED
    BY <1>2, <2>2
<1>8. CASE l < Len(moves)
  <2>1. Ledger!Advance(c)
    BY <1>4, <1>6, <1>8 DEF Ledger!Advance
  <2> QED
    BY <2>1 DEF Ledger!Next
<1> QED
  BY <1>4, <1>5, <1>7, <1>8

\* The cells implement the ledger: verify_genesis and verify_transition let through no
\* transaction that is not an append of signed, gaplessly numbered, capped moves to one log.
THEOREM GameCellImplementsLedger == Spec => LedgerSpec
<1>1. Init => Ledger!Init
  BY DEF Init, Ledger!Init
<1>2. IndInv /\ [Next]_vars => [Ledger!Next]_log
  <2> SUFFICES ASSUME IndInv, [Next]_vars PROVE Ledger!Next \/ log' = log
    OBVIOUS
  <2>1. ASSUME NEW c \in Cell, NEW b \in Batch, verify_transition(c, b)
        PROVE  Ledger!Next \/ log' = log
    BY <2>1, TransitionAdvances
  <2>2. CASE (\E c \in Cell : \E d \in Data : verify_genesis(c, d)) \/ UNCHANGED vars
    BY <2>2 DEF verify_genesis, vars
  <2> QED
    BY <2>1, <2>2 DEF Next
<1> QED
  BY <1>1, <1>2, GameCellInductive, PTL DEF Spec, LedgerSpec, Ledger!Spec
=============================================================================
