--------------------------- MODULE OperatorProofs ---------------------------
(***************************************************************************)
(* Theorems about Operator for any players, budgets of faults and bounds:  *)
(* type correctness, that the queue applies to the tip, that the tip is a  *)
(* cell the node accepted and, undisturbed, the newest one, and that every *)
(* acknowledged move is counted.                                           *)
(***************************************************************************)
EXTENDS Operator, DataLemmas, SequenceTheorems

-----------------------------------------------------------------------------
(***************************************************************************)
(* One move.  Nothing here asks that a board lists nobody twice: find()    *)
(* takes the first entry.                                                  *)
(***************************************************************************)
\* The fields of an entry and of an intent are numbers.
LEMMA FieldTypes ==
    /\ U64 \subseteq Nat /\ 0 \in U64 /\ 1 \in U64
    /\ \A e \in PlayerEntry : e.nonce \in Nat /\ e.score \in Nat
    /\ \A m \in Intent : m.nonce \in U64 /\ m.points \in U64
BY RulesAssumption DEF U64, PlayerEntry, Intent

\* k is the first entry of h.
IsFirst(s, h, k) ==
    /\ k \in DOMAIN s.players
    /\ s.players[k].hash = h
    /\ \A j \in DOMAIN s.players : s.players[j].hash = h => k <= j

\* Whoever is on the board has a first entry, and find() returns it.
LEMMA PlayerIndexFirst ==
    ASSUME NEW s \in GameState, NEW h, HasPlayer(s, h)
    PROVE  IsFirst(s, h, PlayerIndex(s, h))
<1> DEFINE S == {i \in DOMAIN s.players : s.players[i].hash = h}
<1>1. DOMAIN s.players \subseteq Nat
  BY DEF GameState
<1>2. S \in SUBSET Nat /\ S # {}
  BY <1>1 DEF HasPlayer
<1> HIDE DEF S
<1>3. Min(S) \in S /\ \A y \in S : Min(S) <= y
  BY <1>2, MinIsLeast
<1>4. IsFirst(s, h, Min(S))
  BY <1>3 DEF S, IsFirst
<1> QED
  BY <1>4 DEF PlayerIndex, IsFirst

\* There is only one first entry.
LEMMA FirstIsIndex ==
    ASSUME NEW s \in GameState, NEW h, NEW k, IsFirst(s, h, k)
    PROVE  HasPlayer(s, h) /\ PlayerIndex(s, h) = k
<1>1. HasPlayer(s, h)
  BY DEF HasPlayer, IsFirst
<1>2. IsFirst(s, h, PlayerIndex(s, h))
  BY <1>1, PlayerIndexFirst
<1>3. DOMAIN s.players \subseteq Nat
  BY DEF GameState
<1> QED
  BY <1>1, <1>2, <1>3 DEF IsFirst

\* The nonce a board shows for h: that of the first entry.
LEMMA NonceOnFirst ==
    ASSUME NEW s \in GameState, NEW h
    PROVE  /\ NonceOn(s, h) \in U64
           /\ \A k : IsFirst(s, h, k) => NonceOn(s, h) = s.players[k].nonce
           /\ ~ HasPlayer(s, h) => NonceOn(s, h) = 0
<1>1. ASSUME HasPlayer(s, h) PROVE NonceOn(s, h) \in U64
  <2>1. PlayerIndex(s, h) \in DOMAIN s.players
    BY <1>1, PlayerIndexFirst DEF IsFirst
  <2>2. s.players[PlayerIndex(s, h)] \in PlayerEntry
    BY <2>1 DEF GameState
  <2> QED
    BY <1>1, <2>2 DEF NonceOn, PlayerEntry
<1>2. ~ HasPlayer(s, h) => NonceOn(s, h) = 0
  BY DEF NonceOn
<1>3. \A k : IsFirst(s, h, k) => NonceOn(s, h) = s.players[k].nonce
  BY FirstIsIndex DEF NonceOn
<1> QED
  BY <1>1, <1>2, <1>3, FieldTypes

\* A move that applies to a board leaves a board on which the mover's nonce is one
\* higher and everybody else's is what it was.
LEMMA ApplyIntentNonces ==
    ASSUME NEW s \in GameState, NEW m \in Intent, CanApply(s, m)
    PROVE  /\ apply_intent(s, m) \in GameState
           /\ \A h : NonceOn(apply_intent(s, m), h) =
                       NonceOn(s, h) + IF h = m.hash THEN 1 ELSE 0
<1> DEFINE o == apply_intent(s, m)
           n == Len(s.players)
<1>0. /\ s.players \in Seq(PlayerEntry) /\ n \in Nat /\ DOMAIN s.players = 1 .. n
      /\ \A i \in 1 .. n : s.players[i] \in PlayerEntry
  BY DEF GameState
<1>1. CASE HasPlayer(s, m.hash)
  <2> DEFINE k == PlayerIndex(s, m.hash)
             e == [s.players[k] EXCEPT !.score = s.players[k].score + m.points, !.nonce = m.nonce]
  <2>1. IsFirst(s, m.hash, k) /\ k \in 1 .. n /\ s.players[k].hash = m.hash
    BY <1>0, <1>1, PlayerIndexFirst DEF IsFirst
  <2>2. s.players[k] \in PlayerEntry
    BY <1>0, <2>1
  <2>3. /\ s.players[k].nonce + 1 <= U64_MAX /\ m.nonce = s.players[k].nonce + 1
        /\ s.players[k].score + m.points <= U64_MAX
    BY <1>1 DEF CanApply
  <2>4. s.players[k].score + m.points \in U64 /\ m.nonce \in U64
    BY <2>2, <2>3, FieldTypes, RulesAssumption DEF U64
  <2>5. e \in PlayerEntry /\ e.hash = m.hash /\ e.nonce = s.players[k].nonce + 1
    BY <2>1, <2>2, <2>3, <2>4 DEF PlayerEntry
  <2>6. o = [s EXCEPT !.players = [s.players EXCEPT ![k] = e]]
    BY <1>1 DEF apply_intent
  <2> HIDE DEF e, k
  <2>7. [s.players EXCEPT ![k] = e] \in Seq(PlayerEntry)
    BY <1>0, <2>1, <2>5
  <2>8. o \in GameState /\ o.players = [s.players EXCEPT ![k] = e]
    BY <2>6, <2>7 DEF GameState
  <2> HIDE DEF o
  <2>9. /\ DOMAIN o.players = 1 .. n
        /\ \A i \in 1 .. n : o.players[i] = IF i = k THEN e ELSE s.players[i]
    BY <1>0, <2>1, <2>8
  <2>10. \A i \in 1 .. n : o.players[i].hash = s.players[i].hash
    BY <2>1, <2>5, <2>9
  <2>11. \A h, i : IsFirst(o, h, i) <=> IsFirst(s, h, i)
    BY <1>0, <2>9, <2>10 DEF IsFirst
  <2>12. ASSUME NEW h PROVE NonceOn(o, h) = NonceOn(s, h) + IF h = m.hash THEN 1 ELSE 0
    <3>0. NonceOn(s, h) \in Nat
      BY NonceOnFirst, FieldTypes
    <3>1. CASE h = m.hash
      <4>1. NonceOn(o, h) = o.players[k].nonce /\ NonceOn(s, h) = s.players[k].nonce
        BY <2>1, <2>8, <2>11, <3>1, NonceOnFirst
      <4> QED
        BY <2>1, <2>5, <2>9, <3>1, <4>1
    <3>2. CASE h # m.hash /\ HasPlayer(s, h)
      <4>1. PICK i : i = PlayerIndex(s, h)
        OBVIOUS
      <4>2. IsFirst(s, h, i) /\ i \in 1 .. n /\ s.players[i].hash = h
        BY <1>0, <3>2, <4>1, PlayerIndexFirst DEF IsFirst
      <4>3. NonceOn(o, h) = o.players[i].nonce /\ NonceOn(s, h) = s.players[i].nonce
        BY <2>8, <2>11, <4>2, NonceOnFirst
      <4>4. o.players[i] = s.players[i]
        BY <2>1, <2>9, <3>2, <4>2
      <4> QED
        BY <3>0, <3>2, <4>3, <4>4
    <3>3. CASE h # m.hash /\ ~ HasPlayer(s, h)
      <4>1. ~ HasPlayer(o, h)
        BY <1>0, <2>9, <2>10, <3>3 DEF HasPlayer
      <4> QED
        BY <2>8, <3>3, <4>1, NonceOnFirst
    <3> QED
      BY <3>1, <3>2, <3>3
  <2> QED
    BY <2>8, <2>12 DEF o
<1>2. CASE ~ HasPlayer(s, m.hash)
  <2> DEFINE e == [hash |-> m.hash, score |-> m.points, nonce |-> 1]
  <2>1. e \in PlayerEntry /\ e.hash = m.hash /\ e.nonce = 1
    BY FieldTypes DEF PlayerEntry, Intent
  <2>2. o = [s EXCEPT !.players = Append(s.players, e)]
    BY <1>2 DEF apply_intent
  <2> HIDE DEF e, o
  <2>21. Append(s.players, e) \in Seq(PlayerEntry)
    BY <1>0, <2>1
  <2>22. s \in [seq : U64, players : Seq(PlayerEntry)]
    BY DEF GameState
  <2>3. o \in GameState /\ o.players = Append(s.players, e)
    BY <2>2, <2>21, <2>22 DEF GameState
  <2>4. /\ DOMAIN o.players = 1 .. n + 1 /\ o.players[n + 1] = e
        /\ \A i \in 1 .. n : o.players[i] = s.players[i]
    BY <1>0, <2>1, <2>3
  <2> HIDE DEF n
  <2>5. \A i : i \in 1 .. n + 1 <=> (i \in 1 .. n \/ i = n + 1)
    BY <1>0
  <2>6. ASSUME NEW h PROVE NonceOn(o, h) = NonceOn(s, h) + IF h = m.hash THEN 1 ELSE 0
    <3>0. NonceOn(s, h) \in Nat
      BY NonceOnFirst, FieldTypes
    <3>1. CASE h = m.hash
      <4>1. \A i \in 1 .. n : o.players[i].hash # h
        BY <1>0, <1>2, <2>4, <3>1 DEF HasPlayer
      <4>2. IsFirst(o, h, n + 1)
        BY <1>0, <2>1, <2>4, <2>5, <3>1, <4>1 DEF IsFirst
      <4>3. NonceOn(o, h) = 1
        BY <2>1, <2>3, <2>4, <4>2, NonceOnFirst
      <4>4. NonceOn(s, h) = 0
        BY <1>2, <3>1, NonceOnFirst
      <4> QED
        BY <3>1, <4>3, <4>4
    <3>2. CASE h # m.hash /\ HasPlayer(s, h)
      <4>1. PICK i : i = PlayerIndex(s, h)
        OBVIOUS
      <4>2. /\ IsFirst(s, h, i) /\ i \in 1 .. n /\ s.players[i].hash = h
            /\ \A j \in 1 .. n : s.players[j].hash = h => i <= j
        BY <1>0, <3>2, <4>1, PlayerIndexFirst DEF IsFirst
      <4>3. IsFirst(o, h, i)
        BY <1>0, <2>1, <2>4, <2>5, <3>2, <4>2 DEF IsFirst
      <4>4. NonceOn(o, h) = o.players[i].nonce /\ NonceOn(s, h) = s.players[i].nonce
        BY <2>3, <4>2, <4>3, NonceOnFirst
      <4>5. o.players[i] = s.players[i]
        BY <2>4, <4>2
      <4> QED
        BY <3>0, <3>2, <4>4, <4>5
    <3>3. CASE h # m.hash /\ ~ HasPlayer(s, h)
      <4>1. ~ HasPlayer(o, h)
        BY <1>0, <2>1, <2>4, <2>5, <3>3 DEF HasPlayer
      <4> QED
        BY <2>3, <3>3, <4>1, NonceOnFirst
    <3> QED
      BY <3>1, <3>2, <3>3
  <2> QED
    BY <2>3, <2>6 DEF o
<1> QED
  BY <1>1, <1>2

\* seq plays no part in whether a move applies and in the nonces.
LEMMA SeqPlaysNoPart ==
    ASSUME NEW s \in GameState, NEW t \in GameState, s.players = t.players
    PROVE  /\ \A m : CanApply(s, m) <=> CanApply(t, m)
           /\ \A h : NonceOn(s, h) = NonceOn(t, h)
<1>1. \A h : (HasPlayer(s, h) <=> HasPlayer(t, h)) /\ PlayerIndex(s, h) = PlayerIndex(t, h)
  BY DEF HasPlayer, PlayerIndex
<1> QED
  BY <1>1 DEF CanApply, NonceOn

-----------------------------------------------------------------------------
(***************************************************************************)
(* A batch.                                                                *)
(***************************************************************************)
\* r is the loop of apply_batch(s, b).
IsRan(r, s, b) ==
    r = [n \in 0 .. Len(b) |->
            IF n = 0 THEN [ok |-> TRUE, state |-> s]
            ELSE IF r[n-1].ok /\ CanApply(r[n-1].state, b[n])
                 THEN [ok |-> TRUE, state |-> apply_intent(r[n-1].state, b[n])]
                 ELSE [ok |-> FALSE, state |-> s]]

\* One turn of it.
Turn(x, s, m) ==
    IF x.ok /\ CanApply(x.state, m)
    THEN [ok |-> TRUE, state |-> apply_intent(x.state, m)] ELSE [ok |-> FALSE, state |-> s]

TurnResult == [ok : BOOLEAN, state : GameState]

\* A turn leaves a board.
LEMMA TurnType ==
    ASSUME NEW x \in TurnResult, NEW s \in GameState, NEW m \in Intent
    PROVE  Turn(x, s, m) \in TurnResult
<1>1. x.state \in GameState
  BY DEF TurnResult
<1>2. CASE x.ok /\ CanApply(x.state, m)
  <2>1. apply_intent(x.state, m) \in GameState
    BY <1>1, <1>2, ApplyIntentNonces
  <2> QED
    BY <1>2, <2>1 DEF Turn, TurnResult
<1>3. CASE ~ (x.ok /\ CanApply(x.state, m))
  BY <1>3 DEF Turn, TurnResult
<1> QED
  BY <1>2, <1>3

\* The loop starts from the board and takes one turn per intent.
LEMMA RanSteps ==
    ASSUME NEW s \in GameState, NEW b \in Seq(Intent)
    PROVE  /\ ran(s, b)[0] = [ok |-> TRUE, state |-> s]
           /\ \A n \in 0 .. Len(b) : ran(s, b)[n] \in TurnResult
           /\ \A n \in 1 .. Len(b) : ran(s, b)[n] = Turn(ran(s, b)[n-1], s, b[n])
<1> DEFINE L == Len(b)
           a == [ok |-> TRUE, state |-> s]
           step == [k \in 1 .. L |-> [x \in TurnResult |-> Turn(x, s, b[k])]]
<1>0. L \in Nat /\ \A k \in 1 .. L : b[k] \in Intent
  OBVIOUS
<1>1. a \in TurnResult
  BY DEF TurnResult
<1>2. \A k \in 1 .. L : \A x \in TurnResult :
        step[k][x] \in TurnResult /\ step[k][x] = Turn(x, s, b[k])
  BY <1>0, TurnType
<1> HIDE DEF step, L, a
<1>3. PICK g : Takes(g, L, TurnResult, a, step)
  BY <1>0, <1>1, <1>2, StepsExist
<1>4. /\ g \in [0 .. L -> TurnResult] /\ g[0] = a
      /\ \A n \in 1 .. L : g[n] = Turn(g[n-1], s, b[n])
  <2>1. ASSUME NEW n \in 1 .. L PROVE g[n] = Turn(g[n-1], s, b[n])
    <3>1. n - 1 \in 0 .. L
      BY <1>0
    <3>2. g[n-1] \in TurnResult
      BY <1>3, <3>1 DEF Takes
    <3> QED
      BY <1>2, <1>3, <3>2 DEF Takes
  <2> QED
    BY <1>3, <2>1 DEF Takes
<1>5. IsRan(g, s, b)
  <2>1. \A n \in 0 .. L : n # 0 => n \in 1 .. L
    BY <1>0
  <2>2. \A n \in 0 .. L : g[n] = IF n = 0 THEN a ELSE Turn(g[n-1], s, b[n])
    BY <1>4, <2>1
  <2>3. g = [n \in 0 .. L |-> g[n]]
    BY <1>4
  <2>4. g = [n \in 0 .. L |-> IF n = 0 THEN a ELSE Turn(g[n-1], s, b[n])]
    BY <2>2, <2>3
  <2> QED
    BY <2>4 DEF IsRan, Turn, a, L
<1>6. PICK r : r = (CHOOSE k : IsRan(k, s, b))
  OBVIOUS
<1>7. IsRan(r, s, b)
  BY <1>5, <1>6
<1>8. ran(s, b) = r
  BY <1>6 DEF ran, IsRan
<1>9. /\ r[0] = a
      /\ \A n \in 1 .. L : r[n] = Turn(r[n-1], s, b[n])
  <2>1. 0 \in 0 .. L /\ \A n \in 1 .. L : n \in 0 .. L /\ n # 0
    BY <1>0
  <2> QED
    BY <1>7, <2>1 DEF IsRan, Turn, L, a
<1>10. \A n \in 0 .. L : r[n] \in TurnResult
  <2> DEFINE S == {k \in Int : r[k] \in TurnResult}
  <2>1. 0 \in S
    BY <1>1, <1>9
  <2>2. ASSUME NEW k \in 1 .. L, k - 1 \in S PROVE k \in S
    <3>1. r[k-1] \in TurnResult /\ b[k] \in Intent
      BY <1>0, <2>2
    <3>2. r[k] = Turn(r[k-1], s, b[k])
      BY <1>9
    <3>3. r[k] \in TurnResult
      BY <3>1, <3>2, TurnType
    <3> QED
      BY <1>0, <3>3
  <2> HIDE DEF S
  <2>3. \A n \in 0 .. L : n \in S
    BY <1>0, <2>1, <2>2, StepsReach
  <2> QED
    BY <2>3 DEF S
<1> QED
  BY <1>8, <1>9, <1>10 DEF a, L

\* One more intent changes nothing of the turns before it.
LEMMA RanAppend ==
    ASSUME NEW s \in GameState, NEW b \in Seq(Intent), NEW m \in Intent
    PROVE  ran(s, Append(b, m))[Len(b) + 1] = Turn(ran(s, b)[Len(b)], s, m)
<1> DEFINE t == Append(b, m)
           L == Len(b)
           f == ran(s, b)
           g == ran(s, t)
<1>1. /\ t \in Seq(Intent) /\ Len(t) = L + 1 /\ L \in Nat
      /\ t[L + 1] = m /\ \A i \in 1 .. L : t[i] = b[i]
  OBVIOUS
<1> HIDE DEF t
<1>2. f[0] = g[0] /\ \A n \in 1 .. L : f[n] = Turn(f[n-1], s, b[n])
  <2>1. f[0] = [ok |-> TRUE, state |-> s] /\ \A n \in 1 .. L : f[n] = Turn(f[n-1], s, b[n])
    BY RanSteps
  <2>2. g[0] = [ok |-> TRUE, state |-> s]
    BY <1>1, RanSteps
  <2> HIDE DEF f, g, L
  <2> QED
    BY <2>1, <2>2
<1>3. \A n \in 1 .. L + 1 : g[n] = Turn(g[n-1], s, t[n])
  <2>1. \A n \in 1 .. Len(t) : g[n] = Turn(g[n-1], s, t[n])
    BY <1>1, RanSteps
  <2> QED
    BY <1>1, <2>1
<1> HIDE DEF f, g, L
<1>4. f[L] = g[L]
  <2> DEFINE S == {k \in Int : f[k] = g[k]}
  <2>1. 0 \in S
    BY <1>2
  <2>2. ASSUME NEW k \in 1 .. L, k - 1 \in S PROVE k \in S
    <3>1. k \in 1 .. L + 1 /\ t[k] = b[k] /\ f[k-1] = g[k-1]
      BY <1>1, <2>2
    <3>2. f[k] = Turn(f[k-1], s, b[k]) /\ g[k] = Turn(g[k-1], s, t[k])
      BY <1>2, <1>3, <3>1
    <3> QED
      BY <1>1, <3>1, <3>2
  <2> HIDE DEF S
  <2>3. \A n \in 0 .. L : n \in S
    BY <1>1, <2>1, <2>2, StepsReach
  <2>4. L \in S
    BY <1>1, <2>3
  <2> QED
    BY <2>4 DEF S
<1>5. L + 1 \in 1 .. L + 1 /\ (L + 1) - 1 = L
  BY <1>1
<1>6. g[L + 1] = Turn(g[(L + 1) - 1], s, t[L + 1])
  BY <1>3, <1>5
<1>7. g[L + 1] = Turn(f[L], s, m)
  BY <1>1, <1>4, <1>5, <1>6
<1> QED
  BY <1>7 DEF t, f, g, L

\* No turn takes a nonce back.
LEMMA RanNonces ==
    ASSUME NEW s \in GameState, NEW b \in Seq(Intent), NEW h
    PROVE  LET last == ran(s, b)[Len(b)]
           IN  NonceOn(s, h) <= NonceOn(last.state, h)
<1> DEFINE L == Len(b)
           f == ran(s, b)
<1>0. L \in Nat /\ \A k \in 1 .. L : b[k] \in Intent
  OBVIOUS
<1>1. /\ f[0] = [ok |-> TRUE, state |-> s]
      /\ \A n \in 0 .. L : f[n] \in TurnResult
      /\ \A n \in 1 .. L : f[n] = Turn(f[n-1], s, b[n])
  BY RanSteps
<1> HIDE DEF f, L
<1> DEFINE S == {k \in Int : NonceOn(s, h) <= NonceOn(f[k].state, h)}
<1>2. NonceOn(s, h) \in Nat
  BY NonceOnFirst, FieldTypes
<1>3. 0 \in S
  BY <1>1, <1>2
<1>4. ASSUME NEW k \in 1 .. L, k - 1 \in S PROVE k \in S
  <2>1. k - 1 \in 0 .. L /\ k \in Int
    BY <1>0
  <2>2. f[k-1].state \in GameState
    BY <1>1, <2>1 DEF TurnResult
  <2>3. NonceOn(f[k-1].state, h) \in Nat /\ NonceOn(s, h) <= NonceOn(f[k-1].state, h)
    BY <1>4, <2>2, NonceOnFirst, FieldTypes
  <2>4. CASE f[k-1].ok /\ CanApply(f[k-1].state, b[k])
    <3>0. f[k] = Turn(f[k-1], s, b[k])
      BY <1>1
    <3>1. f[k].state = apply_intent(f[k-1].state, b[k])
      BY <3>0, <2>4 DEF Turn
    <3>2. \/ NonceOn(f[k].state, h) = NonceOn(f[k-1].state, h) + 1
          \/ NonceOn(f[k].state, h) = NonceOn(f[k-1].state, h) + 0
      BY <1>0, <2>2, <2>4, <3>1, ApplyIntentNonces
    <3>3. NonceOn(s, h) <= NonceOn(f[k].state, h)
      BY <1>2, <2>3, <3>2
    <3> QED
      BY <2>1, <3>3
  <2>5. CASE ~ (f[k-1].ok /\ CanApply(f[k-1].state, b[k]))
    <3>0. f[k] = Turn(f[k-1], s, b[k])
      BY <1>1
    <3>1. f[k].state = s
      BY <2>5, <3>0 DEF Turn
    <3> QED
      BY <1>2, <2>1, <3>1
  <2> QED
    BY <2>4, <2>5
<1> HIDE DEF S
<1>5. \A n \in 0 .. L : n \in S
  BY <1>0, <1>3, <1>4, StepsReach
<1>6. L \in S
  BY <1>0, <1>5
<1> QED
  BY <1>6 DEF S, f, L

\* A batch leaves a board, and no nonce on it is lower than before.
LEMMA BatchBoard ==
    ASSUME NEW s \in GameState, NEW b \in Seq(Intent)
    PROVE  /\ apply_batch(s, b).state \in GameState
           /\ \A h : NonceOn(s, h) <= NonceOn(apply_batch(s, b).state, h)
<1> DEFINE last == ran(s, b)[Len(b)]
<1>1. Len(b) \in Nat /\ Len(b) \in 0 .. Len(b) /\ s.seq \in Nat
  <2>1. s.seq \in U64
    BY DEF GameState
  <2>2. s.seq \in Nat
    BY <2>1, FieldTypes
  <2>3. Len(b) \in Nat
    OBVIOUS
  <2> QED
    BY <2>2, <2>3
<1>2. last \in TurnResult
  BY <1>1, RanSteps
<1>3. \A h : NonceOn(s, h) <= NonceOn(last.state, h) /\ NonceOn(s, h) \in Nat
  BY RanNonces, NonceOnFirst, FieldTypes
<1>4. last.state \in GameState
  BY <1>2 DEF TurnResult
<1> HIDE DEF last
<1>5. CASE last.ok /\ s.seq + Len(b) <= U64_MAX
  <2> DEFINE t == [last.state EXCEPT !.seq = s.seq + Len(b)]
  <2>1. apply_batch(s, b).state = t
    BY <1>5 DEF apply_batch, last
  <2>2. s.seq + Len(b) \in U64
    BY <1>1, <1>5, RulesAssumption DEF U64
  <2>3. t \in GameState /\ t.players = last.state.players
    BY <1>4, <2>2 DEF GameState
  <2> HIDE DEF t
  <2>4. \A h : NonceOn(t, h) = NonceOn(last.state, h)
    BY <1>4, <2>3, SeqPlaysNoPart
  <2> QED
    BY <1>3, <2>1, <2>3, <2>4
<1>6. CASE ~ (last.ok /\ s.seq + Len(b) <= U64_MAX)
  <2>1. apply_batch(s, b).state = s
    BY <1>6 DEF apply_batch, last
  <2> QED
    BY <1>3, <2>1
<1> QED
  BY <1>5, <1>6

\* An empty batch applies.
LEMMA EmptyBatch ==
    ASSUME NEW s \in GameState
    PROVE  apply_batch(s, << >>).ok
<1>1. << >> \in Seq(Intent) /\ Len(<< >>) = 0
  OBVIOUS
<1>2. s.seq + 0 <= U64_MAX
  BY RulesAssumption DEF GameState, U64
<1>3. ran(s, << >>)[0] = [ok |-> TRUE, state |-> s]
  BY <1>1, RanSteps
<1> QED
  BY <1>1, <1>2, <1>3 DEF apply_batch

\* What applies to the board a batch leaves, applies after the batch.
LEMMA BatchExtends ==
    ASSUME NEW s \in GameState, NEW b \in Seq(Intent), NEW m \in Intent,
           apply_batch(s, b).ok, CanApply(apply_batch(s, b).state, m),
           s.seq + Len(Append(b, m)) <= U64_MAX
    PROVE  apply_batch(s, Append(b, m)).ok
<1> DEFINE last == ran(s, b)[Len(b)]
           t == [last.state EXCEPT !.seq = s.seq + Len(b)]
<1>1. Len(b) \in Nat /\ Len(b) \in 0 .. Len(b) /\ s.seq \in Nat
      /\ Len(Append(b, m)) = Len(b) + 1
  <2>1. s.seq \in U64
    BY DEF GameState
  <2>2. s.seq \in Nat
    BY <2>1, FieldTypes
  <2>3. Len(b) \in Nat /\ Len(Append(b, m)) = Len(b) + 1
    OBVIOUS
  <2> QED
    BY <2>2, <2>3
<1>2. last \in TurnResult
  BY <1>1, RanSteps
<1>3. ran(s, Append(b, m))[Len(b) + 1] = Turn(last, s, m)
  BY RanAppend
<1>4. last.state \in GameState
  BY <1>2 DEF TurnResult
<1> HIDE DEF last
<1>5. last.ok /\ s.seq + Len(b) <= U64_MAX
  BY DEF apply_batch, last
<1>6. apply_batch(s, b).state = t
  BY <1>5 DEF apply_batch, last
<1>7. s.seq + Len(b) \in U64
  BY <1>1, <1>5, RulesAssumption DEF U64
<1>8. t \in GameState /\ t.players = last.state.players
  BY <1>4, <1>7 DEF GameState
<1> HIDE DEF t
<1>9. CanApply(last.state, m)
  BY <1>4, <1>6, <1>8, SeqPlaysNoPart
<1>10. ran(s, Append(b, m))[Len(Append(b, m))].ok
  BY <1>1, <1>3, <1>5, <1>9 DEF Turn
<1> QED
  BY <1>10 DEF apply_batch

\* A batch that applies counts its last move.
LEMMA BatchCounts ==
    ASSUME NEW s \in GameState, NEW b \in Seq(Intent), NEW m \in Intent,
           apply_batch(s, Append(b, m)).ok
    PROVE  NonceOn(s, m.hash) + 1 <= NonceOn(apply_batch(s, Append(b, m)).state, m.hash)
<1> DEFINE last == ran(s, b)[Len(b)]
           end == ran(s, Append(b, m))[Len(Append(b, m))]
           t == [end.state EXCEPT !.seq = s.seq + Len(Append(b, m))]
           h == m.hash
<1>1. Len(b) \in Nat /\ Len(b) \in 0 .. Len(b) /\ s.seq \in Nat
      /\ Len(Append(b, m)) = Len(b) + 1
  <2>1. s.seq \in U64
    BY DEF GameState
  <2>2. s.seq \in Nat
    BY <2>1, FieldTypes
  <2>3. Len(b) \in Nat /\ Len(Append(b, m)) = Len(b) + 1
    OBVIOUS
  <2> QED
    BY <2>2, <2>3
<1>2. last.state \in GameState
  BY <1>1, RanSteps DEF TurnResult
<1>3. end = Turn(last, s, m)
  BY <1>1, RanAppend
<1>4. NonceOn(s, h) <= NonceOn(last.state, h)
  BY RanNonces
<1>5. end.ok /\ s.seq + Len(Append(b, m)) <= U64_MAX /\ apply_batch(s, Append(b, m)).state = t
  BY DEF apply_batch
<1> HIDE DEF last, end
<1>6. CanApply(last.state, m) /\ end.state = apply_intent(last.state, m)
  BY <1>3, <1>5 DEF Turn
<1>7. end.state \in GameState /\ NonceOn(end.state, h) = NonceOn(last.state, h) + 1
  BY <1>2, <1>6, ApplyIntentNonces
<1>8. s.seq + Len(Append(b, m)) \in U64
  BY <1>1, <1>5, RulesAssumption DEF U64
<1>9. t \in GameState /\ t.players = end.state.players
  BY <1>7, <1>8 DEF GameState
<1> HIDE DEF t
<1>10. NonceOn(t, h) = NonceOn(end.state, h)
  BY <1>7, <1>9, SeqPlaysNoPart
<1>11. NonceOn(s, h) \in Nat /\ NonceOn(last.state, h) \in Nat
  BY <1>2, NonceOnFirst, FieldTypes
<1> QED
  BY <1>4, <1>5, <1>7, <1>10, <1>11

-----------------------------------------------------------------------------
(***************************************************************************)
(* The inductive invariant in the parts that the steps disturb: what the   *)
(* node has, what the faults have left, the operator, and the pages.       *)
(***************************************************************************)
NodeOK ==
    /\ accepted \in Seq(GameCell)
    /\ committed \in DOMAIN accepted
    /\ pool \in Seq(DOMAIN accepted)

BudgetOK ==
    /\ budget \in [FaultKind -> Nat]
    /\ \A kind \in FaultKind : budget[kind] <= Faults[kind]

Core ==
    /\ NodeOK
    /\ BudgetOK
    /\ tip \in GameTip
    /\ mempool \in Seq(Intent)
    /\ MempoolApplies
    /\ TipIsReal
    /\ InSync

LogOK == logged \subseteq DOMAIN accepted

PagesOK ==
    /\ player \in [Player -> [nonce : Int, pc : {"idle", "moving", "refresh"},
                              snap : {NoSnap} \cup U64]]
    /\ post \in [Player -> [st : {"none", "queued", "ok", "err"}, nonce : U64]]
    /\ orphans \in [Player -> SUBSET U64]
    /\ acks \in [Player -> Nat]

\* These are all of it.
LEMMA IndInvParts ==
    IndInv <=> Core /\ LogOK /\ PagesOK /\ AckedCounted
BY DEF IndInv, TypeOK, Core, NodeOK, BudgetOK, LogOK, PagesOK

\* The moves of p that the newest board counts.
Counted(p) == NonceOn(accepted[newest].state, p)

\* The newest cell is one the node accepted, and what it holds is typed.
LEMMA NewestTypes ==
    NodeOK => /\ newest \in DOMAIN accepted
              /\ Len(accepted) \in Nat /\ DOMAIN accepted = 1 .. Len(accepted)
              /\ \A i \in DOMAIN accepted : /\ accepted[i] \in GameCell
                                            /\ accepted[i].state \in GameState
                                            /\ accepted[i].cap \in Nat
              /\ \A p : Counted(p) \in Nat
<1> SUFFICES ASSUME NodeOK
             PROVE  /\ newest \in DOMAIN accepted
                    /\ Len(accepted) \in Nat /\ DOMAIN accepted = 1 .. Len(accepted)
                    /\ \A i \in DOMAIN accepted : /\ accepted[i] \in GameCell
                                                  /\ accepted[i].state \in GameState
                                                  /\ accepted[i].cap \in Nat
                    /\ \A p : Counted(p) \in Nat
  OBVIOUS
<1>1. newest \in DOMAIN accepted
  <2>1. pool # << >> => pool[Len(pool)] \in DOMAIN accepted
    BY DEF NodeOK
  <2> QED
    BY <2>1 DEF newest, NodeOK
<1>2. Len(accepted) \in Nat /\ DOMAIN accepted = 1 .. Len(accepted)
  BY DEF NodeOK
<1>3. ASSUME NEW i \in DOMAIN accepted
      PROVE  accepted[i] \in GameCell /\ accepted[i].state \in GameState /\ accepted[i].cap \in Nat
  <2>1. accepted[i] \in GameCell
    BY DEF NodeOK
  <2> QED
    BY <2>1 DEF GameCell
<1>4. ASSUME NEW p PROVE Counted(p) \in Nat
  <2>1. accepted[newest].state \in GameState
    BY <1>1, <1>3
  <2> QED
    BY <2>1, NonceOnFirst, FieldTypes DEF Counted
<1> QED
  BY <1>1, <1>2, <1>3, <1>4

\* The moves a board counts are a number.
CountedOK == \A p : Counted(p) \in Nat

LEMMA CountedNat == NodeOK => CountedOK
BY NewestTypes DEF CountedOK

\* send_transaction: the new cell is the newest, and the others stay.
LEMMA AcceptStep ==
    ASSUME NodeOK, NEW cap \in Nat, NEW s \in GameState, NEW b \in Seq(Intent),
           Accept(cap, s, b)
    PROVE  /\ NodeOK'
           /\ newest' = Len(accepted) + 1
           /\ Len(accepted) + 1 \in DOMAIN accepted'
           /\ accepted'[Len(accepted) + 1].state = s /\ accepted'[Len(accepted) + 1].cap = cap
           /\ \A i \in DOMAIN accepted : i \in DOMAIN accepted' /\ accepted'[i] = accepted[i]
<1> DEFINE c == [state |-> s, cap |-> cap, batch |-> b]
           n == Len(accepted)
<1>1. /\ accepted' = Append(accepted, c) /\ pool' = Append(pool, n + 1) /\ committed' = committed
      /\ c \in GameCell /\ c.state = s /\ c.cap = cap
  BY DEF Accept, GameCell
<1> HIDE DEF c
<1>2. accepted \in Seq(GameCell) /\ n \in Nat /\ DOMAIN accepted = 1 .. n
  BY DEF NodeOK
<1>3. accepted' \in Seq(GameCell) /\ DOMAIN accepted' = 1 .. n + 1 /\ accepted'[n + 1] = c
      /\ \A i \in 1 .. n : accepted'[i] = accepted[i]
  BY <1>1, <1>2
<1> HIDE DEF n
<1>4. n + 1 \in DOMAIN accepted' /\ DOMAIN accepted \subseteq DOMAIN accepted'
  BY <1>2, <1>3
<1>5. pool \in Seq(DOMAIN accepted') /\ committed' \in DOMAIN accepted'
  <2>1. pool \in Seq(DOMAIN accepted) /\ committed \in DOMAIN accepted
    BY DEF NodeOK
  <2>2. \A i \in 1 .. Len(pool) : pool[i] \in DOMAIN accepted'
    BY <1>4, <2>1
  <2> QED
    BY <1>1, <1>4, <2>1, <2>2
<1>6. /\ pool' \in Seq(DOMAIN accepted') /\ pool' # << >>
      /\ pool'[Len(pool')] = n + 1
  BY <1>1, <1>4, <1>5
<1>7. newest' = n + 1
  BY <1>6 DEF newest
<1>8. NodeOK'
  BY <1>3, <1>5, <1>6 DEF NodeOK
<1> QED
  BY <1>1, <1>2, <1>3, <1>4, <1>7, <1>8 DEF n

\* A fault leaves less of its kind than there may be, and of the others what
\* there was.
LEMMA FaultStep ==
    ASSUME BudgetOK, NEW kind \in FaultKind, Fault(kind)
    PROVE  /\ BudgetOK'
           /\ budget'[kind] < Faults[kind]
           /\ \A k \in FaultKind \ {kind} : budget'[k] = budget[k]
           /\ Undisturbed' => Undisturbed
<1>0. /\ budget \in [FaultKind -> Nat] /\ budget' = [budget EXCEPT ![kind] = budget[kind] - 1]
      /\ budget[kind] > 0
  BY DEF BudgetOK, Fault
<1>1. Faults \in [FaultKind -> Nat] /\ \A k \in FaultKind : budget[k] <= Faults[k]
  BY OperatorAssumption DEF BudgetOK
<1>2. budget[kind] \in Nat /\ Faults[kind] \in Nat /\ budget[kind] <= Faults[kind]
  BY <1>0, <1>1
<1>3. budget[kind] - 1 \in Nat /\ budget[kind] - 1 < Faults[kind]
  BY <1>0, <1>2
<1>4. budget' \in [FaultKind -> Nat] /\ budget'[kind] = budget[kind] - 1
      /\ \A k \in FaultKind \ {kind} : budget'[k] = budget[k]
  BY <1>0, <1>3
<1>5. BudgetOK'
  <2>1. ASSUME NEW k \in FaultKind PROVE budget'[k] <= Faults[k]
    <3>1. CASE k = kind
      BY <1>2, <1>3, <1>4, <3>1
    <3>2. CASE k # kind
      BY <1>1, <1>4, <3>2
    <3> QED
      BY <3>1, <3>2
  <2> QED
    BY <1>4, <2>1 DEF BudgetOK
<1>6. budget'[kind] < Faults[kind]
  BY <1>3, <1>4
<1>7. ASSUME Undisturbed' PROVE Undisturbed
  <2>1. \A k \in {"unanswered", "restart", "evict", "grow"} : budget'[k] = Faults[k]
    BY <1>7 DEF Undisturbed
  <2>2. kind \notin {"unanswered", "restart", "evict", "grow"}
    BY <1>2, <1>6, <2>1
  <2>3. {"unanswered", "restart", "evict", "grow"} \subseteq FaultKind \ {kind}
    BY <2>2 DEF FaultKind
  <2>4. \A k \in {"unanswered", "restart", "evict", "grow"} : budget'[k] = budget[k]
    BY <1>4, <2>3
  <2> QED
    BY <2>1, <2>4 DEF Undisturbed
<1> QED
  BY <1>4, <1>5, <1>6, <1>7

-----------------------------------------------------------------------------
(***************************************************************************)
(* A flush.                                                                *)
(***************************************************************************)
\* What every step leaves: the operator and the node in order, the log's cells
\* where they were, no move of anybody taken off the newest board.
Keeps ==
    /\ Core'
    /\ DOMAIN accepted \subseteq DOMAIN accepted'
    /\ budget'["evict"] = budget["evict"]
    /\ \A p : Counted(p) <= Counted(p)'

\* No step of this kind touches the node.
LEMMA KeepsWithoutNode ==
    ASSUME Core, Core', UNCHANGED node, budget'["evict"] = budget["evict"]
    PROVE  Keeps
<1>1. accepted' = accepted /\ committed' = committed /\ pool' = pool
  BY DEF node
<1>2. newest' = newest
  BY <1>1 DEF newest
<1>3. \A p : Counted(p)' = Counted(p)
  BY <1>1, <1>2 DEF Counted
<1>4. \A p : Counted(p) \in Nat
  BY NewestTypes DEF Core
<1> QED
  BY <1>1, <1>3, <1>4 DEF Keeps

\* An empty queue applies.
LEMMA EmptyQueue ==
    ASSUME NEW s \in GameState, NEW q, q = << >>
    PROVE  q \in Seq(Intent) /\ (s.seq + Len(q) <= U64_MAX => apply_batch(s, q).ok)
BY EmptyBatch

\* What a transition the node took leaves of the node: the board of the batch is
\* the newest, and the tip was the newest before.
LEMMA BroadcastStep ==
    ASSUME Core, NEW b \in Seq(Intent), Builds(b), SendAccepted(b),
           Accept(tip.cap - FEE, next_state(b), b)
    PROVE  /\ NodeOK'
           /\ tip.cap - FEE \in Nat
           /\ next_state(b) \in GameState
           /\ newest' = Len(accepted) + 1
           /\ tip.out_point = newest /\ tip.state = accepted[newest].state
           /\ Len(accepted) + 1 \in DOMAIN accepted'
           /\ accepted'[Len(accepted) + 1].state = next_state(b)
           /\ accepted'[Len(accepted) + 1].cap = tip.cap - FEE
           /\ \A i \in DOMAIN accepted : i \in DOMAIN accepted' /\ accepted'[i] = accepted[i]
           /\ \A p : /\ Counted(p) = NonceOn(tip.state, p)
                     /\ Counted(p)' = NonceOn(next_state(b), p)
                     /\ Counted(p) <= Counted(p)'
<1>0. NodeOK
  BY DEF Core
<1>1. tip.cap - FEE \in Nat
  <2>1. tip.cap \in Nat
    BY DEF Core, GameTip
  <2>2. FEE \in Nat
    BY OperatorAssumption
  <2>3. tip.cap >= FEE
    BY DEF Builds
  <2> QED
    BY <2>1, <2>2, <2>3
<1>2. tip.state \in GameState
  BY DEF Core, GameTip
<1>3. /\ next_state(b) \in GameState
      /\ \A p : NonceOn(tip.state, p) <= NonceOn(next_state(b), p)
  BY <1>2, BatchBoard DEF next_state
<1>4. tip.out_point = newest /\ tip.state = accepted[newest].state
  <2>1. tip.out_point = newest
    BY DEF SendAccepted, NodeAccepts
  <2> QED
    BY <2>1 DEF Core, TipIsReal
<1>5. PICK s \in GameState : s = next_state(b)
  BY <1>3
<1>6. PICK c \in Nat : c = tip.cap - FEE
  BY <1>1
<1>7. Accept(c, s, b)
  BY <1>5, <1>6
<1>8. /\ NodeOK'
      /\ newest' = Len(accepted) + 1
      /\ Len(accepted) + 1 \in DOMAIN accepted'
      /\ accepted'[Len(accepted) + 1].state = s /\ accepted'[Len(accepted) + 1].cap = c
      /\ \A i \in DOMAIN accepted : i \in DOMAIN accepted' /\ accepted'[i] = accepted[i]
  BY <1>0, <1>7, AcceptStep
<1>9. \A p : Counted(p) = NonceOn(tip.state, p)
  BY <1>4 DEF Counted
<1>10. \A p : Counted(p)' = NonceOn(next_state(b), p)
  BY <1>5, <1>8 DEF Counted
<1> QED
  BY <1>1, <1>3, <1>4, <1>5, <1>6, <1>8, <1>9, <1>10

\* A flush that is answered.
LEMMA FlushDoneKeeps ==
    ASSUME Core, NEW b \in Seq(Intent), FlushDone(b)
    PROVE  Keeps /\ Len(accepted) + 1 \in DOMAIN accepted'
<1>1. /\ Builds(b) /\ SendAccepted(b) /\ Accept(tip.cap - FEE, next_state(b), b)
      /\ tip' = [out_point |-> Len(accepted) + 1, state |-> next_state(b), cap |-> tip.cap - FEE]
      /\ mempool' = << >> /\ budget' = budget
  BY DEF FlushDone
<1>2. /\ NodeOK'
      /\ tip.cap - FEE \in Nat /\ next_state(b) \in GameState
      /\ newest' = Len(accepted) + 1
      /\ Len(accepted) + 1 \in DOMAIN accepted'
      /\ accepted'[Len(accepted) + 1].state = next_state(b)
      /\ accepted'[Len(accepted) + 1].cap = tip.cap - FEE
      /\ \A i \in DOMAIN accepted : i \in DOMAIN accepted' /\ accepted'[i] = accepted[i]
      /\ \A p : Counted(p) <= Counted(p)'
  BY <1>1, BroadcastStep
<1>3. /\ tip'.out_point = Len(accepted) + 1 /\ tip'.state = next_state(b)
      /\ tip'.cap = tip.cap - FEE
  BY <1>1
<1>4. Len(accepted) \in Nat
  BY NewestTypes DEF Core
<1>5. tip' \in GameTip
  BY <1>1, <1>2, <1>4 DEF GameTip
<1>6. BudgetOK'
  BY <1>1 DEF Core, BudgetOK
<1>7. mempool' \in Seq(Intent) /\ MempoolApplies'
  BY <1>1, <1>2, <1>3, EmptyQueue DEF MempoolApplies
<1>8. TipIsReal'
  BY <1>2, <1>3 DEF TipIsReal
<1>9. InSync'
  BY <1>2, <1>3 DEF InSync
<1>10. Core'
  BY <1>2, <1>5, <1>6, <1>7, <1>8, <1>9 DEF Core
<1> QED
  BY <1>1, <1>2, <1>10 DEF Keeps

\* Nothing was broadcast.
LEMMA FlushNotBuiltKeeps ==
    ASSUME Core, NEW b \in Seq(Intent), FlushNotBuilt(b),
           tip.state.seq + Len(b) <= U64_MAX => apply_batch(tip.state, b).ok
    PROVE  Keeps
<1>1. /\ accepted' = accepted /\ committed' = committed /\ pool' = pool
      /\ tip' = tip /\ budget' = budget /\ mempool' = b
  BY DEF FlushNotBuilt, node
<1>2. newest' = newest
  BY <1>1 DEF newest
<1>3. NodeOK' /\ BudgetOK' /\ tip' \in GameTip /\ mempool' \in Seq(Intent)
  BY <1>1 DEF Core, NodeOK, BudgetOK
<1>4. MempoolApplies'
  BY <1>1 DEF MempoolApplies
<1>5. TipIsReal' /\ InSync'
  BY <1>1, <1>2 DEF Core, TipIsReal, InSync, Undisturbed
<1>6. Core'
  BY <1>3, <1>4, <1>5 DEF Core
<1> QED
  BY <1>1, <1>6, KeepsWithoutNode DEF node

\* The queue is shed.
LEMMA FlushShedKeeps ==
    ASSUME Core, NEW b \in Seq(Intent), FlushShed(b)
    PROVE  Keeps
<1>1. /\ accepted' = accepted /\ committed' = committed /\ pool' = pool
      /\ tip' = tip /\ mempool' = << >>
  BY DEF FlushShed, node
<1>2. newest' = newest
  BY <1>1 DEF newest
<1>3. BudgetOK' /\ budget'["evict"] = budget["evict"] /\ (Undisturbed' => Undisturbed)
  <2>1. CASE budget' = budget
    BY <2>1 DEF Core, BudgetOK, Undisturbed
  <2>2. CASE Fault("unreachable")
    <3>1. "unreachable" \in FaultKind /\ "evict" \in FaultKind \ {"unreachable"}
      BY DEF FaultKind
    <3>2. BudgetOK
      BY DEF Core
    <3> QED
      BY <2>2, <3>1, <3>2, FaultStep
  <2> QED
    BY <2>1, <2>2 DEF FlushShed
<1>4. NodeOK' /\ tip' \in GameTip /\ tip'.state \in GameState
  BY <1>1 DEF Core, NodeOK, GameTip
<1>5. mempool' \in Seq(Intent) /\ MempoolApplies'
  BY <1>1, <1>4, EmptyQueue DEF MempoolApplies
<1>6. TipIsReal' /\ InSync'
  BY <1>1, <1>2, <1>3 DEF Core, TipIsReal, InSync
<1>7. Core'
  BY <1>3, <1>4, <1>5, <1>6 DEF Core
<1> QED
  BY <1>1, <1>3, <1>7, KeepsWithoutNode DEF node

\* The answer is lost: the tip stays behind, and a fault is used up.
LEMMA FlushUnansweredKeeps ==
    ASSUME Core, NEW b \in Seq(Intent), FlushUnanswered(b)
    PROVE  Keeps
<1>1. /\ Builds(b) /\ SendAccepted(b) /\ Accept(tip.cap - FEE, next_state(b), b)
      /\ Fault("unanswered") /\ tip' = tip /\ mempool' = << >>
  BY DEF FlushUnanswered
<1>2. /\ NodeOK'
      /\ \A i \in DOMAIN accepted : i \in DOMAIN accepted' /\ accepted'[i] = accepted[i]
      /\ \A p : Counted(p) <= Counted(p)'
  BY <1>1, BroadcastStep
<1>3. /\ BudgetOK' /\ budget'["evict"] = budget["evict"]
      /\ budget'["unanswered"] < Faults["unanswered"]
  <2>1. "unanswered" \in FaultKind /\ "evict" \in FaultKind \ {"unanswered"} /\ BudgetOK
    BY DEF FaultKind, Core
  <2> QED
    BY <1>1, <2>1, FaultStep
<1>4. tip' \in GameTip /\ tip'.state \in GameState
  BY <1>1 DEF Core, GameTip
<1>5. mempool' \in Seq(Intent) /\ MempoolApplies'
  BY <1>1, <1>4, EmptyQueue DEF MempoolApplies
<1>6. TipIsReal'
  BY <1>1, <1>2 DEF Core, TipIsReal
<1>7. ~ Undisturbed'
  <2>1. Faults["unanswered"] \in Nat /\ budget'["unanswered"] \in Nat
    BY <1>3, OperatorAssumption DEF BudgetOK, FaultKind
  <2> QED
    BY <1>3, <2>1 DEF Undisturbed
<1>8. Core'
  BY <1>2, <1>3, <1>4, <1>5, <1>6, <1>7 DEF Core, InSync
<1> QED
  BY <1>2, <1>3, <1>8 DEF Keeps

-----------------------------------------------------------------------------
(***************************************************************************)
(* An intent.                                                              *)
(***************************************************************************)
\* An intent that passes submit's check leaves a queue that applies.
LEMMA QueueExtends ==
    ASSUME Core, NEW m \in Intent, CanSubmit(m)
    PROVE  /\ Append(mempool, m) \in Seq(Intent)
           /\ tip.state.seq + Len(Append(mempool, m)) <= U64_MAX =>
                apply_batch(tip.state, Append(mempool, m)).ok
<1>1. mempool \in Seq(Intent)
  BY DEF Core
<1>2. tip.state \in GameState
  BY DEF Core, GameTip
<1>3. apply_batch(tip.state, mempool).ok /\ CanApply(apply_batch(tip.state, mempool).state, m)
  BY DEF CanSubmit
<1>4. tip.state.seq + Len(Append(mempool, m)) <= U64_MAX =>
        apply_batch(tip.state, Append(mempool, m)).ok
  BY <1>1, <1>2, <1>3, BatchExtends
<1>5. Append(mempool, m) \in Seq(Intent)
  BY <1>1
<1> QED
  BY <1>4, <1>5

\* A flush that is answered counts the intent it was called for.
LEMMA FlushDoneCounts ==
    ASSUME Core, NEW m \in Intent, FlushDone(Append(mempool, m))
    PROVE  Counted(m.hash) + 1 <= Counted(m.hash)'
<1>1. mempool \in Seq(Intent) /\ tip.state \in GameState
  BY DEF Core, GameTip
<1>2. PICK b \in Seq(Intent) : b = Append(mempool, m)
  <2>1. Append(mempool, m) \in Seq(Intent)
    BY <1>1
  <2> QED
    BY <2>1
<1>3. Builds(b) /\ SendAccepted(b) /\ Accept(tip.cap - FEE, next_state(b), b)
  BY <1>2 DEF FlushDone
<1>4. \A p : Counted(p) = NonceOn(tip.state, p) /\ Counted(p)' = NonceOn(next_state(b), p)
  BY <1>3, BroadcastStep
<1>5. apply_batch(tip.state, Append(mempool, m)).ok
  BY <1>2, <1>3 DEF Builds
<1>6. NonceOn(tip.state, m.hash) + 1
        <= NonceOn(apply_batch(tip.state, Append(mempool, m)).state, m.hash)
  BY <1>1, <1>5, BatchCounts
<1> QED
  BY <1>2, <1>4, <1>6 DEF next_state

\* POST /intent: whatever becomes of it, everything is in order afterwards, and an
\* answer of 200 stands for a move that is counted.
LEMMA IntentHandled ==
    ASSUME Core, LogOK, NEW m \in Intent, NEW status, handle_intent(m, status)
    PROVE  /\ Keeps /\ LogOK'
           /\ status = "ok" => Counted(m.hash) + 1 <= Counted(m.hash)'
<1>1. CASE /\ ~ CanSubmit(m)
           /\ status = "err"
           /\ UNCHANGED <<node, operator, budget>>
  <2>1. /\ accepted' = accepted /\ committed' = committed /\ pool' = pool
        /\ tip' = tip /\ mempool' = mempool /\ logged' = logged /\ budget' = budget
    BY <1>1 DEF node, operator
  <2>2. newest' = newest
    BY <2>1 DEF newest
  <2>3. Core'
    BY <2>1, <2>2 DEF Core, NodeOK, BudgetOK, MempoolApplies, TipIsReal, InSync, Undisturbed
  <2>4. Keeps
    BY <2>1, <2>3, KeepsWithoutNode DEF node
  <2> QED
    BY <1>1, <2>1, <2>4 DEF LogOK
<1>2. CASE /\ CanSubmit(m)
           /\ FlushDone(Append(mempool, m))
           /\ logged' = logged \cup {Len(accepted) + 1}
           /\ status = "ok"
  <2>1. Append(mempool, m) \in Seq(Intent)
    BY <1>2, QueueExtends
  <2>2. Keeps /\ Len(accepted) + 1 \in DOMAIN accepted'
    BY <1>2, <2>1, FlushDoneKeeps
  <2>3. Counted(m.hash) + 1 <= Counted(m.hash)'
    BY <1>2, FlushDoneCounts
  <2> QED
    BY <1>2, <2>2, <2>3 DEF LogOK, Keeps
<1>3. CASE /\ CanSubmit(m)
           /\ \/ FlushNotBuilt(Append(mempool, m))
              \/ FlushShed(Append(mempool, m))
              \/ FlushUnanswered(Append(mempool, m))
           /\ status = "err"
           /\ UNCHANGED logged
  <2>1. /\ Append(mempool, m) \in Seq(Intent)
        /\ tip.state.seq + Len(Append(mempool, m)) <= U64_MAX =>
             apply_batch(tip.state, Append(mempool, m)).ok
    BY <1>3, QueueExtends
  <2>2. Keeps
    <3>1. CASE FlushNotBuilt(Append(mempool, m))
      BY <2>1, <3>1, FlushNotBuiltKeeps
    <3>2. CASE FlushShed(Append(mempool, m))
      BY <2>1, <3>2, FlushShedKeeps
    <3>3. CASE FlushUnanswered(Append(mempool, m))
      BY <2>1, <3>3, FlushUnansweredKeeps
    <3> QED
      BY <1>3, <3>1, <3>2, <3>3
  <2> QED
    BY <1>3, <2>2 DEF LogOK, Keeps
<1> QED
  BY <1>1, <1>2, <1>3 DEF handle_intent

\* What the pages sign, and what is forged, are intents.
LEMMA IntentTypes ==
    ASSUME NEW p \in Player, NEW nonce \in U64
    PROVE  /\ SignedIntent(p, nonce) \in Intent /\ SignedIntent(p, nonce).hash = p
           /\ ForgedIntent(p, nonce) \in Intent
<1>1. Game \in GameId /\ POINTS \in U64 /\ 0 \in U64
  BY OperatorAssumption, FieldTypes
<1>2. \A n \in U64 : intent_message(Game, p, POINTS, n) \in Message
  BY <1>1 DEF intent_message, Message
<1>3. SignedIntent(p, nonce) \in Intent /\ SignedIntent(p, nonce).hash = p
  BY <1>1, <1>2 DEF SignedIntent, Intent
<1>4. ForgedIntent(p, nonce) =
        [hash |-> p, points |-> POINTS, nonce |-> nonce, sig |-> intent_message(Game, p, POINTS, 0)]
  BY DEF ForgedIntent, SignedIntent
<1>5. ForgedIntent(p, nonce) \in Intent
  BY <1>1, <1>2, <1>4 DEF Intent
<1> QED
  BY <1>3, <1>5

-----------------------------------------------------------------------------
(***************************************************************************)
(* The steps.                                                              *)
(***************************************************************************)
\* AckedCounted survives a step that acknowledges nothing.
LEMMA AckedKept ==
    ASSUME Core, AckedCounted, Keeps, PagesOK, UNCHANGED acks
    PROVE  AckedCounted'
<1>1. ASSUME budget'["evict"] = Faults["evict"], NEW p \in Player
      PROVE  acks'[p] <= Counted(p)'
  <2>1. acks[p] <= Counted(p)
    BY <1>1 DEF AckedCounted, Counted, Keeps
  <2>2. Counted(p) \in Nat /\ acks[p] \in Nat
    BY NewestTypes DEF Core, PagesOK
  <2>3. Counted(p)' \in Nat
    <3>1. NodeOK'
      BY DEF Keeps, Core
    <3>2. CountedOK'
      BY <3>1, CountedNat, PTL
    <3> QED
      BY <3>2 DEF CountedOK
  <2>4. Counted(p) <= Counted(p)'
    BY DEF Keeps
  <2> QED
    BY <2>1, <2>2, <2>3, <2>4
<1> QED
  BY <1>1 DEF AckedCounted, Counted

\* ... and one that acknowledges a move it counts.
LEMMA AckedMore ==
    ASSUME Core, AckedCounted, Keeps, PagesOK, NEW q \in Player, NEW status,
           status = "ok" => Counted(q) + 1 <= Counted(q)',
           acks' = [acks EXCEPT ![q] = IF status = "ok" THEN acks[q] + 1 ELSE acks[q]]
    PROVE  AckedCounted' /\ acks' \in [Player -> Nat]
<1>1. acks \in [Player -> Nat]
  BY DEF PagesOK
<1>2. \A p \in Player : acks'[p] = acks[p] + IF p = q /\ status = "ok" THEN 1 ELSE 0
  BY <1>1
<1>3. acks' \in [Player -> Nat]
  BY <1>1
<1>4. ASSUME budget'["evict"] = Faults["evict"], NEW p \in Player
      PROVE  acks'[p] <= Counted(p)'
  <2>1. acks[p] <= Counted(p)
    BY <1>4 DEF AckedCounted, Counted, Keeps
  <2>2. Counted(p) \in Nat /\ acks[p] \in Nat
    BY <1>1, NewestTypes DEF Core
  <2>3. Counted(p)' \in Nat
    <3>1. NodeOK'
      BY DEF Keeps, Core
    <3>2. CountedOK'
      BY <3>1, CountedNat, PTL
    <3> QED
      BY <3>2 DEF CountedOK
  <2>4. Counted(p) <= Counted(p)'
    BY DEF Keeps
  <2>5. CASE p = q /\ status = "ok"
    <3>1. acks'[p] = acks[p] + 1
      BY <1>2, <2>5
    <3>2. Counted(p) + 1 <= Counted(p)'
      BY <2>5
    <3> QED
      BY <2>1, <2>2, <2>3, <3>1, <3>2
  <2>6. CASE ~ (p = q /\ status = "ok")
    <3>1. acks'[p] = acks[p]
      BY <1>2, <2>2, <2>6
    <3> QED
      BY <2>1, <2>2, <2>3, <2>4, <3>1
  <2> QED
    BY <2>5, <2>6
<1> QED
  BY <1>3, <1>4 DEF AckedCounted, Counted

\* A block: the newest cell is still the newest.
LEMMA CommitStep ==
    ASSUME IndInv, Commit
    PROVE  IndInv'
<1>0. Core /\ LogOK /\ PagesOK /\ AckedCounted
  BY IndInvParts
<1>1. /\ pool # << >> /\ committed' = Head(pool) /\ pool' = Tail(pool)
      /\ accepted' = accepted /\ tip' = tip /\ mempool' = mempool /\ logged' = logged
      /\ player' = player /\ post' = post /\ orphans' = orphans /\ acks' = acks
      /\ budget' = budget
  BY DEF Commit, operator, pages
<1>2. pool \in Seq(DOMAIN accepted)
  BY <1>0 DEF Core, NodeOK
<1>3. NodeOK'
  <2>1. Head(pool) \in DOMAIN accepted /\ Tail(pool) \in Seq(DOMAIN accepted)
    BY <1>1, <1>2
  <2> QED
    BY <1>0, <1>1, <2>1 DEF Core, NodeOK
<1>4. newest' = newest
  <2>1. CASE Len(pool) = 1
    <3>1. Tail(pool) = << >> /\ Head(pool) = pool[Len(pool)]
      BY <1>1, <1>2, <2>1
    <3> QED
      BY <1>1, <3>1 DEF newest
  <2>2. CASE Len(pool) # 1
    <3>0. Len(pool) \in Nat /\ Len(pool) > 1
      <4>1. Len(pool) \in Nat \ {0}
        BY <1>1, <1>2, EmptySeq
      <4>2. \A n \in Nat \ {0} : n \in Nat /\ (n # 1 => n > 1)
        OBVIOUS
      <4> QED
        BY <2>2, <4>1, <4>2
    <3>1. /\ Len(Tail(pool)) = Len(pool) - 1
          /\ \A i \in 1 .. Len(pool) - 1 : Tail(pool)[i] = pool[i + 1]
      BY <1>1, <1>2
    <3>2. Tail(pool)[Len(pool) - 1] = pool[(Len(pool) - 1) + 1]
      BY <3>0, <3>1
    <3>3. (Len(pool) - 1) + 1 = Len(pool)
      BY <3>0
    <3>4. Tail(pool) # << >>
      <4>1. Len(<< >>) = 0
        BY EmptySeq
      <4>2. \A n \in Nat : n > 1 => n - 1 # 0
        OBVIOUS
      <4>3. Len(Tail(pool)) # 0
        BY <3>0, <3>1, <4>2
      <4> QED
        BY <4>1, <4>3
    <3>5. Tail(pool) # << >> /\ Tail(pool)[Len(Tail(pool))] = pool[Len(pool)]
      BY <3>1, <3>2, <3>3, <3>4
    <3> QED
      BY <1>1, <3>5 DEF newest
  <2> QED
    BY <2>1, <2>2
<1>5. Core'
  BY <1>0, <1>1, <1>3, <1>4 DEF Core, BudgetOK, MempoolApplies, TipIsReal, InSync, Undisturbed
<1>6. LogOK' /\ PagesOK'
  BY <1>0, <1>1 DEF LogOK, PagesOK
<1>7. AckedCounted'
  BY <1>0, <1>1, <1>4 DEF AckedCounted
<1> QED
  BY <1>5, <1>6, <1>7, IndInvParts, PTL

\* The node forgets its pool: a fault is used up.
LEMMA EvictStep ==
    ASSUME IndInv, Evict
    PROVE  IndInv'
<1>0. Core /\ LogOK /\ PagesOK /\ AckedCounted
  BY IndInvParts
<1>1. /\ pool' = << >> /\ accepted' = accepted /\ committed' = committed /\ Fault("evict")
      /\ tip' = tip /\ mempool' = mempool /\ logged' = logged
      /\ player' = player /\ post' = post /\ orphans' = orphans /\ acks' = acks
  BY DEF Evict, operator, pages
<1>2. NodeOK'
  BY <1>0, <1>1 DEF Core, NodeOK
<1>3. BudgetOK' /\ budget'["evict"] < Faults["evict"]
  BY <1>0, <1>1, FaultStep DEF Core, FaultKind
<1>4. budget'["evict"] # Faults["evict"]
  <2>1. budget'["evict"] \in Nat /\ Faults["evict"] \in Nat
    BY <1>3, OperatorAssumption DEF BudgetOK, FaultKind
  <2> QED
    BY <1>3, <2>1
<1>5. InSync' /\ AckedCounted'
  BY <1>4 DEF InSync, Undisturbed, AckedCounted
<1>6. Core'
  BY <1>0, <1>1, <1>2, <1>3, <1>5 DEF Core, MempoolApplies, TipIsReal
<1>7. LogOK' /\ PagesOK'
  BY <1>0, <1>1 DEF LogOK, PagesOK
<1> QED
  BY <1>5, <1>6, <1>7, IndInvParts, PTL

\* `game grow`: the board stays, the tip falls behind, and a fault is used up.
LEMMA GrowStep ==
    ASSUME IndInv, Grow
    PROVE  IndInv'
<1>0. Core /\ LogOK /\ PagesOK /\ AckedCounted /\ NodeOK
  BY IndInvParts DEF Core
<1>1. /\ newest = committed /\ Fault("grow")
      /\ Accept(accepted[committed].cap + GROWTH, accepted[committed].state, << >>)
      /\ tip' = tip /\ mempool' = mempool /\ logged' = logged
      /\ player' = player /\ post' = post /\ orphans' = orphans /\ acks' = acks
  BY DEF Grow, operator, pages
<1>2. PICK s \in GameState : s = accepted[committed].state
  BY <1>0, NewestTypes DEF NodeOK
<1>3. PICK c \in Nat : c = accepted[committed].cap + GROWTH
  <2>1. accepted[committed].cap \in Nat /\ GROWTH \in Nat
    BY <1>0, NewestTypes, OperatorAssumption DEF NodeOK
  <2> QED
    BY <2>1
<1>4. << >> \in Seq(Intent) /\ Accept(c, s, << >>)
  BY <1>1, <1>2, <1>3
<1>5. /\ NodeOK'
      /\ newest' = Len(accepted) + 1
      /\ accepted'[Len(accepted) + 1].state = s
      /\ \A i \in DOMAIN accepted : i \in DOMAIN accepted' /\ accepted'[i] = accepted[i]
  BY <1>0, <1>4, AcceptStep
<1>6. /\ BudgetOK' /\ budget'["evict"] = budget["evict"]
      /\ budget'["grow"] < Faults["grow"]
  <2>1. "grow" \in FaultKind /\ "evict" \in FaultKind \ {"grow"} /\ BudgetOK
    BY <1>0 DEF FaultKind, Core
  <2> QED
    BY <1>1, <2>1, FaultStep
<1>7. ~ Undisturbed'
  <2>1. Faults["grow"] \in Nat /\ budget'["grow"] \in Nat
    BY <1>6, OperatorAssumption DEF BudgetOK, FaultKind
  <2> QED
    BY <1>6, <2>1 DEF Undisturbed
<1>8. Core'
  BY <1>0, <1>1, <1>5, <1>6, <1>7 DEF Core, MempoolApplies, TipIsReal, InSync
<1>9. Keeps
  <2>1. \A p : Counted(p)' = Counted(p)
    BY <1>1, <1>2, <1>5 DEF Counted
  <2>2. \A p : Counted(p) \in Nat
    BY <1>0, CountedNat DEF CountedOK
  <2> QED
    BY <1>5, <1>6, <1>8, <2>1, <2>2 DEF Keeps
<1>10. LogOK' /\ PagesOK'
  BY <1>0, <1>1, <1>5 DEF LogOK, PagesOK
<1>11. AckedCounted'
  BY <1>0, <1>1, <1>9, AckedKept
<1> QED
  BY <1>8, <1>10, <1>11, IndInvParts, PTL

\* A restart: the tip is the committed cell, the queue and the open requests are
\* gone, and a fault is used up.
LEMMA RestartStep ==
    ASSUME IndInv, Restart
    PROVE  IndInv'
<1>0. Core /\ LogOK /\ PagesOK /\ AckedCounted /\ NodeOK
  BY IndInvParts DEF Core
<1>1. /\ Fault("restart")
      /\ tip' = [out_point |-> committed, state |-> accepted[committed].state,
                 cap |-> accepted[committed].cap]
      /\ mempool' = << >>
      /\ post' = [p \in Player |->
                    IF post[p].st = "queued" THEN [post[p] EXCEPT !.st = "err"] ELSE post[p]]
      /\ orphans' = [p \in Player |-> {}]
      /\ accepted' = accepted /\ committed' = committed /\ pool' = pool
      /\ logged' = logged /\ player' = player /\ acks' = acks
  BY DEF Restart, node
<1>2. /\ committed \in DOMAIN accepted
      /\ accepted[committed].state \in GameState /\ accepted[committed].cap \in Nat
      /\ committed \in Nat
  BY <1>0, NewestTypes DEF NodeOK
<1>3. /\ BudgetOK' /\ budget'["evict"] = budget["evict"]
      /\ budget'["restart"] < Faults["restart"]
  <2>1. "restart" \in FaultKind /\ "evict" \in FaultKind \ {"restart"} /\ BudgetOK
    BY <1>0 DEF FaultKind, Core
  <2> QED
    BY <1>1, <2>1, FaultStep
<1>4. ~ Undisturbed'
  <2>1. Faults["restart"] \in Nat /\ budget'["restart"] \in Nat
    BY <1>3, OperatorAssumption DEF BudgetOK, FaultKind
  <2> QED
    BY <1>3, <2>1 DEF Undisturbed
<1>5. tip' \in GameTip /\ tip'.out_point = committed
      /\ tip'.state = accepted[committed].state /\ tip'.cap = accepted[committed].cap
  BY <1>1, <1>2 DEF GameTip
<1>6. mempool' \in Seq(Intent) /\ MempoolApplies'
  BY <1>1, <1>2, <1>5, EmptyQueue DEF MempoolApplies
<1>7. NodeOK'
  BY <1>0, <1>1 DEF NodeOK
<1>8. TipIsReal'
  BY <1>1, <1>2, <1>5 DEF TipIsReal
<1>9. Core'
  BY <1>3, <1>4, <1>5, <1>6, <1>7, <1>8 DEF Core, InSync
<1>10. AckedCounted'
  <2>1. Keeps
    BY <1>0, <1>1, <1>3, <1>9, KeepsWithoutNode DEF node
  <2> QED
    BY <1>0, <1>1, <2>1, AckedKept
<1>11. PagesOK'
  <2>1. ASSUME NEW p \in Player
        PROVE  post'[p] \in [st : {"none", "queued", "ok", "err"}, nonce : U64]
    <3>1. post[p] \in [st : {"none", "queued", "ok", "err"}, nonce : U64]
      BY <1>0 DEF PagesOK
    <3>2. [post[p] EXCEPT !.st = "err"] \in [st : {"none", "queued", "ok", "err"}, nonce : U64]
      BY <3>1
    <3> QED
      BY <1>1, <3>1, <3>2
  <2>2. post' \in [Player -> [st : {"none", "queued", "ok", "err"}, nonce : U64]]
    BY <1>1, <2>1
  <2>3. orphans' \in [Player -> SUBSET U64]
    BY <1>1
  <2> QED
    BY <1>0, <1>1, <2>2, <2>3 DEF PagesOK
<1>12. LogOK'
  BY <1>0, <1>1 DEF LogOK
<1> QED
  BY <1>9, <1>10, <1>11, <1>12, IndInvParts, PTL

\* POST /flush.
LEMMA FlushStep ==
    ASSUME IndInv, handle_flush
    PROVE  IndInv'
<1>0. Core /\ LogOK /\ PagesOK /\ AckedCounted
  BY IndInvParts
<1>1. /\ logged' = logged /\ player' = player /\ post' = post
      /\ orphans' = orphans /\ acks' = acks
  BY DEF handle_flush, pages
<1>2. /\ mempool \in Seq(Intent)
      /\ tip.state.seq + Len(mempool) <= U64_MAX => apply_batch(tip.state, mempool).ok
  BY <1>0 DEF Core, MempoolApplies
<1>3. Keeps
  <2>1. CASE FlushDone(mempool)
    BY <1>0, <1>2, <2>1, FlushDoneKeeps
  <2>2. CASE FlushNotBuilt(mempool)
    BY <1>0, <1>2, <2>2, FlushNotBuiltKeeps
  <2>3. CASE FlushShed(mempool)
    BY <1>0, <1>2, <2>3, FlushShedKeeps
  <2>4. CASE FlushUnanswered(mempool)
    BY <1>0, <1>2, <2>4, FlushUnansweredKeeps
  <2> QED
    BY <2>1, <2>2, <2>3, <2>4 DEF handle_flush
<1>4. LogOK' /\ PagesOK'
  BY <1>0, <1>1, <1>3 DEF LogOK, PagesOK, Keeps
<1>5. AckedCounted' /\ Core'
  BY <1>0, <1>1, <1>3, AckedKept DEF Keeps
<1> QED
  BY <1>4, <1>5, IndInvParts, PTL

\* submit by itself only queues.
LEMMA SubmitStep ==
    ASSUME IndInv, NEW m \in Intent, submit(m)
    PROVE  IndInv'
<1>0. Core /\ LogOK /\ PagesOK /\ AckedCounted
  BY IndInvParts
<1>1. /\ CanSubmit(m) /\ mempool' = Append(mempool, m)
      /\ accepted' = accepted /\ committed' = committed /\ pool' = pool
      /\ tip' = tip /\ logged' = logged /\ budget' = budget
      /\ player' = player /\ post' = post /\ orphans' = orphans /\ acks' = acks
  BY DEF submit, node, pages
<1>2. /\ mempool' \in Seq(Intent)
      /\ tip'.state.seq + Len(mempool') <= U64_MAX => apply_batch(tip'.state, mempool').ok
  BY <1>0, <1>1, QueueExtends
<1>3. newest' = newest
  BY <1>1 DEF newest
<1>4. MempoolApplies'
  BY <1>2 DEF MempoolApplies
<1>5. Core'
  BY <1>0, <1>1, <1>2, <1>3, <1>4 DEF Core, NodeOK, BudgetOK, TipIsReal, InSync, Undisturbed
<1>6. LogOK' /\ PagesOK'
  BY <1>0, <1>1 DEF LogOK, PagesOK
<1>7. AckedCounted'
  BY <1>0, <1>1, <1>3 DEF AckedCounted
<1> QED
  BY <1>5, <1>6, <1>7, IndInvParts, PTL

\* A request a page awaits is served.
LEMMA ServePostStep ==
    ASSUME IndInv, NEW p \in Player, ServePost(p)
    PROVE  IndInv'
<1>0. Core /\ LogOK /\ PagesOK /\ AckedCounted
  BY IndInvParts
<1>1. PICK status \in {"ok", "err"} :
        /\ handle_intent(SignedIntent(p, post[p].nonce), status)
        /\ post' = [post EXCEPT ![p].st = status]
        /\ acks' = [acks EXCEPT ![p] = IF status = "ok" THEN acks[p] + 1 ELSE acks[p]]
        /\ player' = player /\ orphans' = orphans
  BY DEF ServePost
<1>2. /\ post \in [Player -> [st : {"none", "queued", "ok", "err"}, nonce : U64]]
      /\ post[p] \in [st : {"none", "queued", "ok", "err"}, nonce : U64]
      /\ post[p].nonce \in U64
  BY <1>0 DEF PagesOK
<1>3. PICK m \in Intent : m = SignedIntent(p, post[p].nonce) /\ m.hash = p
  BY <1>2, IntentTypes
<1>4. Keeps /\ LogOK' /\ (status = "ok" => Counted(p) + 1 <= Counted(p)')
  BY <1>0, <1>1, <1>3, IntentHandled
<1>5. AckedCounted' /\ acks' \in [Player -> Nat]
  BY <1>0, <1>1, <1>4, AckedMore
<1>6. PagesOK'
  <2>1. post' \in [Player -> [st : {"none", "queued", "ok", "err"}, nonce : U64]]
    BY <1>1, <1>2
  <2> QED
    BY <1>0, <1>1, <1>5, <2>1 DEF PagesOK
<1> QED
  BY <1>4, <1>5, <1>6, IndInvParts, PTL DEF Keeps

\* So is one whose page has given up.
LEMMA ServeOrphanStep ==
    ASSUME IndInv, NEW p \in Player, NEW nonce \in U64, ServeOrphan(p, nonce)
    PROVE  IndInv'
<1>0. Core /\ LogOK /\ PagesOK /\ AckedCounted
  BY IndInvParts
<1>1. PICK status \in {"ok", "err"} :
        /\ handle_intent(SignedIntent(p, nonce), status)
        /\ acks' = [acks EXCEPT ![p] = IF status = "ok" THEN acks[p] + 1 ELSE acks[p]]
        /\ orphans' = [orphans EXCEPT ![p] = orphans[p] \ {nonce}]
        /\ player' = player /\ post' = post
  BY DEF ServeOrphan
<1>2. PICK m \in Intent : m = SignedIntent(p, nonce) /\ m.hash = p
  BY IntentTypes
<1>3. Keeps /\ LogOK' /\ (status = "ok" => Counted(p) + 1 <= Counted(p)')
  BY <1>0, <1>1, <1>2, IntentHandled
<1>4. AckedCounted' /\ acks' \in [Player -> Nat]
  BY <1>0, <1>1, <1>3, AckedMore
<1>5. PagesOK'
  <2>1. orphans' \in [Player -> SUBSET U64]
    BY <1>0, <1>1 DEF PagesOK
  <2> QED
    BY <1>0, <1>1, <1>4, <2>1 DEF PagesOK
<1> QED
  BY <1>3, <1>4, <1>5, IndInvParts, PTL DEF Keeps

\* A forged intent acknowledges nothing.
LEMMA ServeForgedStep ==
    ASSUME IndInv, NEW p \in Player, NEW nonce \in U64, ServeForged(p, nonce)
    PROVE  IndInv'
<1>0. Core /\ LogOK /\ PagesOK /\ AckedCounted
  BY IndInvParts
<1>1. /\ handle_intent(ForgedIntent(p, nonce), "err")
      /\ player' = player /\ post' = post /\ orphans' = orphans /\ acks' = acks
  BY DEF ServeForged, pages
<1>2. ForgedIntent(p, nonce) \in Intent
  BY IntentTypes
<1>3. Keeps /\ LogOK'
  BY <1>0, <1>1, <1>2, IntentHandled
<1>4. PagesOK'
  BY <1>0, <1>1 DEF PagesOK
<1>5. AckedCounted' /\ Core'
  BY <1>0, <1>1, <1>3, AckedKept DEF Keeps
<1> QED
  BY <1>3, <1>4, <1>5, IndInvParts, PTL

\* A step of a page leaves node and operator alone.
LEMMA PageStep ==
    ASSUME IndInv, PagesOK', UNCHANGED <<node, operator, acks>>,
           budget' = budget \/ Fault("lost")
    PROVE  IndInv'
<1>0. Core /\ LogOK /\ PagesOK /\ AckedCounted
  BY IndInvParts
<1>1. /\ accepted' = accepted /\ committed' = committed /\ pool' = pool
      /\ tip' = tip /\ mempool' = mempool /\ logged' = logged /\ acks' = acks
  BY DEF node, operator
<1>2. newest' = newest
  BY <1>1 DEF newest
<1>3. BudgetOK' /\ budget'["evict"] = budget["evict"] /\ (Undisturbed' => Undisturbed)
  <2>1. CASE budget' = budget
    BY <1>0, <2>1 DEF Core, BudgetOK, Undisturbed
  <2>2. CASE Fault("lost")
    <3>1. "lost" \in FaultKind /\ "evict" \in FaultKind \ {"lost"} /\ BudgetOK
      BY <1>0 DEF FaultKind, Core
    <3> QED
      BY <2>2, <3>1, FaultStep
  <2> QED
    BY <2>1, <2>2
<1>4. Core'
  BY <1>0, <1>1, <1>2, <1>3 DEF Core, NodeOK, MempoolApplies, TipIsReal, InSync
<1>5. LogOK' /\ AckedCounted'
  BY <1>0, <1>1, <1>2, <1>3 DEF LogOK, AckedCounted
<1> QED
  BY <1>4, <1>5, IndInvParts, PTL

\* What the pages hold stays typed when one page's entry is replaced.
LEMMA PageTypes ==
    PagesOK => /\ \A p \in Player : /\ player[p] \in [nonce : Int, pc : {"idle", "moving", "refresh"},
                                                      snap : {NoSnap} \cup U64]
                                    /\ player[p].nonce \in Int
                                    /\ player[p].snap \in {NoSnap} \cup U64
                                    /\ player[p].pc \in {"idle", "moving", "refresh"}
                                    /\ post[p].nonce \in U64
               /\ NoPost \in [st : {"none", "queued", "ok", "err"}, nonce : U64]
<1>1. NoPost \in [st : {"none", "queued", "ok", "err"}, nonce : U64]
  BY FieldTypes DEF NoPost
<1>2. ASSUME PagesOK, NEW p \in Player
      PROVE  /\ player[p] \in [nonce : Int, pc : {"idle", "moving", "refresh"},
                               snap : {NoSnap} \cup U64]
             /\ post[p] \in [st : {"none", "queued", "ok", "err"}, nonce : U64]
  BY <1>2 DEF PagesOK
<1> QED
  BY <1>1, <1>2

\* BigInt to u64 wraps: what is left is a u64.
LEMMA Wraps == \A n \in Int : n % (U64_MAX + 1) \in U64
BY RulesAssumption DEF U64

Page == [nonce : Int, pc : {"idle", "moving", "refresh"}, snap : {NoSnap} \cup U64]

\* A page with a nonce, a pc or a snapshot of its own stays a page.
LEMMA PageChanges ==
    ASSUME NEW p \in Player, NEW f \in [Player -> Page], NEW n \in Int,
           NEW c \in {"idle", "moving", "refresh"}, NEW v \in {NoSnap} \cup U64
    PROVE  /\ [f EXCEPT ![p].nonce = n, ![p].pc = c] \in [Player -> Page]
           /\ [f EXCEPT ![p].nonce = n, ![p].snap = v] \in [Player -> Page]
           /\ [f EXCEPT ![p].pc = c] \in [Player -> Page]
           /\ [f EXCEPT ![p].snap = v] \in [Player -> Page]
<1> DEFINE S == {NoSnap} \cup U64
<1> HIDE DEF S
<1>1. [f EXCEPT ![p].nonce = n, ![p].pc = c] \in [Player -> Page]
  BY DEF Page
<1>2. [f EXCEPT ![p].nonce = n, ![p].snap = v] \in [Player -> Page]
  BY DEF Page
<1>3. [f EXCEPT ![p].pc = c] \in [Player -> Page]
  BY DEF Page
<1>4. [f EXCEPT ![p].snap = v] \in [Player -> Page]
  BY DEF Page
<1> QED
  BY <1>1, <1>2, <1>3, <1>4

\* The pages' own steps.
LEMMA PagesStep ==
    ASSUME IndInv, NEW p \in Player,
           \/ Move(p) \/ Answered(p) \/ ConnectionLost(p)
           \/ Refresh(p) \/ PollBoard(p) \/ PollSync(p)
    PROVE  IndInv'
<1> DEFINE Post == [st : {"none", "queued", "ok", "err"}, nonce : U64]
<1>0. Core /\ PagesOK
  BY IndInvParts
<1>1. /\ player \in [Player -> Page] /\ post \in [Player -> Post]
      /\ orphans \in [Player -> SUBSET U64] /\ acks \in [Player -> Nat]
  BY <1>0 DEF PagesOK, Page
<1>2. /\ player[p].nonce \in Int /\ player[p].snap \in {NoSnap} \cup U64
      /\ post[p].nonce \in U64 /\ NoPost \in Post
  BY <1>0, PageTypes
<1>3. NonceOn(tip.state, p) \in U64 /\ U64 \subseteq Int
  <2>1. tip.state \in GameState
    BY <1>0 DEF Core, GameTip
  <2> QED
    BY <2>1, NonceOnFirst DEF U64
<1>4. \A onBoard \in U64, n \in Int : Synced(n, onBoard) \in Int
  BY <1>3 DEF Synced
<1> HIDE DEF Post
<1>5. ASSUME NEW x \in Post, post' = [post EXCEPT ![p] = x] PROVE post' \in [Player -> Post]
  BY <1>1, <1>5
<1>6. ASSUME player' \in [Player -> Page], post' \in [Player -> Post],
             orphans' \in [Player -> SUBSET U64], acks' = acks
      PROVE  PagesOK'
  BY <1>1, <1>6 DEF PagesOK, Page, Post
<1>10. CASE Move(p)
  <2>1. /\ player' = [player EXCEPT ![p].nonce = player[p].nonce + 1, ![p].pc = "moving"]
        /\ post' = [post EXCEPT ![p] =
                      [st |-> "queued", nonce |-> (player[p].nonce + 1) % (U64_MAX + 1)]]
        /\ orphans' = orphans /\ acks' = acks /\ budget' = budget /\ UNCHANGED <<node, operator>>
    BY <1>10 DEF Move
  <2>2. player[p].nonce + 1 \in Int
    BY <1>2
  <2>3. player' \in [Player -> Page]
    BY <1>1, <2>1, <2>2, PageChanges
  <2>4. [st |-> "queued", nonce |-> (player[p].nonce + 1) % (U64_MAX + 1)] \in Post
    <3>1. (player[p].nonce + 1) % (U64_MAX + 1) \in U64
      BY <2>2, Wraps
    <3> QED
      BY <3>1 DEF Post
  <2>5. PagesOK'
    BY <1>1, <1>5, <1>6, <2>1, <2>3, <2>4
  <2> QED
    BY <2>1, <2>5, PageStep
<1>11. CASE Answered(p)
  <2>1. PICK n \in Int :
          /\ player' = [player EXCEPT ![p].nonce = n, ![p].pc = "refresh"]
          /\ post' = [post EXCEPT ![p] = NoPost]
          /\ orphans' = orphans /\ acks' = acks /\ budget' = budget /\ UNCHANGED <<node, operator>>
    <3>1. PICK n \in Int : n = IF post[p].st = "ok" THEN player[p].nonce ELSE player[p].nonce - 1
      BY <1>2
    <3>2. /\ player' = [player EXCEPT ![p].nonce = n, ![p].pc = "refresh"]
          /\ post' = [post EXCEPT ![p] = NoPost]
          /\ orphans' = orphans /\ acks' = acks /\ budget' = budget /\ UNCHANGED <<node, operator>>
      BY <1>11, <3>1 DEF Answered
    <3> QED
      BY <3>2
  <2>2. player' \in [Player -> Page]
    BY <1>1, <2>1, PageChanges
  <2>3. PagesOK'
    BY <1>1, <1>2, <1>5, <1>6, <2>1, <2>2
  <2> QED
    BY <2>1, <2>3, PageStep
<1>12. CASE ConnectionLost(p)
  <2>1. /\ player' = [player EXCEPT ![p].nonce = player[p].nonce - 1, ![p].pc = "refresh"]
        /\ orphans' = [orphans EXCEPT ![p] = IF post[p].st = "queued"
                                             THEN orphans[p] \cup {post[p].nonce} ELSE orphans[p]]
        /\ post' = [post EXCEPT ![p] = NoPost]
        /\ Fault("lost") /\ acks' = acks /\ UNCHANGED <<node, operator>>
    BY <1>12 DEF ConnectionLost
  <2>2. player[p].nonce - 1 \in Int
    BY <1>2
  <2>3. player' \in [Player -> Page]
    BY <1>1, <2>1, <2>2, PageChanges
  <2>4. orphans' \in [Player -> SUBSET U64]
    BY <1>1, <1>2, <2>1
  <2>5. PagesOK'
    BY <1>2, <1>5, <1>6, <2>1, <2>3, <2>4
  <2> QED
    BY <2>1, <2>5, PageStep
<1>13. CASE Refresh(p)
  <2>1. player' \in [Player -> Page]
    <3>1. CASE player' = [player EXCEPT ![p].nonce = Synced(player[p].nonce, NonceOn(tip.state, p)),
                                        ![p].pc = "idle"]
      <4>1. Synced(player[p].nonce, NonceOn(tip.state, p)) \in Int
        BY <1>2, <1>3, <1>4
      <4> QED
        BY <1>1, <3>1, <4>1, PageChanges
    <3>2. CASE player' = [player EXCEPT ![p].pc = "idle"]
      BY <1>1, <1>2, <3>2, PageChanges
    <3> QED
      BY <1>13, <3>1, <3>2 DEF Refresh
  <2>2. /\ post' = post /\ orphans' = orphans /\ acks' = acks /\ UNCHANGED <<node, operator>>
        /\ budget' = budget \/ Fault("lost")
    BY <1>13 DEF Refresh
  <2>3. PagesOK'
    BY <1>1, <1>6, <2>1, <2>2
  <2> QED
    BY <2>2, <2>3, PageStep
<1>14. CASE PollBoard(p)
  <2>1. /\ player' = [player EXCEPT ![p].snap = NonceOn(tip.state, p)]
        /\ post' = post /\ orphans' = orphans /\ acks' = acks /\ budget' = budget
        /\ UNCHANGED <<node, operator>>
    BY <1>14 DEF PollBoard
  <2>2. player' \in [Player -> Page]
    BY <1>1, <1>2, <1>3, <2>1, PageChanges
  <2>3. PagesOK'
    BY <1>1, <1>6, <2>1, <2>2
  <2> QED
    BY <2>1, <2>3, PageStep
<1>15. CASE PollSync(p)
  <2>1. /\ player[p].snap # NoSnap
        /\ player' = [player EXCEPT ![p].nonce = Synced(player[p].nonce, player[p].snap),
                                    ![p].snap = NoSnap]
        /\ post' = post /\ orphans' = orphans /\ acks' = acks /\ budget' = budget
        /\ UNCHANGED <<node, operator>>
    BY <1>15 DEF PollSync
  <2>2. Synced(player[p].nonce, player[p].snap) \in Int /\ NoSnap \in {NoSnap} \cup U64
    BY <1>2, <1>4, <2>1
  <2>3. player' \in [Player -> Page]
    BY <1>1, <2>1, <2>2, PageChanges
  <2>4. PagesOK'
    BY <1>1, <1>6, <2>1, <2>3
  <2> QED
    BY <2>1, <2>4, PageStep
<1> QED
  BY <1>10, <1>11, <1>12, <1>13, <1>14, <1>15

-----------------------------------------------------------------------------
(***************************************************************************)
(* The specification.                                                      *)
(***************************************************************************)
\* The operator, its node and the pages start in order.
LEMMA InitIndInv ==
    Init => IndInv
<1> SUFFICES ASSUME Init PROVE IndInv
  OBVIOUS
<1>1. EmptyState \in GameState /\ 0 \in U64 /\ CAPACITY \in Nat
  BY FieldTypes, OperatorAssumption DEF EmptyState, GameState
<1>2. /\ accepted = <<Genesis>> /\ committed = 1 /\ pool = << >> /\ mempool = << >>
      /\ tip = [out_point |-> 1, state |-> EmptyState, cap |-> CAPACITY]
      /\ logged = {} /\ budget = Faults
  BY DEF Init
<1>3. Genesis \in GameCell /\ Genesis.state = EmptyState /\ Genesis.cap = CAPACITY
  BY <1>1 DEF Genesis, GameCell
<1>4. accepted \in Seq(GameCell) /\ DOMAIN accepted = 1 .. 1 /\ accepted[1] = Genesis
  BY <1>2, <1>3
<1>5. NodeOK /\ newest = 1
  BY <1>2, <1>4 DEF NodeOK, newest
<1>6. BudgetOK
  <2>1. \A k \in FaultKind : Faults[k] \in Nat
    BY OperatorAssumption
  <2> QED
    BY <1>2, <2>1, OperatorAssumption DEF BudgetOK
<1>7. tip \in GameTip /\ tip.state = EmptyState /\ tip.cap = CAPACITY /\ tip.out_point = 1
  BY <1>1, <1>2 DEF GameTip
<1>8. mempool \in Seq(Intent) /\ MempoolApplies
  BY <1>1, <1>2, <1>7, EmptyQueue DEF MempoolApplies
<1>9. TipIsReal /\ InSync
  BY <1>3, <1>4, <1>5, <1>7 DEF TipIsReal, InSync
<1>10. Core
  BY <1>5, <1>6, <1>7, <1>8, <1>9 DEF Core
<1>11. PagesOK
  <2>1. player \in [Player -> [nonce : Int, pc : {"idle", "moving", "refresh"},
                               snap : {NoSnap} \cup U64]]
    BY DEF Init
  <2>2. post \in [Player -> [st : {"none", "queued", "ok", "err"}, nonce : U64]]
    BY <1>1 DEF Init, NoPost
  <2>3. orphans \in [Player -> SUBSET U64] /\ acks \in [Player -> Nat]
    BY DEF Init
  <2> QED
    BY <2>1, <2>2, <2>3 DEF PagesOK
<1>12. AckedCounted
  <2>1. ASSUME NEW p \in Player PROVE acks[p] <= Counted(p)
    <3>1. acks[p] = 0
      BY DEF Init
    <3>2. Counted(p) \in Nat
      BY <1>5, CountedNat DEF CountedOK
    <3> QED
      BY <3>1, <3>2
  <2> QED
    BY <2>1 DEF AckedCounted, Counted
<1>13. LogOK
  BY <1>2 DEF LogOK
<1> QED
  BY <1>10, <1>11, <1>12, <1>13, IndInvParts

\* Every step keeps them so.
LEMMA NextIndInv ==
    IndInv /\ [Next]_vars => IndInv'
<1> SUFFICES ASSUME IndInv, [Next]_vars PROVE IndInv'
  OBVIOUS
<1>1. CASE Commit
  BY <1>1, CommitStep
<1>2. CASE Evict
  BY <1>2, EvictStep
<1>3. CASE Grow
  BY <1>3, GrowStep
<1>4. CASE Restart
  BY <1>4, RestartStep
<1>5. CASE handle_flush
  BY <1>5, FlushStep
<1>6. ASSUME NEW p \in Player, ServePost(p) PROVE IndInv'
  BY <1>6, ServePostStep
<1>7. ASSUME NEW p \in Player, NEW nonce \in U64, ServeOrphan(p, nonce) PROVE IndInv'
  BY <1>7, ServeOrphanStep
<1>8. ASSUME NEW p \in Player, NEW nonce \in U64, ServeForged(p, nonce) PROVE IndInv'
  BY <1>8, ServeForgedStep
<1>9. ASSUME NEW p \in Player, NEW nonce \in U64 \cap (1 .. MOVES[p]),
             submit(SignedIntent(p, nonce)) \/ submit(ForgedIntent(p, nonce))
      PROVE  IndInv'
  <2>1. SignedIntent(p, nonce) \in Intent /\ ForgedIntent(p, nonce) \in Intent
    BY IntentTypes
  <2> QED
    BY <1>9, <2>1, SubmitStep
<1>10. ASSUME NEW p \in Player,
              \/ Move(p) \/ Answered(p) \/ ConnectionLost(p)
              \/ Refresh(p) \/ PollBoard(p) \/ PollSync(p)
       PROVE  IndInv'
  BY <1>10, PagesStep
<1>11. CASE UNCHANGED vars
  <2>1. /\ UNCHANGED <<node, operator, acks>> /\ budget' = budget
        /\ player' = player /\ post' = post /\ orphans' = orphans /\ acks' = acks
    BY <1>11 DEF vars, pages
  <2>2. PagesOK
    BY IndInvParts
  <2>3. PagesOK'
    BY <2>1, <2>2 DEF PagesOK
  <2> QED
    BY <2>1, <2>3, PageStep
<1> QED
  BY <1>1, <1>2, <1>3, <1>4, <1>5, <1>6, <1>7, <1>8, <1>9, <1>10, <1>11 DEF Next

\* The inductive invariant holds in every behaviour.
THEOREM Inductive ==
    Spec => []IndInv
BY InitIndInv, NextIndInv, PTL DEF Spec

\* Operator.TypeOK: node, operator and pages hold what their types say.
THEOREM TypeCorrect ==
    Spec => []TypeOK
<1>1. IndInv => TypeOK
  BY DEF IndInv
<1> QED
  BY <1>1, Inductive, PTL

\* Operator.MempoolApplies: what submit let in never makes a flush fail.
THEOREM QueueApplies ==
    Spec => []MempoolApplies
<1>1. IndInv => MempoolApplies
  BY DEF IndInv
<1> QED
  BY <1>1, Inductive, PTL

\* Operator.TipIsReal: the tip is always a cell the node accepted.
THEOREM TipReal ==
    Spec => []TipIsReal
<1>1. IndInv => TipIsReal
  BY DEF IndInv
<1> QED
  BY <1>1, Inductive, PTL

\* Operator.InSync: undisturbed, the operator builds on the newest cell.
THEOREM OperatorInSync ==
    Spec => []InSync
<1>1. IndInv => InSync
  BY DEF IndInv
<1> QED
  BY <1>1, Inductive, PTL

\* Operator.AckedCounted: a move answered 200 is on the newest board, as long as
\* the node keeps its pool.
THEOREM AcknowledgedCounted ==
    Spec => []AckedCounted
<1>1. IndInv => AckedCounted
  BY DEF IndInv
<1> QED
  BY <1>1, Inductive, PTL
-----------------------------------------------------------------------------
(***************************************************************************)
(* Operator and type script.                                               *)
(***************************************************************************)
\* What the type script asks of a cell that a transition makes of the newest one
\* (verify_transition): the batch decodes, its intents are signed for this game, it
\* applies to the board that is spent, and the output holds the board it leaves.
Verifies(new) ==
    LET applied == apply_batch(accepted[newest].state, new.batch)
    IN  /\ BatchDecodes(new.batch)
        /\ \A i \in DOMAIN new.batch :
             new.batch[i].sig = intent_message(Game, new.batch[i].hash,
                                               new.batch[i].points, new.batch[i].nonce)
        /\ applied.ok
        /\ equals_unordered(applied.state, new.state)

\* Whatever the node accepts is a transition the type script lets through.
Extends ==
    LET new == accepted'[Len(accepted')]
    IN  accepted' = Append(accepted, new) /\ Verifies(new)

\* The operator's boards are boards of the type script: NodeAccepts does not look
\* at them, and needs not to.
TransitionsVerify == [][Extends]_accepted

\* A board equals itself.
LEMMA EqualsItself ==
    ASSUME NEW s \in GameState
    PROVE  equals_unordered(s, s)
BY DEF equals_unordered, GameState

\* An empty batch leaves the board as it is, seq included.
LEMMA EmptyBatchBoard ==
    ASSUME NEW s \in GameState, NEW b \in Seq(Intent), Len(b) = 0
    PROVE  apply_batch(s, b).ok /\ apply_batch(s, b).state = s
<1>1. s.seq \in Nat /\ s.seq <= U64_MAX
  BY RulesAssumption DEF GameState, U64
<1>2. s.seq + Len(b) = s.seq
  BY <1>1
<1>3. PICK last : last = ran(s, b)[Len(b)]
  OBVIOUS
<1>4. last.ok /\ last.state = s
  <2>1. last = [ok |-> TRUE, state |-> s]
    BY <1>3, RanSteps
  <2> QED
    BY <2>1
<1>5. [s EXCEPT !.seq = s.seq] = s
  BY DEF GameState
<1>6. apply_batch(s, b) = [ok |-> TRUE, state |-> [s EXCEPT !.seq = s.seq]]
  BY <1>1, <1>2, <1>3, <1>4 DEF apply_batch
<1> QED
  BY <1>5, <1>6

\* A cell put behind the others is the last.
LEMMA AppendExtends ==
    ASSUME NodeOK, NEW new \in GameCell, accepted' = Append(accepted, new), Verifies(new)
    PROVE  Extends
<1>1. accepted \in Seq(GameCell)
  BY DEF NodeOK
<1>2. accepted'[Len(accepted')] = new
  BY <1>1
<1> QED
  BY <1>2 DEF Extends

\* A transition of the operator that the node takes is one the type script would:
\* its tip is the newest cell, so the board it computed is the one expected.
LEMMA BroadcastVerifies ==
    ASSUME Core, NEW b \in Seq(Intent), Builds(b), SendAccepted(b),
           Accept(tip.cap - FEE, next_state(b), b)
    PROVE  Extends
<1> DEFINE new == [state |-> next_state(b), cap |-> tip.cap - FEE, batch |-> b]
<1>0. NodeOK
  BY DEF Core
<1>1. /\ tip.cap - FEE \in Nat /\ next_state(b) \in GameState
      /\ tip.state = accepted[newest].state
  BY BroadcastStep
<1>2. new \in GameCell
  BY <1>1 DEF GameCell
<1>3. accepted' = Append(accepted, new)
  BY DEF Accept
<1>4. /\ BatchDecodes(b)
      /\ \A i \in DOMAIN b :
           b[i].sig = intent_message(Game, b[i].hash, b[i].points, b[i].nonce)
  BY DEF SendAccepted, NodeAccepts
<1>5. apply_batch(tip.state, b).ok /\ apply_batch(tip.state, b).state = next_state(b)
  BY DEF Builds, next_state
<1>6. equals_unordered(next_state(b), next_state(b))
  BY <1>1, EqualsItself
<1>7. new.batch = b /\ new.state = next_state(b)
  OBVIOUS
<1>8. Verifies(new)
  BY <1>1, <1>4, <1>5, <1>6, <1>7 DEF Verifies
<1> QED
  BY <1>0, <1>2, <1>3, <1>8, AppendExtends

\* Every way a flush ends.
LEMMA FlushVerifies ==
    ASSUME Core, NEW b \in Seq(Intent),
           FlushDone(b) \/ FlushNotBuilt(b) \/ FlushShed(b) \/ FlushUnanswered(b)
    PROVE  Extends \/ UNCHANGED accepted
<1>1. CASE FlushDone(b)
  BY <1>1, BroadcastVerifies DEF FlushDone
<1>2. CASE FlushUnanswered(b)
  BY <1>2, BroadcastVerifies DEF FlushUnanswered
<1>3. CASE FlushNotBuilt(b) \/ FlushShed(b)
  BY <1>3 DEF FlushNotBuilt, FlushShed, node
<1> QED
  BY <1>1, <1>2, <1>3

\* A request is refused, or its batch is flushed.
LEMMA IntentVerifies ==
    ASSUME Core, NEW m \in Intent, NEW status, handle_intent(m, status)
    PROVE  Extends \/ UNCHANGED accepted
<1>1. CASE CanSubmit(m)
  <2>1. PICK b \in Seq(Intent) : b = Append(mempool, m)
    BY <1>1, QueueExtends
  <2>2. FlushDone(b) \/ FlushNotBuilt(b) \/ FlushShed(b) \/ FlushUnanswered(b)
    BY <1>1, <2>1 DEF handle_intent
  <2> QED
    BY <2>1, <2>2, FlushVerifies
<1>2. CASE ~ CanSubmit(m)
  BY <1>2 DEF handle_intent, node
<1> QED
  BY <1>1, <1>2

\* `game grow` spends the newest cell with an empty batch and leaves the board.
LEMMA GrowVerifies ==
    ASSUME Core, Grow
    PROVE  Extends
<1>0. NodeOK
  BY DEF Core
<1>1. /\ newest = committed
      /\ Accept(accepted[committed].cap + GROWTH, accepted[committed].state, << >>)
  BY DEF Grow
<1>2. PICK s \in GameState : s = accepted[newest].state
  BY <1>0, NewestTypes
<1>3. PICK c \in Nat : c = accepted[newest].cap + GROWTH
  <2>1. accepted[newest].cap \in Nat /\ GROWTH \in Nat
    BY <1>0, NewestTypes, OperatorAssumption
  <2> QED
    BY <2>1
<1> DEFINE new == [state |-> s, cap |-> c, batch |-> << >>]
<1>4. << >> \in Seq(Intent)
  OBVIOUS
<1>5. new \in GameCell
  BY <1>4 DEF GameCell
<1>6. accepted' = Append(accepted, new)
  BY <1>1, <1>2, <1>3 DEF Accept
<1>7. new.batch = << >> /\ new.state = s /\ Len(<< >>) = 0 /\ DOMAIN << >> = {}
  OBVIOUS
<1>8. apply_batch(s, << >>).ok /\ apply_batch(s, << >>).state = s
  BY <1>4, <1>7, EmptyBatchBoard
<1>9. equals_unordered(s, s) /\ BatchDecodes(<< >>)
  BY <1>7, EqualsItself, RulesAssumption DEF BatchDecodes
<1>10. Verifies(new)
  BY <1>2, <1>7, <1>8, <1>9 DEF Verifies
<1> QED
  BY <1>0, <1>5, <1>6, <1>10, AppendExtends

\* Every other step leaves the cells alone.
LEMMA NextVerifies ==
    IndInv /\ [Next]_vars => Extends \/ UNCHANGED accepted
<1> SUFFICES ASSUME IndInv, [Next]_vars PROVE Extends \/ UNCHANGED accepted
  OBVIOUS
<1>0. Core /\ PagesOK
  BY IndInvParts
<1>1. CASE Grow
  BY <1>0, <1>1, GrowVerifies
<1>2. CASE handle_flush
  <2>1. mempool \in Seq(Intent)
    BY <1>0 DEF Core
  <2> QED
    BY <1>0, <1>2, <2>1, FlushVerifies DEF handle_flush
<1>3. ASSUME NEW p \in Player, ServePost(p) PROVE Extends \/ UNCHANGED accepted
  <2>1. PICK status \in {"ok", "err"} : handle_intent(SignedIntent(p, post[p].nonce), status)
    BY <1>3 DEF ServePost
  <2>2. post[p].nonce \in U64
    BY <1>0 DEF PagesOK
  <2>3. SignedIntent(p, post[p].nonce) \in Intent
    BY <2>2, IntentTypes
  <2> QED
    BY <1>0, <2>1, <2>3, IntentVerifies
<1>4. ASSUME NEW p \in Player, NEW nonce \in U64, ServeOrphan(p, nonce) \/ ServeForged(p, nonce)
      PROVE  Extends \/ UNCHANGED accepted
  <2>1. SignedIntent(p, nonce) \in Intent /\ ForgedIntent(p, nonce) \in Intent
    BY IntentTypes
  <2>2. CASE ServeOrphan(p, nonce)
    <3>1. PICK status \in {"ok", "err"} : handle_intent(SignedIntent(p, nonce), status)
      BY <2>2 DEF ServeOrphan
    <3> QED
      BY <1>0, <2>1, <3>1, IntentVerifies
  <2>3. CASE ServeForged(p, nonce)
    BY <1>0, <2>1, <2>3, IntentVerifies DEF ServeForged
  <2> QED
    BY <1>4, <2>2, <2>3
<1>5. CASE \/ Commit \/ Evict \/ Restart
           \/ \E p \in Player :
                \/ \E nonce \in U64 \cap (1 .. MOVES[p]) :
                     submit(SignedIntent(p, nonce)) \/ submit(ForgedIntent(p, nonce))
                \/ Move(p) \/ Answered(p) \/ ConnectionLost(p)
                \/ Refresh(p) \/ PollBoard(p) \/ PollSync(p)
           \/ UNCHANGED vars
  BY <1>5 DEF Commit, Evict, Restart, submit, Move, Answered, ConnectionLost, Refresh,
              PollBoard, PollSync, vars, node
<1> QED
  BY <1>1, <1>2, <1>3, <1>4, <1>5 DEF Next

\* Nothing the node accepts in Operator is refused by the type script of GameCell,
\* whoever sent it.
THEOREM OperatorTransitionsVerify ==
    Spec => TransitionsVerify
<1>1. IndInv /\ [Next]_vars => [Extends]_accepted
  BY NextVerifies
<1> QED
  BY <1>1, Inductive, PTL DEF Spec, TransitionsVerify
=============================================================================
