------------------------- MODULE ClientErrorsProofs -------------------------
(***************************************************************************)
(* The bounds of the error window, for every limit, length of the window   *)
(* and set of users.                                                       *)
(***************************************************************************)
EXTENDS ClientErrors, FiniteSetTheorems, TLAPS

Windows == [startedAt : Nat, count : 1..MaxErrors]

\* What the constants have to be.
Parameters ==
    /\ MaxErrors \in Nat \ {0} /\ Minute \in Nat /\ MaxClock \in Nat
    /\ Never \notin Nat /\ Never \notin Windows

Types ==
    /\ clock \in Nat
    /\ windows \in [Clients -> Windows \cup {Never}]
    /\ accepted \in [Clients -> Seq(Nat)]
    /\ refused \in [Clients -> Nat \cup {Never}]

\* Where reports lie that were accepted in the current window, with c reports since s, in the
\* one before, and earlier.
Placed(a, s, c) ==
    /\ c <= Len(a) /\ s <= clock
    /\ \A i \in 1..Len(a) : i + c <= Len(a) => a[i] <= s
    /\ \A i \in 1..Len(a) : i + c + MaxErrors <= Len(a) => a[i] + Minute <= s
    /\ \A i \in 1..Len(a) : i + c > Len(a) => s <= a[i] /\ a[i] <= clock
Spread(a) == \A i \in 1..Len(a) : i > 2 * MaxErrors => a[i] >= a[i - 2 * MaxErrors] + Minute
\* The reports that fill the window of a refusal at t.
Filled(a, t) ==
    \E lo \in Nat : /\ lo + MaxErrors <= Len(a)
                    /\ \A i \in (lo + 1)..(lo + MaxErrors) : a[i] <= t /\ t < a[i] + Minute

UserInv(u) ==
    /\ windows[u] = Never => accepted[u] = <<>>
    /\ windows[u] # Never => Placed(accepted[u], windows[u].startedAt, windows[u].count)
    /\ Spread(accepted[u])
    /\ refused[u] # Never => Filled(accepted[u], refused[u])
Inv == Types /\ \A u \in Clients : UserInv(u)

LEMMA InitInv == ASSUME Parameters, ErrorsInit PROVE Inv
<1>1. Types
  BY DEF ErrorsInit, Types
<1>2. ASSUME NEW u \in Clients PROVE UserInv(u)
  BY DEF ErrorsInit, UserInv, Spread
<1> QED
  BY <1>1, <1>2 DEF Inv

\* Appending a report keeps the earlier ones where they are.
LEMMA Appended ==
  ASSUME NEW a \in Seq(Nat), NEW n \in Nat
  PROVE  /\ Append(a, n) \in Seq(Nat) /\ Len(Append(a, n)) = Len(a) + 1
         /\ Append(a, n)[Len(a) + 1] = n
         /\ \A i \in 1..Len(a) : Append(a, n)[i] = a[i] /\ a[i] \in Nat
  OBVIOUS

\* The place 2 * MaxErrors reports before the next one.
LEMMA Before ==
  ASSUME Parameters, NEW l \in Nat, l + 1 > 2 * MaxErrors
  PROVE  /\ l + 1 - 2 * MaxErrors \in 1..l
         /\ (l + 1 - 2 * MaxErrors) + MaxErrors <= l
         /\ \A c \in Nat : c < MaxErrors => (l + 1 - 2 * MaxErrors) + c + MaxErrors <= l
<1>1. MaxErrors \in Nat /\ MaxErrors >= 1
  BY DEF Parameters
<1> HIDE DEF Parameters
<1> QED
  BY <1>1

\* Appending keeps the spread if the place before is old enough.
LEMMA AppendSpread ==
  ASSUME Parameters, NEW a \in Seq(Nat), NEW n \in Nat, Spread(a),
         Len(a) + 1 > 2 * MaxErrors => a[Len(a) + 1 - 2 * MaxErrors] + Minute <= n
  PROVE  Spread(Append(a, n))
<1> DEFINE b == Append(a, n)
<1>1. /\ Len(b) = Len(a) + 1 /\ b[Len(a) + 1] = n /\ Len(a) \in Nat
      /\ \A i \in 1..Len(a) : b[i] = a[i] /\ a[i] \in Nat
  BY Appended
<1>2. MaxErrors \in Nat /\ MaxErrors >= 1 /\ Minute \in Nat
  BY DEF Parameters
<1> HIDE DEF b
<1>3. ASSUME Len(a) + 1 > 2 * MaxErrors
      PROVE  b[Len(a) + 1] >= b[Len(a) + 1 - 2 * MaxErrors] + Minute
  <2> DEFINE k == Len(a) + 1 - 2 * MaxErrors
  <2>1. k \in 1..Len(a) /\ a[k] + Minute <= n
    BY <1>1, <1>3, Before
  <2> HIDE DEF k
  <2>2. b[k] = a[k] /\ a[k] \in Nat
    BY <1>1, <2>1
  <2>3. n >= b[k] + Minute
    BY <1>2, <2>1, <2>2
  <2>4. b[Len(a) + 1] = n
    BY <1>1
  <2> QED
    BY <2>3, <2>4 DEF k
<1>4. ASSUME NEW i \in 1..Len(a), i > 2 * MaxErrors
      PROVE  b[i] >= b[i - 2 * MaxErrors] + Minute
  <2>1. i - 2 * MaxErrors \in 1..Len(a)
    BY <1>1, <1>2, <1>4
  <2> QED
    BY <1>1, <1>4, <2>1 DEF Spread
<1>5. ASSUME NEW i \in 1..Len(b), i > 2 * MaxErrors
      PROVE  b[i] >= b[i - 2 * MaxErrors] + Minute
  <2>1. CASE i = Len(a) + 1
    <3>1. Len(a) + 1 > 2 * MaxErrors
      BY <1>5, <2>1
    <3>2. b[Len(a) + 1] >= b[Len(a) + 1 - 2 * MaxErrors] + Minute
      BY <1>3, <3>1
    <3>3. b[i] = b[Len(a) + 1]
      BY <2>1
    <3>4. i - 2 * MaxErrors = Len(a) + 1 - 2 * MaxErrors
      BY <1>1, <1>2, <2>1
    <3> QED
      BY <3>2, <3>3, <3>4
  <2>2. CASE i \in 1..Len(a)
    BY <1>4, <1>5, <2>2
  <2> QED
    BY <1>1, <2>1, <2>2
<1> QED
  BY <1>5 DEF Spread, b

\* One more report in the window.
LEMMA AppendPlaced ==
  ASSUME Parameters, NEW a \in Seq(Nat), clock \in Nat, NEW s \in Nat, NEW c \in Nat,
         Placed(a, s, c), c < MaxErrors, Spread(a)
  PROVE  Placed(Append(a, clock), s, c + 1) /\ Spread(Append(a, clock))
<1> DEFINE b == Append(a, clock)
<1>1. /\ Len(b) = Len(a) + 1 /\ b[Len(a) + 1] = clock /\ Len(a) \in Nat
      /\ \A i \in 1..Len(a) : b[i] = a[i] /\ a[i] \in Nat
  BY Appended
<1>2. MaxErrors \in Nat /\ MaxErrors >= 1 /\ Minute \in Nat
  BY DEF Parameters
<1> HIDE DEF b
<1>3. ASSUME NEW i \in 1..Len(b)
      PROVE  /\ i + (c + 1) <= Len(b) => b[i] <= s
             /\ i + (c + 1) + MaxErrors <= Len(b) => b[i] + Minute <= s
             /\ i + (c + 1) > Len(b) => s <= b[i] /\ b[i] <= clock
  <2>1. CASE i = Len(a) + 1
    BY <1>1, <1>2, <2>1 DEF Placed
  <2>2. CASE i \in 1..Len(a)
    <3>1. b[i] = a[i] /\ a[i] \in Nat /\ i \in Nat
      BY <1>1, <2>2
    <3>2. /\ i + c <= Len(a) => a[i] <= s
          /\ i + c + MaxErrors <= Len(a) => a[i] + Minute <= s
          /\ i + c > Len(a) => s <= a[i] /\ a[i] <= clock
      BY <2>2 DEF Placed
    <3>3. /\ (i + (c + 1) <= Len(b)) = (i + c <= Len(a))
          /\ (i + (c + 1) + MaxErrors <= Len(b)) = (i + c + MaxErrors <= Len(a))
          /\ (i + (c + 1) > Len(b)) = (i + c > Len(a))
      BY <1>1, <1>2, <3>1
    <3> QED
      BY <3>1, <3>2, <3>3
  <2> QED
    BY <1>1, <2>1, <2>2
<1>4. c + 1 <= Len(b) /\ s <= clock
  BY <1>1 DEF Placed
<1>5. Placed(b, s, c + 1)
  BY <1>3, <1>4 DEF Placed
<1>6. Len(a) + 1 > 2 * MaxErrors => a[Len(a) + 1 - 2 * MaxErrors] + Minute <= clock
  <2>1. SUFFICES ASSUME Len(a) + 1 > 2 * MaxErrors
                 PROVE  a[Len(a) + 1 - 2 * MaxErrors] + Minute <= clock
    OBVIOUS
  <2> DEFINE k == Len(a) + 1 - 2 * MaxErrors
  <2>2. k \in 1..Len(a) /\ k + c + MaxErrors <= Len(a)
    BY <1>1, <2>1, Before
  <2> HIDE DEF k
  <2>3. a[k] + Minute <= s /\ s <= clock /\ a[k] \in Nat
    BY <1>1, <2>2 DEF Placed
  <2>4. a[k] + Minute <= clock
    BY <1>2, <2>3
  <2> QED
    BY <2>4 DEF k
<1> QED
  BY <1>5, <1>6, AppendSpread DEF b

\* The first report of a window, a minute after the start of the last one.
LEMMA OpenPlaced ==
  ASSUME Parameters, NEW a \in Seq(Nat), clock \in Nat, Spread(a),
         \A i \in 1..Len(a) : a[i] <= clock /\ (i + MaxErrors <= Len(a) => a[i] + Minute <= clock)
  PROVE  Placed(Append(a, clock), clock, 1) /\ Spread(Append(a, clock))
<1> DEFINE b == Append(a, clock)
<1>1. /\ Len(b) = Len(a) + 1 /\ b[Len(a) + 1] = clock /\ Len(a) \in Nat
      /\ \A i \in 1..Len(a) : b[i] = a[i] /\ a[i] \in Nat
  BY Appended
<1>2. MaxErrors \in Nat /\ MaxErrors >= 1 /\ Minute \in Nat
  BY DEF Parameters
<1> HIDE DEF b
<1>3. ASSUME NEW i \in 1..Len(b)
      PROVE  /\ i + 1 <= Len(b) => b[i] <= clock
             /\ i + 1 + MaxErrors <= Len(b) => b[i] + Minute <= clock
             /\ i + 1 > Len(b) => clock <= b[i] /\ b[i] <= clock
  <2>1. CASE i = Len(a) + 1
    BY <1>1, <1>2, <2>1
  <2>2. CASE i \in 1..Len(a)
    BY <1>1, <1>2, <2>2
  <2> QED
    BY <1>1, <2>1, <2>2
<1>4. 1 <= Len(b) /\ clock <= clock
  BY <1>1
<1>5. Placed(b, clock, 1)
  BY <1>3, <1>4 DEF Placed
<1>6. Len(a) + 1 > 2 * MaxErrors => a[Len(a) + 1 - 2 * MaxErrors] + Minute <= clock
  BY <1>1, <1>2, Before
<1> QED
  BY <1>5, <1>6, AppendSpread DEF b
\* The window a report is accepted in, and the reports after it was.
LEMMA AcceptKeeps ==
  ASSUME Parameters, Inv, NEW u \in Clients, Accept(u)
  PROVE  Inv'
<1> DEFINE a == accepted[u]
           b == Append(a, clock)
           w == [Window(u) EXCEPT !.count = @ + 1]
<1>1. /\ a \in Seq(Nat) /\ clock \in Nat /\ clock' = clock
      /\ windows[u] \in Windows \cup {Never} /\ UserInv(u) /\ Window(u).count < MaxErrors
      /\ windows' = [windows EXCEPT ![u] = w] /\ accepted' = [accepted EXCEPT ![u] = b]
      /\ refused' = refused
  BY DEF Inv, Types, Accept
<1>2. MaxErrors \in Nat /\ MaxErrors >= 1 /\ Minute \in Nat /\ Never \notin Windows
  BY DEF Parameters
<1>3. /\ w \in Windows /\ w.startedAt \in Nat /\ w.count \in Nat
      /\ Placed(b, w.startedAt, w.count) /\ Spread(b)
  <2>1. CASE windows[u] # Never /\ ~(clock - windows[u].startedAt >= Minute)
    <3> DEFINE v == windows[u]
    <3>1. v \in Windows /\ Window(u) = v /\ Placed(a, v.startedAt, v.count) /\ Spread(a)
      BY <1>1, <2>1 DEF Window, UserInv
    <3>2. /\ v.startedAt \in Nat /\ v.count \in Nat /\ v.count < MaxErrors
          /\ w.startedAt = v.startedAt /\ w.count = v.count + 1 /\ w \in Windows
      BY <1>1, <1>2, <3>1 DEF Windows
    <3> HIDE DEF a, v, w
    <3>3. Placed(b, v.startedAt, v.count + 1) /\ Spread(b)
      BY <1>1, <3>1, <3>2, AppendPlaced
    <3> QED
      BY <3>2, <3>3
  <2>2. CASE windows[u] = Never \/ clock - windows[u].startedAt >= Minute
    <3>1. Window(u) = [startedAt |-> clock, count |-> 0]
      BY <2>2 DEF Window
    <3>2. w.startedAt = clock /\ w.count = 1 /\ w \in Windows
      BY <1>1, <1>2, <3>1 DEF Windows
    <3>3. \A i \in 1..Len(a) : a[i] <= clock /\ (i + MaxErrors <= Len(a) => a[i] + Minute <= clock)
      <4>1. CASE windows[u] = Never
        BY <1>1, <4>1 DEF UserInv
      <4>2. CASE windows[u] # Never
        <5> DEFINE s == windows[u].startedAt
                   c == windows[u].count
        <5>1. Placed(a, s, c) /\ clock - s >= Minute /\ s \in Nat /\ c \in Nat /\ c <= MaxErrors
          BY <1>1, <1>2, <2>2, <4>2 DEF UserInv, Windows
        <5> HIDE DEF a, s, c
        <5>2. ASSUME NEW i \in 1..Len(a)
              PROVE  a[i] <= clock /\ (i + MaxErrors <= Len(a) => a[i] + Minute <= clock)
          <6>1. a[i] \in Nat /\ Len(a) \in Nat /\ i \in Nat
            BY <1>1
          <6>2. /\ i + c <= Len(a) => a[i] <= s
                /\ i + c > Len(a) => a[i] <= clock
                /\ s <= clock
            BY <5>1 DEF Placed
          <6> QED
            BY <1>1, <1>2, <5>1, <6>1, <6>2
        <5> QED
          BY <5>2
      <4> QED
        BY <4>1, <4>2
    <3>4. Spread(a)
      BY <1>1 DEF UserInv
    <3> HIDE DEF a, w
    <3>5. Placed(b, clock, 1) /\ Spread(b)
      BY <1>1, <3>3, <3>4, OpenPlaced
    <3> QED
      BY <1>1, <3>2, <3>5
  <2> QED
    BY <2>1, <2>2
<1> HIDE DEF w
<1>4. Types'
  <2>1. b \in Seq(Nat)
    BY <1>1
  <2> QED
    BY <1>1, <1>3, <2>1 DEF Inv, Types
<1>5. ASSUME NEW x \in Clients PROVE UserInv(x)'
  <2>1. CASE x # u
    BY <1>1, <2>1 DEF Inv, Types, UserInv, Placed, Spread, Filled
  <2>2. CASE x = u
    <3>1. windows'[u] = w /\ accepted'[u] = b /\ refused'[u] = refused[u] /\ w # Never
      BY <1>1, <1>2, <1>3 DEF Inv, Types
    <3>2. refused[u] # Never => Filled(b, refused[u])
      <4>1. refused[u] # Never => Filled(a, refused[u])
        BY <1>1 DEF UserInv
      <4> DEFINE t == refused[u]
      <4> HIDE DEF a, b, t
      <4>2. Filled(a, t) => Filled(b, t)
        <5>1. /\ Len(b) = Len(a) + 1 /\ Len(a) \in Nat
              /\ \A i \in 1..Len(a) : b[i] = a[i]
          BY <1>1, Appended DEF b
        <5>2. ASSUME NEW lo \in Nat, lo + MaxErrors <= Len(a),
                     \A i \in (lo + 1)..(lo + MaxErrors) : a[i] <= t /\ t < a[i] + Minute
              PROVE  Filled(b, t)
          <6>1. lo + MaxErrors <= Len(b)
            BY <1>2, <5>1, <5>2
          <6>2. \A i \in (lo + 1)..(lo + MaxErrors) : i \in 1..Len(a)
            BY <1>2, <5>1, <5>2
          <6>3. \A i \in (lo + 1)..(lo + MaxErrors) : b[i] <= t /\ t < b[i] + Minute
            BY <5>1, <5>2, <6>2
          <6> QED
            BY <6>1, <6>3 DEF Filled
        <5> QED
          BY <5>2 DEF Filled
      <4> QED
        BY <4>1, <4>2 DEF t
    <3>3. (Placed(accepted[u], windows[u].startedAt, windows[u].count) /\ Spread(accepted[u]))'
      <4> HIDE DEF b
      <4>1. Placed(b, w.startedAt, w.count) /\ Spread(b)
        BY <1>3
      <4>2. clock' = clock
        BY <1>1
      <4> QED
        BY <3>1, <4>1, <4>2 DEF Placed, Spread
    <3> QED
      BY <1>3, <2>2, <3>1, <3>2, <3>3 DEF UserInv
  <2> QED
    BY <2>1, <2>2
<1> QED
  BY <1>4, <1>5 DEF Inv
\* A refusal finds the last MaxErrors reports in the window that is still open.
LEMMA RefuseKeeps ==
  ASSUME Parameters, Inv, NEW u \in Clients, Refuse(u)
  PROVE  Inv'
<1> DEFINE a == accepted[u]
           v == windows[u]
<1>1. /\ a \in Seq(Nat) /\ Len(a) \in Nat /\ clock \in Nat /\ clock' = clock
      /\ v \in Windows \cup {Never} /\ UserInv(u) /\ Window(u).count >= MaxErrors
      /\ windows' = windows /\ accepted' = accepted
      /\ refused' = [refused EXCEPT ![u] = clock]
  BY DEF Inv, Types, Refuse
<1>2. MaxErrors \in Nat /\ MaxErrors >= 1 /\ Minute \in Nat
  BY DEF Parameters
<1>3. v # Never /\ ~(clock - v.startedAt >= Minute) /\ v.count >= MaxErrors
  <2>1. ASSUME windows[u] = Never \/ clock - windows[u].startedAt >= Minute PROVE FALSE
    <3>1. Window(u) = [startedAt |-> clock, count |-> 0]
      BY <2>1 DEF Window
    <3> QED
      BY <1>1, <1>2, <3>1
  <2> QED
    BY <1>1, <2>1 DEF Window
<1>4. Placed(a, v.startedAt, v.count) /\ v.startedAt \in Nat /\ v.count = MaxErrors
  BY <1>1, <1>2, <1>3 DEF UserInv, Windows
<1> HIDE DEF a, v
<1>5. Filled(a, clock)
  <2> DEFINE lo == Len(a) - MaxErrors
  <2>1. lo \in Nat /\ lo + MaxErrors <= Len(a)
    BY <1>1, <1>2, <1>4 DEF Placed
  <2>2. ASSUME NEW i \in (lo + 1)..(lo + MaxErrors)
        PROVE  a[i] <= clock /\ clock < a[i] + Minute
    <3>1. i \in 1..Len(a) /\ i + MaxErrors > Len(a)
      BY <1>1, <1>2, <2>1
    <3>2. v.startedAt <= a[i] /\ a[i] <= clock /\ a[i] \in Nat
      BY <1>1, <1>4, <3>1 DEF Placed
    <3> QED
      BY <1>1, <1>2, <1>3, <1>4, <3>2
  <2> HIDE DEF lo
  <2> QED
    BY <2>1, <2>2 DEF Filled
<1>6. Types'
  BY <1>1 DEF Inv, Types
<1>7. ASSUME NEW x \in Clients PROVE UserInv(x)'
  <2>1. UserInv(x)
    BY DEF Inv
  <2>2. x # u => refused'[x] = refused[x]
    BY <1>1 DEF Inv, Types
  <2>3. x = u => refused'[x] = clock /\ accepted[x] = a
    BY <1>1 DEF Inv, Types, a
  <2>4. refused'[x] # Never => Filled(accepted[x], refused'[x])
    BY <1>5, <2>1, <2>2, <2>3 DEF UserInv
  <2> QED
    BY <1>1, <2>1, <2>4 DEF UserInv, Placed, Spread, Filled
<1> QED
  BY <1>6, <1>7 DEF Inv

LEMMA RestartKeeps == ASSUME Parameters, Inv, Restart PROVE Inv'
<1>1. Types'
  BY DEF Inv, Types, Restart
<1>2. ASSUME NEW u \in Clients PROVE UserInv(u)'
  BY DEF Restart, UserInv, Spread
<1> QED
  BY <1>1, <1>2 DEF Inv

LEMMA TickKeeps == ASSUME Parameters, Inv, ErrorsTick PROVE Inv'
<1>1. /\ clock \in Nat /\ clock' \in Nat /\ clock <= clock'
      /\ windows' = windows /\ accepted' = accepted /\ refused' = refused
  BY DEF Inv, Types, ErrorsTick
<1>2. Types'
  BY <1>1 DEF Inv, Types
<1>3. ASSUME NEW u \in Clients PROVE UserInv(u)'
  <2> DEFINE a == accepted[u]
             s == windows[u].startedAt
             c == windows[u].count
  <2>1. UserInv(u) /\ a \in Seq(Nat) /\ windows[u] \in Windows \cup {Never}
    BY DEF Inv, Types
  <2>2. ASSUME windows[u] # Never PROVE Placed(a, s, c)'
    <3>1. Placed(a, s, c) /\ s \in Nat
      BY <2>1, <2>2 DEF UserInv, Windows
    <3>2. a' = a /\ s' = s /\ c' = c
      BY <1>1
    <3> HIDE DEF a, s, c
    <3>3. s <= clock'
      BY <1>1, <3>1 DEF Placed
    <3>4. \A i \in 1..Len(a) : a[i] \in Nat
      BY <2>1
    <3>5. \A i \in 1..Len(a) : i + c > Len(a) => s <= a[i] /\ a[i] <= clock'
      BY <1>1, <3>1, <3>4 DEF Placed
    <3> QED
      BY <3>1, <3>2, <3>3, <3>5 DEF Placed
  <2>3. Spread(accepted[u])' /\ (refused[u] # Never => Filled(accepted[u], refused[u]))'
    BY <1>1, <2>1 DEF UserInv, Spread, Filled
  <2> QED
    BY <1>1, <2>1, <2>2, <2>3 DEF UserInv
<1> QED
  BY <1>2, <1>3 DEF Inv

LEMMA StutterKeeps == ASSUME Inv, UNCHANGED errorVars PROVE Inv'
BY DEF Inv, errorVars, Types, UserInv, Placed, Spread, Filled

LEMMA NextKeeps == ASSUME Parameters, Inv, [ErrorsNext]_errorVars PROVE Inv'
BY AcceptKeeps, RefuseKeeps, RestartKeeps, TickKeeps, StutterKeeps DEF ErrorsNext

\* The reports that fill a window are recent.
LEMMA FilledIsFull ==
  ASSUME Parameters, NEW u \in Clients, accepted[u] \in Seq(Nat), NEW t, Filled(accepted[u], t)
  PROVE  Cardinality(Recent(u, t)) >= MaxErrors
<1>1. MaxErrors \in Nat /\ Len(accepted[u]) \in Nat /\ DOMAIN accepted[u] = 1..Len(accepted[u])
  BY DEF Parameters
<1>2. PICK lo \in Nat : /\ lo + MaxErrors <= Len(accepted[u])
                        /\ \A i \in (lo + 1)..(lo + MaxErrors) :
                              accepted[u][i] <= t /\ t < accepted[u][i] + Minute
  BY DEF Filled
<1>3. (lo + 1)..(lo + MaxErrors) \subseteq Recent(u, t)
  BY <1>1, <1>2 DEF Recent
<1>4. IsFiniteSet(Recent(u, t))
  <2>1. IsFiniteSet(1..Len(accepted[u]))
    BY <1>1, FS_Interval
  <2>2. Recent(u, t) \subseteq 1..Len(accepted[u])
    BY <1>1 DEF Recent
  <2> QED
    BY <2>1, <2>2, FS_Subset
<1>5. Cardinality((lo + 1)..(lo + MaxErrors)) = MaxErrors
  BY <1>1, <1>2, FS_Interval
<1>6. /\ Cardinality((lo + 1)..(lo + MaxErrors)) <= Cardinality(Recent(u, t))
      /\ Cardinality(Recent(u, t)) \in Nat
  BY <1>3, <1>4, FS_Subset, FS_CardinalityType
<1> QED
  BY <1>1, <1>5, <1>6

\* Any 2 * MaxErrors + 1 reports a process accepts of a user take a minute or more, whatever
\* the windows they fell in (app.ts:179-191).
THEOREM SpansBounded == ASSUME Parameters PROVE ErrorsSpec => []SpanBounded
<1>1. ErrorsInit => Inv
  BY InitInv
<1>2. Inv /\ [ErrorsNext]_errorVars => Inv'
  BY NextKeeps
<1>3. Inv => SpanBounded
  <2>1. SUFFICES ASSUME Inv, NEW u \in Clients, NEW i \in DOMAIN accepted[u], i > 2 * MaxErrors
                 PROVE  accepted[u][i] >= accepted[u][i - 2 * MaxErrors] + Minute
    BY DEF SpanBounded
  <2>2. accepted[u] \in Seq(Nat) /\ Spread(accepted[u])
    BY <2>1 DEF Inv, Types, UserInv
  <2>3. i \in 1..Len(accepted[u])
    BY <2>2
  <2> QED
    BY <2>1, <2>2, <2>3 DEF Spread
<1> QED
  BY <1>1, <1>2, <1>3, PTL DEF ErrorsSpec

\* A refusal is always owed to MaxErrors reports of that user in the last minute: a window
\* that was refused in does not refuse for longer (app.ts:185-186).
THEOREM RefusalsJustified == ASSUME Parameters PROVE ErrorsSpec => []RefusedWhenFull
<1>1. ErrorsInit => Inv
  BY InitInv
<1>2. Inv /\ [ErrorsNext]_errorVars => Inv'
  BY NextKeeps
<1>3. Inv => RefusedWhenFull
  BY FilledIsFull DEF Inv, Types, UserInv, RefusedWhenFull
<1> QED
  BY <1>1, <1>2, <1>3, PTL DEF ErrorsSpec
=============================================================================
