-------------------------- MODULE CardemSystem_proofs --------------------------
(***************************************************************************)
(* The path from the reader to the real card and back, for any number of   *)
(* commands, sessions and events.                                          *)
(*                                                                         *)
(* Base: types, no queue longer than its limit, no more transfers complete *)
(* than the host submitted, and the card's pins those of its levels.       *)
(* StatusOk, on top of it: the last status message on its way tells the    *)
(* pins as they are, and while the card is powered and out of reset the    *)
(* real card was reset for this session, or two successive messages will   *)
(* make the host do it.                                                    *)
(* Exchange, on top of Base: in a session that is not torn, one thing at a *)
(* time is under way for the reader's command, and it is in one place.     *)
(*                                                                         *)
(* Lemmas about queues, transfers and levels come first.  Each invariant   *)
(* has one lemma per action, and these only say which of them apply.       *)
(***************************************************************************)
EXTENDS CardemSystem, FiniteSetTheorems, SequenceTheorems, TLAPS

-----------------------------------------------------------------------------
(* The pins and what is reported of them.                                   *)

LevelType == [vcc : BOOLEAN, rst : BOOLEAN]

\* the pins that a card with these levels reports
PinsOf(l) == (IF l.vcc THEN {"VCC", "CLK"} ELSE {}) \cup (IF l.rst THEN {"RESET"} ELSE {})

Note(pins) == Msg("STATUS", NoCmd, pins)

\* Switching VCC, and then RST, reports the pins step by step.
VccReports(pins, old, new) ==
  IF new = old THEN <<>>
  ELSE IF new THEN <<pins \cup {"VCC"}, pins \cup {"VCC", "CLK"}>>
       ELSE <<pins \ {"VCC"}, pins \ {"VCC", "CLK"}>>
RstReports(pins, old, new) ==
  IF new = old THEN <<>> ELSE IF new THEN <<pins \cup {"RESET"}>> ELSE <<pins \ {"RESET"}>>

LEMMA LastIs ==
  ASSUME NEW a, NEW b
  PROVE  Last(<<a>>) = a /\ Last(<<a, b>>) = b
<1>1. Len(<<a>>) = 1 /\ Len(<<a, b>>) = 2
  OBVIOUS
<1> QED  BY <1>1 DEF Last

LEMMA LastOfThree ==
  ASSUME NEW a, NEW b, NEW c
  PROVE  Last(<<a, b, c>>) = c
<1>1. Len(<<a, b, c>>) = 3
  OBVIOUS
<1> QED  BY <1>1 DEF Last

LEMMA JoinIs ==
  ASSUME NEW S, NEW a \in S, NEW b \in S, NEW c \in S
  PROVE  /\ <<>> \o <<>> = <<>> /\ <<>> \o <<c>> = <<c>>
         /\ <<a, b>> \o <<>> = <<a, b>>
         /\ <<a, b>> \o <<c>> = <<a, b, c>>
<1>1. <<>> \o <<>> = <<>>
  OBVIOUS
<1>2. <<>> \o <<c>> = <<c>>
  OBVIOUS
<1>3. <<a, b>> \in Seq(S) /\ <<c>> \in Seq(S)
  OBVIOUS
<1>4. <<a, b>> \o <<>> = <<a, b>>
  BY <1>3
<1>5. <<a, b>> \o <<c>> = <<a, b, c>>
  <2>1. <<a, b, c>> \in Seq(S) /\ Len(<<a, b, c>>) = 3
    OBVIOUS
  <2>2. <<a, b>> \o <<c>> \in Seq(S) /\ Len(<<a, b>> \o <<c>>) = 3
    BY <1>3
  <2>3. \A i \in 1..3 : (<<a, b>> \o <<c>>)[i] = <<a, b, c>>[i]
    BY <1>3
  <2> QED  BY <2>1, <2>2, <2>3, SeqEqual
<1> QED  BY <1>1, <1>2, <1>4, <1>5

LEMMA VccReportsIs ==
  ASSUME NEW pins, NEW old \in BOOLEAN, NEW new \in BOOLEAN
  PROVE  \/ new = old /\ VccReports(pins, old, new) = <<>>
         \/ /\ new # old /\ VccReports(pins, old, new) # <<>>
            /\ VccReports(pins, old, new) =
                 IF new THEN <<pins \cup {"VCC"}, pins \cup {"VCC", "CLK"}>>
                 ELSE <<pins \ {"VCC"}, pins \ {"VCC", "CLK"}>>
            /\ Last(VccReports(pins, old, new)) =
                 IF new THEN pins \cup {"VCC", "CLK"} ELSE pins \ {"VCC", "CLK"}
BY LastIs DEF VccReports

LEMMA ReportsAre ==
  ASSUME NEW f, NEW new \in LevelType, f.level \in LevelType
  PROVE  LET now == IF new.vcc = f.level.vcc THEN f.pins
                    ELSE IF new.vcc THEN f.pins \cup {"VCC", "CLK"} ELSE f.pins \ {"VCC", "CLK"}
         IN Reports(f, new) = VccReports(f.pins, f.level.vcc, new.vcc)
                              \o RstReports(now, f.level.rst, new.rst)
<1>1. f.level.vcc \in BOOLEAN /\ new.vcc \in BOOLEAN
  BY DEF LevelType
<1>2. Reports(f, new) = LET vcc == VccReports(f.pins, f.level.vcc, new.vcc)
                            now == IF vcc = <<>> THEN f.pins ELSE Last(vcc)
                        IN vcc \o RstReports(now, f.level.rst, new.rst)
  BY DEF Reports, VccReports, RstReports
<1> QED  BY <1>1, <1>2, VccReportsIs

\* The reports of a change end with the pins as they are then.  When they end with a
\* card that is powered and not in reset, and just one of the two signals changed, the
\* reports are these:
LEMMA ReportsCases ==
  ASSUME NEW f, NEW new \in LevelType, f.level \in LevelType, f.pins = PinsOf(f.level)
  PROVE  \/ new = f.level /\ Reports(f, new) = <<>>
         \/ \E a \in SUBSET Flag : Reports(f, new) = <<a>> /\ a = PinsOf(new)
                                    /\ new.vcc = f.level.vcc /\ new.rst # f.level.rst
         \/ \E a, b \in SUBSET Flag :
              /\ Reports(f, new) = <<a, b>> /\ b = PinsOf(new) /\ new.vcc # f.level.vcc
              /\ new.vcc /\ ~f.level.rst /\ ~new.rst => a = {"VCC"}
         \/ \E a, b, c \in SUBSET Flag :
              Reports(f, new) = <<a, b, c>> /\ c = PinsOf(new)
              /\ new.vcc # f.level.vcc /\ new.rst # f.level.rst
<1> DEFINE now == IF new.vcc = f.level.vcc THEN f.pins
                  ELSE IF new.vcc THEN f.pins \cup {"VCC", "CLK"} ELSE f.pins \ {"VCC", "CLK"}
           first == IF new.vcc THEN f.pins \cup {"VCC"} ELSE f.pins \ {"VCC"}
           last == IF new.rst THEN now \cup {"RESET"} ELSE now \ {"RESET"}
<1>1. /\ f.level.vcc \in BOOLEAN /\ new.vcc \in BOOLEAN
      /\ f.level.rst \in BOOLEAN /\ new.rst \in BOOLEAN
      /\ f.pins \in SUBSET Flag
  BY DEF LevelType, PinsOf, Flag
<1>2. now \in SUBSET Flag /\ first \in SUBSET Flag /\ last \in SUBSET Flag
  BY <1>1 DEF Flag
<1>3. /\ new.rst # f.level.rst => last = PinsOf(new)
      /\ new.rst = f.level.rst => now = PinsOf(new)
  BY <1>1 DEF PinsOf
<1>4. Reports(f, new) = VccReports(f.pins, f.level.vcc, new.vcc)
                        \o RstReports(now, f.level.rst, new.rst)
  BY ReportsAre
<1>5. /\ new.vcc = f.level.vcc => VccReports(f.pins, f.level.vcc, new.vcc) = <<>>
      /\ new.vcc # f.level.vcc => VccReports(f.pins, f.level.vcc, new.vcc) = <<first, now>>
      /\ new.rst = f.level.rst => RstReports(now, f.level.rst, new.rst) = <<>>
      /\ new.rst # f.level.rst => RstReports(now, f.level.rst, new.rst) = <<last>>
  BY <1>1 DEF VccReports, RstReports
<1>6. new.vcc /\ ~f.level.rst /\ ~new.rst /\ new.vcc # f.level.vcc => first = {"VCC"}
  BY <1>1 DEF PinsOf
<1> HIDE DEF now, first, last
<1>7. /\ <<>> \o <<>> = <<>> /\ <<>> \o <<last>> = <<last>>
      /\ <<first, now>> \o <<>> = <<first, now>>
      /\ <<first, now>> \o <<last>> = <<first, now, last>>
  BY <1>2, JoinIs
<1>8. CASE new.vcc = f.level.vcc /\ new.rst = f.level.rst
  <2>1. new = f.level
    BY <1>8 DEF LevelType
  <2> QED  BY <1>4, <1>5, <1>7, <1>8, <2>1
<1>9. CASE new.vcc = f.level.vcc /\ new.rst # f.level.rst
  <2>1. Reports(f, new) = <<last>>
    BY <1>4, <1>5, <1>7, <1>9
  <2> QED  BY <1>2, <1>3, <1>9, <2>1
<1>10. CASE new.vcc # f.level.vcc /\ new.rst = f.level.rst
  <2>1. Reports(f, new) = <<first, now>>
    BY <1>4, <1>5, <1>7, <1>10
  <2> QED  BY <1>2, <1>3, <1>6, <1>10, <2>1
<1>11. CASE new.vcc # f.level.vcc /\ new.rst # f.level.rst
  <2>1. Reports(f, new) = <<first, now, last>>
    BY <1>4, <1>5, <1>7, <1>11
  <2> QED  BY <1>2, <1>3, <1>11, <2>1
<1> QED  BY <1>8, <1>9, <1>10, <1>11

-----------------------------------------------------------------------------
(* Queues and completed transfers.                                          *)

LEMMA SubmitIs ==
  ASSUME NEW S, NEW q \in Seq(S), Len(q) <= UsbMaxQlen, NEW m \in S
  PROVE  /\ Submit(q, m) \in Seq(S) /\ Submit(q, m) # <<>>
         /\ Len(Submit(q, m)) <= UsbMaxQlen
         /\ Last(Submit(q, m)) = m
<1>1. UsbMaxQlen \in Nat \ {0} /\ Len(q) \in Nat
  BY SystemAssumption
<1>2. CASE Len(q) >= UsbMaxQlen
  <2>1. q # <<>>
    BY <1>1, <1>2
  <2>2. Tail(q) \in Seq(S) /\ Len(Tail(q)) = Len(q) - 1
    BY <2>1
  <2> QED  BY <1>1, <1>2, <2>2 DEF Submit, Last
<1>3. CASE ~(Len(q) >= UsbMaxQlen)
  BY <1>1, <1>3 DEF Submit, Last
<1> QED  BY <1>2, <1>3

\* Of what is in the queue after it, each message was in the queue, in the same order,
\* or is the new one.
LEMMA SubmitKeeps ==
  ASSUME NEW S, NEW q \in Seq(S), Len(q) <= UsbMaxQlen, NEW m \in S
  PROVE  \E d \in 0..1 :
           /\ d = 1 => q # <<>>
           /\ d = 1 <=> Len(q) >= UsbMaxQlen
           /\ Len(Submit(q, m)) = Len(q) - d + 1
           /\ \A i \in 1..Len(q) - d : Submit(q, m)[i] = q[i + d]
           /\ Submit(q, m)[Len(q) - d + 1] = m
<1>1. UsbMaxQlen \in Nat \ {0} /\ Len(q) \in Nat
  BY SystemAssumption
<1>2. CASE Len(q) >= UsbMaxQlen
  <2>1. q # <<>>
    BY <1>1, <1>2
  <2>2. Tail(q) \in Seq(S) /\ Len(Tail(q)) = Len(q) - 1
        /\ \A i \in 1..Len(q) - 1 : Tail(q)[i] = q[i + 1]
    BY <2>1
  <2>3. /\ Len(Submit(q, m)) = Len(q) - 1 + 1
        /\ \A i \in 1..Len(q) - 1 : Submit(q, m)[i] = q[i + 1]
        /\ Submit(q, m)[Len(q) - 1 + 1] = m
    BY <1>1, <1>2, <2>2 DEF Submit
  <2> QED  BY <1>2, <2>1, <2>3
<1>3. CASE ~(Len(q) >= UsbMaxQlen)
  <2>1. /\ Len(Submit(q, m)) = Len(q) - 0 + 1
        /\ \A i \in 1..Len(q) - 0 : Submit(q, m)[i] = q[i + 0]
        /\ Submit(q, m)[Len(q) - 0 + 1] = m
    BY <1>1, <1>3 DEF Submit
  <2> QED  BY <1>3, <2>1
<1> QED  BY <1>2, <1>3

\* SubmitAll, for as many messages as a change of the levels can report.
LEMMA SubmitAllIs ==
  ASSUME NEW q, NEW s, NEW a, NEW b, NEW c, NEW k \in 0..3, Len(s) = k,
         k >= 1 => s[1] = a, k >= 2 => s[2] = b, k >= 3 => s[3] = c
  PROVE  SubmitAll(q, s) = IF k = 0 THEN q ELSE IF k = 1 THEN Submit(q, a)
                           ELSE IF k = 2 THEN Submit(Submit(q, a), b)
                           ELSE Submit(Submit(Submit(q, a), b), c)
<1> DEFINE F == CHOOSE f : f = [n \in 0..Len(s) |->
                                     IF n = 0 THEN q ELSE Submit(f[n - 1], s[n])]
           G == [n \in 0..3 |-> IF n = 0 THEN q ELSE IF n = 1 THEN Submit(q, a)
                               ELSE IF n = 2 THEN Submit(Submit(q, a), b)
                               ELSE Submit(Submit(Submit(q, a), b), c)]
<1> DEFINE g == [n \in 0..k |-> G[n]]
<1>1. \A n \in 0..k : g[n] = IF n = 0 THEN q ELSE Submit(g[n - 1], s[n])
  <2> SUFFICES ASSUME NEW n \in 0..k
               PROVE  g[n] = IF n = 0 THEN q ELSE Submit(g[n - 1], s[n])
    OBVIOUS
  <2>1. n \in 0..3 /\ g[n] = G[n] /\ (n # 0 => g[n - 1] = G[n - 1])
    OBVIOUS
  <2>2. n = 0 \/ n = 1 \/ n = 2 \/ n = 3
    BY <2>1
  <2>3. /\ G[0] = q /\ G[1] = Submit(G[0], a) /\ G[2] = Submit(G[1], b)
      /\ G[3] = Submit(G[2], c)
    OBVIOUS
  <2> HIDE DEF G, g
  <2>4. CASE n = 0
    BY <2>1, <2>3, <2>4
  <2>5. CASE n = 1
    BY <2>1, <2>3, <2>5
  <2>6. CASE n = 2
    BY <2>1, <2>3, <2>6
  <2>7. CASE n = 3
    BY <2>1, <2>3, <2>7
  <2> QED  BY <2>2, <2>4, <2>5, <2>6, <2>7
<1>2. g = [n \in 0..Len(s) |-> IF n = 0 THEN q ELSE Submit(g[n - 1], s[n])]
  <2>1. DOMAIN g = 0..k
    OBVIOUS
  <2>2. g = [n \in 0..k |-> g[n]]
    OBVIOUS
  <2> HIDE DEF g, G
  <2> QED  BY <1>1, <2>2
<1> HIDE DEF g, G
<1>3. F = [n \in 0..Len(s) |-> IF n = 0 THEN q ELSE Submit(F[n - 1], s[n])]
  BY <1>2
<1> HIDE DEF F
<1>4. \A n \in 0..k : F[n] = IF n = 0 THEN q ELSE Submit(F[n - 1], s[n])
  BY <1>3
<1>5. /\ G[0] = q /\ G[1] = Submit(G[0], a) /\ G[2] = Submit(G[1], b)
      /\ G[3] = Submit(G[2], c)
  BY DEF G
<1>6. F[0] = G[0]
  BY <1>4, <1>5
<1>7. k >= 1 => F[1] = G[1]
  BY <1>4, <1>5, <1>6
<1>8. k >= 2 => F[2] = G[2]
  BY <1>4, <1>5, <1>7
<1>9. k >= 3 => F[3] = G[3]
  BY <1>4, <1>5, <1>8
<1>10. k = 0 \/ k = 1 \/ k = 2 \/ k = 3
  OBVIOUS
<1>11. F[k] = G[k]
  BY <1>6, <1>7, <1>8, <1>9, <1>10
<1>12. SubmitAll(q, s) = F[k]
  BY DEF SubmitAll, F
<1> QED  BY <1>11, <1>12 DEF G

LEMMA SubmitNone ==
  ASSUME NEW q
  PROVE  SubmitAll(q, <<>>) = q
<1>1. Len(<<>>) = 0 /\ 0 \in 0..3 /\ ~(0 >= 1) /\ ~(0 >= 2) /\ ~(0 >= 3)
  OBVIOUS
<1> QED  BY <1>1, SubmitAllIs

LEMMA SubmitOne ==
  ASSUME NEW q, NEW a
  PROVE  SubmitAll(q, <<a>>) = Submit(q, a)
<1>1. Len(<<a>>) = 1 /\ 1 \in 0..3 /\ ~(1 >= 2) /\ ~(1 >= 3) /\ 1 # 0 /\ <<a>>[1] = a
  OBVIOUS
<1> QED  BY <1>1, SubmitAllIs

LEMMA SubmitTwo ==
  ASSUME NEW q, NEW a, NEW b
  PROVE  SubmitAll(q, <<a, b>>) = Submit(Submit(q, a), b)
<1>1. /\ Len(<<a, b>>) = 2 /\ 2 \in 0..3 /\ ~(2 >= 3) /\ 2 # 0 /\ 2 # 1
      /\ <<a, b>>[1] = a /\ <<a, b>>[2] = b
  OBVIOUS
<1> QED  BY <1>1, SubmitAllIs

LEMMA SubmitThree ==
  ASSUME NEW q, NEW a, NEW b, NEW c
  PROVE  SubmitAll(q, <<a, b, c>>) = Submit(Submit(Submit(q, a), b), c)
<1>1. /\ Len(<<a, b, c>>) = 3 /\ 3 \in 0..3 /\ 3 # 0 /\ 3 # 1 /\ 3 # 2
      /\ <<a, b, c>>[1] = a /\ <<a, b, c>>[2] = b /\ <<a, b, c>>[3] = c
  OBVIOUS
<1> QED  BY <1>1, SubmitAllIs

-----------------------------------------------------------------------------
(* Completed transfers: how many there are of an endpoint, and the one of   *)
(* the interrupt endpoint.                                                  *)

At(e, u) == {i \in DOMAIN u : u[i][1] = e}
Urbs == Seq(Endpoint \X MsgType)

LEMMA AtFinite ==
  ASSUME NEW e, NEW u \in Urbs
  PROVE  IsFiniteSet(At(e, u)) /\ Cardinality(At(e, u)) \in Nat
<1>1. At(e, u) \in SUBSET (1..Len(u)) /\ Len(u) \in Nat
  BY DEF At, Urbs
<1>2. IsFiniteSet(1..Len(u))
  BY <1>1, FS_Interval
<1> QED  BY <1>1, <1>2, FS_Subset, FS_CardinalityType

LEMMA AtAppend ==
  ASSUME NEW e, NEW d \in Endpoint, NEW u \in Urbs, NEW m \in MsgType
  PROVE  /\ Append(u, <<d, m>>) \in Urbs
         /\ d # e => At(e, Append(u, <<d, m>>)) = At(e, u)
         /\ d = e => Cardinality(At(e, Append(u, <<d, m>>))) = Cardinality(At(e, u)) + 1
<1> DEFINE v == Append(u, <<d, m>>)
<1>1. <<d, m>> \in Endpoint \X MsgType /\ <<d, m>>[1] = d
  OBVIOUS
<1>2. v \in Urbs /\ Len(v) = Len(u) + 1 /\ Len(u) \in Nat
  BY <1>1 DEF Urbs
<1>3. \A i \in 1..Len(u) : v[i] = u[i]
  BY DEF Urbs
<1>4. v[Len(u) + 1] = <<d, m>>
  BY <1>1 DEF Urbs
<1>5. DOMAIN v = 1..Len(u) + 1 /\ DOMAIN u = 1..Len(u)
  BY <1>2 DEF Urbs
<1> HIDE DEF v
<1>6. At(e, v) = IF d = e THEN At(e, u) \cup {Len(u) + 1} ELSE At(e, u)
  BY <1>1, <1>2, <1>3, <1>4, <1>5 DEF At
<1>7. Len(u) + 1 \notin At(e, u)
  BY <1>2, <1>5 DEF At
<1>8. d = e => Cardinality(At(e, v)) = Cardinality(At(e, u)) + 1
  BY <1>6, <1>7, AtFinite, FS_AddElement
<1> QED  BY <1>2, <1>6, <1>8 DEF v

LEMMA AtTail ==
  ASSUME NEW e, NEW u \in Urbs, u # <<>>
  PROVE  /\ Tail(u) \in Urbs
         /\ At(e, Tail(u)) = {i \in 1..Len(u) - 1 : i + 1 \in At(e, u)}
         /\ Cardinality(At(e, Tail(u))) =
              IF u[1][1] = e THEN Cardinality(At(e, u)) - 1 ELSE Cardinality(At(e, u))
<1> DEFINE v == Tail(u)
<1>1. /\ v \in Urbs /\ Len(u) \in Nat \ {0} /\ DOMAIN u = 1..Len(u)
      /\ Len(v) = Len(u) - 1 /\ DOMAIN v = 1..Len(u) - 1
      /\ \A i \in 1..Len(u) - 1 : v[i] = u[i + 1]
  BY DEF Urbs
<1> HIDE DEF v
<1>2. At(e, v) = {i \in 1..Len(u) - 1 : i + 1 \in At(e, u)}
  BY <1>1 DEF At
<1> DEFINE R == At(e, u) \ {1}
           f == [i \in At(e, v) |-> i + 1]
<1>3. At(e, u) \subseteq 1..Len(u)
  BY <1>1 DEF At
<1>4. f \in Bijection(At(e, v), R)
  <2>1. \A i \in At(e, v) : f[i] \in R
    BY <1>1, <1>2
  <2>2. \A j \in R : j - 1 \in At(e, v) /\ f[j - 1] = j
    <3> SUFFICES ASSUME NEW j \in R PROVE j - 1 \in At(e, v) /\ f[j - 1] = j
      OBVIOUS
    <3>1. j \in 2..Len(u) /\ j \in At(e, u) /\ j - 1 \in 1..Len(u) - 1 /\ (j - 1) + 1 = j
      BY <1>1, <1>3
    <3>2. j - 1 \in At(e, v)
      BY <1>2, <3>1
    <3> QED  BY <3>1, <3>2
  <2>3. \A i, j \in At(e, v) : f[i] = f[j] => i = j
    BY <1>1, <1>2
  <2> HIDE DEF R
  <2>4. f \in [At(e, v) -> R]
    BY <2>1
  <2> HIDE DEF f
  <2>5. \A j \in R : \E i \in At(e, v) : f[i] = j
    BY <2>2
  <2>6. DOMAIN f = At(e, v)
    BY <2>4
  <2>7. f \in Injection(At(e, v), R)
    BY <2>3, <2>4, <2>6 DEF Injection, IsInjective
  <2>8. f \in Surjection(At(e, v), R)
    BY <2>4, <2>5 DEF Surjection
  <2> QED  BY <2>7, <2>8 DEF Bijection
<1>5. Cardinality(At(e, v)) = Cardinality(R)
  <2>1. IsFiniteSet(At(e, v)) /\ IsFiniteSet(At(e, u))
    BY <1>1, AtFinite
  <2>2. IsFiniteSet(R)
    BY <2>1, FS_Subset
  <2> HIDE DEF f, R
  <2>3. ExistsBijection(At(e, v), R)
    BY <1>4 DEF ExistsBijection
  <2> QED  BY <2>1, <2>2, <2>3, FS_Bijection
<1>6. u[1][1] = e => Cardinality(R) = Cardinality(At(e, u)) - 1
  <2>1. u[1][1] = e => 1 \in At(e, u)
    BY <1>1 DEF At
  <2> QED  BY <2>1, AtFinite, FS_RemoveElement
<1>7. u[1][1] # e => R = At(e, u)
  BY DEF At
<1> QED  BY <1>1, <1>2, <1>5, <1>6, <1>7 DEF v

LEMMA AtNone ==
  ASSUME NEW e
  PROVE  <<>> \in Urbs /\ At(e, <<>>) = {} /\ Cardinality(At(e, <<>>)) = 0
BY FS_EmptySet DEF At, Urbs

LEMMA CompletedIs ==
  ASSUME NEW e
  PROVE  Completed(e) = Cardinality(At(e, urbs)) /\ Completed(e)' = Cardinality(At(e, urbs'))
BY DEF Completed, At

\* Of the interrupt endpoint at most one transfer is complete; its message, or none.
OneInt(u) == \A i, j \in At("INT", u) : i = j
IntUrb(u) == IF At("INT", u) = {} THEN NoMsg ELSE u[CHOOSE i \in At("INT", u) : TRUE][2]

LEMMA IntUrbNone == OneInt(<<>>) /\ IntUrb(<<>>) = NoMsg
BY AtNone DEF OneInt, IntUrb

LEMMA IntUrbIs ==
  ASSUME NEW u, OneInt(u), NEW i \in At("INT", u)
  PROVE  IntUrb(u) = u[i][2]
<1>1. (CHOOSE j \in At("INT", u) : TRUE) \in At("INT", u)
  OBVIOUS
<1>2. (CHOOSE j \in At("INT", u) : TRUE) = i
  BY <1>1 DEF OneInt
<1> QED  BY <1>2 DEF IntUrb

\* It arrives when there is none,
LEMMA IntUrbArrives ==
  ASSUME NEW u \in Urbs, NEW m \in MsgType, Cardinality(At("INT", u)) < 1
  PROVE  /\ OneInt(Append(u, <<"INT", m>>)) /\ IntUrb(Append(u, <<"INT", m>>)) = m
         /\ IntUrb(u) = NoMsg
<1>1. At("INT", u) = {}
  BY AtFinite, FS_EmptySet
<1> DEFINE v == Append(u, <<"INT", m>>)
<1>2. /\ DOMAIN v = 1..Len(u) + 1 /\ Len(u) \in Nat /\ DOMAIN u = 1..Len(u)
      /\ \A i \in 1..Len(u) : v[i] = u[i]
  <2>1. <<"INT", m>> \in Endpoint \X MsgType
    BY DEF Endpoint
  <2> QED  BY <2>1 DEF Urbs
<1>3. v[Len(u) + 1] = <<"INT", m>>
  BY DEF Urbs
<1> HIDE DEF v
<1>4. At("INT", v) = {Len(u) + 1}
  <2>1. Len(u) + 1 \in At("INT", v)
    BY <1>2, <1>3 DEF At
  <2>2. ASSUME NEW i \in At("INT", v) PROVE i = Len(u) + 1
    <3>1. i \in 1..Len(u) + 1 /\ v[i][1] = "INT"
      BY <1>2 DEF At
    <3>2. i \notin 1..Len(u)
      BY <1>1, <1>2, <3>1 DEF At
    <3> QED  BY <1>2, <3>1, <3>2
  <2> QED  BY <2>1, <2>2
<1>5. OneInt(v)
  BY <1>4 DEF OneInt
<1>6. IntUrb(v) = v[Len(u) + 1][2]
  <2>1. Len(u) + 1 \in At("INT", v)
    BY <1>4
  <2> QED  BY <2>1, <1>5, IntUrbIs
<1>7. IntUrb(v) = m
  BY <1>3, <1>6
<1>8. IntUrb(u) = NoMsg
  BY <1>1 DEF IntUrb
<1> QED  BY <1>5, <1>7, <1>8 DEF v

\* others leave it alone,
LEMMA IntUrbStays ==
  ASSUME NEW u \in Urbs, OneInt(u), NEW m \in MsgType
  PROVE  OneInt(Append(u, <<"IN", m>>)) /\ IntUrb(Append(u, <<"IN", m>>)) = IntUrb(u)
<1> DEFINE v == Append(u, <<"IN", m>>)
<1>1. At("INT", v) = At("INT", u)
  <2>1. "IN" \in Endpoint /\ "IN" # "INT"
    BY DEF Endpoint
  <2> QED  BY <2>1, AtAppend
<1>2. \A i \in At("INT", u) : v[i] = u[i]
  BY DEF At, Urbs
<1> HIDE DEF v
<1>3. OneInt(v)
  BY <1>1 DEF OneInt
<1>4. IntUrb(v) = IntUrb(u)
  <2>1. CASE At("INT", u) = {}
    BY <1>1, <2>1 DEF IntUrb
  <2>2. CASE At("INT", u) # {}
    <3>1. PICK i \in At("INT", u) : TRUE
      BY <2>2
    <3>2. IntUrb(u) = u[i][2]
      BY <3>1, IntUrbIs
    <3>3. i \in At("INT", v) /\ v[i] = u[i]
      BY <1>1, <1>2, <3>1
    <3> QED  BY <1>3, <3>2, <3>3, IntUrbIs
  <2> QED  BY <2>1, <2>2
<1> QED  BY <1>3, <1>4 DEF v

\* and it is gone once the host has read it.
LEMMA IntUrbRead ==
  ASSUME NEW u \in Urbs, OneInt(u), u # <<>>
  PROVE  /\ OneInt(Tail(u))
         /\ u[1][1] = "INT" => IntUrb(Tail(u)) = NoMsg /\ IntUrb(u) = u[1][2]
         /\ u[1][1] # "INT" => IntUrb(Tail(u)) = IntUrb(u)
<1> DEFINE v == Tail(u)
<1>1. /\ At("INT", v) = {i \in 1..Len(u) - 1 : i + 1 \in At("INT", u)}
      /\ Len(u) \in Nat \ {0} /\ DOMAIN u = 1..Len(u)
      /\ \A i \in 1..Len(u) - 1 : v[i] = u[i + 1]
  BY AtTail DEF Urbs
<1> HIDE DEF v
<1>2. OneInt(v)
  BY <1>1 DEF OneInt
<1>3. CASE u[1][1] = "INT"
  <2>1. 1 \in At("INT", u)
    BY <1>1, <1>3 DEF At
  <2>2. At("INT", v) = {}
    <3>1. ASSUME NEW i \in At("INT", v) PROVE FALSE
      <4>1. i \in Nat \ {0} /\ i + 1 \in At("INT", u)
        BY <1>1
      <4> QED  BY <2>1, <4>1 DEF OneInt
    <3> QED  BY <3>1
  <2> QED  BY <1>2, <1>3, <2>1, <2>2, IntUrbIs DEF v, IntUrb
<1>4. CASE u[1][1] # "INT"
  <2>1. \A j \in At("INT", u) : j \in 2..Len(u)
    BY <1>1, <1>4 DEF At
  <2>2. CASE At("INT", u) = {}
    BY <1>1, <1>2, <1>4, <2>2 DEF v, IntUrb
  <2>3. CASE At("INT", u) # {}
    <3>1. PICK j \in At("INT", u) : TRUE
      BY <2>3
    <3>2. j - 1 \in 1..Len(u) - 1 /\ (j - 1) + 1 = j
      BY <1>1, <2>1
    <3>3. j - 1 \in At("INT", v) /\ v[j - 1] = u[j]
      BY <1>1, <3>2
    <3>4. IntUrb(v) = v[j - 1][2] /\ IntUrb(u) = u[j][2]
      BY <1>2, <3>3, IntUrbIs
    <3> QED  BY <1>2, <1>4, <3>3, <3>4 DEF v
  <2> QED  BY <2>2, <2>3
<1> QED  BY <1>3, <1>4

-----------------------------------------------------------------------------
(* What travels where.                                                      *)

InMsg == {m \in MsgType : m.k \in InKind}
StatusMsg == {m \in MsgType : m.k = "STATUS"}
Answer == {m \in MsgType : m.k \in TxKind}
Request == {m \in MsgType : m.k \in CmdKind}

Carried(e) == IF e = "IN" THEN InMsg ELSE StatusMsg
Queue(e) == {q \in Seq(Carried(e)) : Len(q) <= UsbMaxQlen}
EpType(e) == [q : Queue(e), busy : Carried(e) \cup {NoMsg}]
UrbType == ({"IN"} \X InMsg) \cup ({"INT"} \X StatusMsg)
Transfer == {t \in Seq(Answer) : t # <<>>} \cup {<<r>> : r \in Request}

RdType == [phase : {"off", "idle", "wait", "body"}, cmd : CmdType, sw : {"0000", "9000", "6Cxx"}]
FwType == [state : {"OFF", "ATR", "WAIT_TPDU", "WAIT_PB", "WAIT_RX", "WAIT_TX"},
           pins : SUBSET Flag, level : LevelType, enabled : BOOLEAN, irq : BOOLEAN]
AcType == [cmd : CmdType, apduCase : 0..4, more : BOOLEAN, sw : {"0000", "9000", "6Cxx"}]
HostType == [up : BOOLEAN, flags : SUBSET Flag, ac : AcType, busy : BOOLEAN]

LEMMA MsgIs ==
  ASSUME NEW k, NEW cmd, NEW flags
  PROVE  Msg(k, cmd, flags).k = k /\ Msg(k, cmd, flags).cmd = cmd
         /\ Msg(k, cmd, flags).flags = flags
BY DEF Msg

LEMMA NoCmdType == NoCmd \in CmdType /\ NoAc \in AcType
BY SystemAssumption DEF NoCmd, CmdType, NoAc, AcType

LEMMA MsgsAre ==
  ASSUME NEW cmd \in CmdType
  PROVE  /\ \A k \in InKind : Msg(k, cmd, {}) \in InMsg
         /\ \A k \in TxKind : Msg(k, cmd, {}) \in Answer
         /\ \A k \in CmdKind : Msg(k, cmd, {}) \in Request
         /\ \A pins \in SUBSET Flag : Msg("STATUS", cmd, pins) \in StatusMsg
BY DEF Msg, MsgType, InMsg, StatusMsg, Answer, Request, InKind, TxKind, CmdKind

LEMMA PlainAre ==
  /\ Plain("CONFIG") \in InMsg /\ Plain("CONFIG").k = "CONFIG"
  /\ \A k \in CmdKind : Plain(k) \in Request /\ Plain(k).k = k
BY MsgsAre, MsgIs, NoCmdType DEF Plain, InKind

LEMMA NoteIs ==
  ASSUME NEW pins \in SUBSET Flag
  PROVE  Note(pins) \in StatusMsg /\ Note(pins).flags = pins
BY MsgsAre, MsgIs, NoCmdType DEF Note

LEMMA NoMsgIs == NoMsg.k = "none" /\ NoMsg \notin InMsg /\ NoMsg \notin StatusMsg /\ NoMsg \in MsgType
<1>1. NoMsg.k = "none"
  BY MsgIs DEF NoMsg, Plain
<1>2. NoMsg \in MsgType
  BY NoCmdType DEF NoMsg, Plain, Msg, MsgType
<1> QED  BY <1>1, <1>2 DEF InMsg, StatusMsg, InKind

LEMMA CarriedIs ==
  /\ "IN" \in Endpoint /\ "INT" \in Endpoint /\ "IN" # "INT"
  /\ Carried("IN") = InMsg /\ Carried("INT") = StatusMsg
  /\ \A e \in Endpoint : e = "IN" \/ e = "INT"
  /\ \A e \in Endpoint : Carried(e) \subseteq MsgType
BY DEF Carried, Endpoint, InMsg, StatusMsg

LEMMA UrbsAre ==
  ASSUME NEW u \in Seq(UrbType)
  PROVE  u \in Urbs
<1>1. UrbType \subseteq Endpoint \X MsgType
  BY DEF UrbType, Endpoint, InMsg, StatusMsg
<1> QED  BY <1>1, SeqMonotonic DEF Urbs

\* A transfer's commands are all answers, or it is a single request.
LEMMA TransferIs ==
  ASSUME NEW t \in Transfer
  PROVE  /\ t # <<>> /\ Len(t) \in Nat \ {0} /\ DOMAIN t = 1..Len(t) /\ 1 \in DOMAIN t
         /\ t[1].k \in TxKind => t \in Seq(Answer) /\ \A i \in DOMAIN t : t[i] \in Answer
         /\ t[1].k \notin TxKind => Len(t) = 1 /\ t[1] \in Request
         /\ t[1].k \in TxKind <=> t[1].k \notin CmdKind
<1>1. CASE t \in Seq(Answer) /\ t # <<>>
  <2>1. Len(t) \in Nat \ {0} /\ DOMAIN t = 1..Len(t) /\ \A i \in DOMAIN t : t[i] \in Answer
    BY <1>1
  <2>2. t[1].k \in TxKind
    BY <2>1 DEF Answer
  <2>3. t[1].k \notin CmdKind
    BY <2>2 DEF TxKind, CmdKind
  <2> QED  BY <1>1, <2>1, <2>2, <2>3
<1>2. CASE \E r \in Request : t = <<r>>
  <2>1. PICK r \in Request : t = <<r>>
    BY <1>2
  <2>2. t # <<>> /\ Len(t) = 1 /\ DOMAIN t = 1..1 /\ t[1] = r
    BY <2>1
  <2>3. t[1].k \in CmdKind /\ t[1].k \notin TxKind
    BY <2>2 DEF Request, TxKind, CmdKind
  <2> QED  BY <2>2, <2>3
<1> QED  BY <1>1, <1>2 DEF Transfer

LEMMA TransfersAre ==
  /\ \A a \in Answer : <<a>> \in Transfer /\ <<a>>[1] = a
  /\ \A a, b \in Answer : <<a, b>> \in Transfer /\ <<a, b>>[1] = a
  /\ \A r \in Request : <<r>> \in Transfer /\ <<r>>[1] = r
<1>1. ASSUME NEW a \in Answer PROVE <<a>> \in Transfer /\ <<a>>[1] = a
  BY DEF Transfer
<1>2. ASSUME NEW a \in Answer, NEW b \in Answer PROVE <<a, b>> \in Transfer /\ <<a, b>>[1] = a
  BY DEF Transfer
<1>3. ASSUME NEW r \in Request PROVE <<r>> \in Transfer /\ <<r>>[1] = r
  BY DEF Transfer
<1> QED  BY <1>1, <1>2, <1>3

LEMMA StartupIs ==
  /\ Startup \in Seq(Transfer) /\ Len(Startup) = 2
  /\ Startup[1][1].k = "CONFIG" /\ Startup[2][1].k = "SELECT"
<1> DEFINE c == <<Plain("CONFIG")>>
           s == <<Plain("SELECT")>>
<1>1. c \in Transfer /\ c[1].k = "CONFIG"
  BY TransfersAre, PlainAre DEF CmdKind
<1>2. s \in Transfer /\ s[1].k = "SELECT"
  BY TransfersAre, PlainAre DEF CmdKind
<1>3. Startup = <<c, s>>
  BY DEF Startup
<1> HIDE DEF c, s
<1>4. <<c, s>> \in Seq(Transfer) /\ Len(<<c, s>>) = 2 /\ <<c, s>>[1] = c /\ <<c, s>>[2] = s
  BY <1>1, <1>2
<1> QED  BY <1>1, <1>2, <1>3, <1>4

-----------------------------------------------------------------------------
(* Changes of the endpoints.                                                *)

EpTyped(p) == p = [e \in Endpoint |-> p[e]] /\ \A e \in Endpoint : p[e] \in EpType(e)

\* r is p but for the queue of endpoint e, or its transfer
QueueSet(p, r, e, q) == r = [p EXCEPT ![e].q = q]
Cleared(p, r, e) == r = [p EXCEPT ![e].busy = NoMsg]
Armed(p, r, e, x) == r = [p EXCEPT ![e] = x]

LEMMA QueueSetIs ==
  ASSUME NEW p, EpTyped(p), NEW e \in Endpoint, NEW q \in Queue(e), NEW r, QueueSet(p, r, e, q)
  PROVE  /\ EpTyped(r) /\ r[e].q = q /\ r[e].busy = p[e].busy
         /\ \A d \in Endpoint : d # e => r[d] = p[d]
<1>1. p[e] \in EpType(e) /\ \A d \in Endpoint : p[d] \in EpType(d)
  BY DEF EpTyped
<1>2. [p[e] EXCEPT !.q = q] \in EpType(e) /\ [p[e] EXCEPT !.q = q].q = q
      /\ [p[e] EXCEPT !.q = q].busy = p[e].busy
  BY <1>1 DEF EpType
<1>3. PICK x : x = [p[e] EXCEPT !.q = q]
  OBVIOUS
<1>4. r = [d \in Endpoint |-> IF d = e THEN x ELSE p[d]]
  BY <1>3 DEF EpTyped, QueueSet
<1>5. x \in EpType(e) /\ x.q = q /\ x.busy = p[e].busy
  BY <1>2, <1>3
<1> HIDE <1>3
<1> QED  BY <1>1, <1>4, <1>5 DEF EpTyped

LEMMA ArmedIs ==
  ASSUME NEW p, EpTyped(p), NEW e \in Endpoint, NEW x \in EpType(e), NEW r, Armed(p, r, e, x)
  PROVE  /\ EpTyped(r) /\ r[e] = x
         /\ \A d \in Endpoint : d # e => r[d] = p[d]
<1>1. r = [d \in Endpoint |-> IF d = e THEN x ELSE p[d]]
  BY DEF EpTyped, Armed
<1>2. \A d \in Endpoint : p[d] \in EpType(d)
  BY DEF EpTyped
<1> QED  BY <1>1, <1>2 DEF EpTyped

LEMMA ClearedIs ==
  ASSUME NEW p, EpTyped(p), NEW e \in Endpoint, NEW r, Cleared(p, r, e)
  PROVE  /\ EpTyped(r) /\ r[e].q = p[e].q /\ r[e].busy = NoMsg
         /\ \A d \in Endpoint : d # e => r[d] = p[d]
<1>1. p[e] \in EpType(e) /\ \A d \in Endpoint : p[d] \in EpType(d)
  BY DEF EpTyped
<1>2. [p[e] EXCEPT !.busy = NoMsg] \in EpType(e) /\ [p[e] EXCEPT !.busy = NoMsg].q = p[e].q
      /\ [p[e] EXCEPT !.busy = NoMsg].busy = NoMsg
  BY <1>1 DEF EpType
<1>3. PICK x : x = [p[e] EXCEPT !.busy = NoMsg]
  OBVIOUS
<1>4. r = [d \in Endpoint |-> IF d = e THEN x ELSE p[d]]
  BY <1>3 DEF EpTyped, Cleared
<1>5. x \in EpType(e) /\ x.q = p[e].q /\ x.busy = NoMsg
  BY <1>2, <1>3
<1> HIDE <1>3
<1> QED  BY <1>1, <1>4, <1>5 DEF EpTyped

LEMMA SubmitQueue ==
  ASSUME NEW e \in Endpoint, NEW q \in Queue(e), NEW m \in Carried(e)
  PROVE  Submit(q, m) \in Queue(e) /\ Submit(q, m) # <<>> /\ Last(Submit(q, m)) = m
BY SubmitIs DEF Queue

-----------------------------------------------------------------------------
(* process_io_statechg.                                                     *)

\* The card's pins are those of the levels it sees, and until the host has set its
\* configuration it is not enabled.
LineOk ==
  /\ line \in LevelType /\ fw \in FwType
  /\ fw.level = Level(line, fw.enabled) /\ fw.pins = PinsOf(fw.level)
  /\ ~fw.irq => ~fw.enabled

ReaderOk == rd \in RdType /\ txQ \in Seq(Answer)
CardOff == fw.state \in {"OFF", "ATR"} => rd.phase = "off"

Ends(old, new) == (old.vcc /\ ~new.vcc) \/ (~old.rst /\ new.rst)

Statuses(r) == [i \in DOMAIN r |-> Msg("STATUS", NoCmd, r[i])]

LEMMA StatusesAre ==
  ASSUME NEW a, NEW b, NEW c
  PROVE  /\ Statuses(<<>>) = <<>> /\ Statuses(<<a>>) = <<Note(a)>>
         /\ Statuses(<<a, b>>) = <<Note(a), Note(b)>>
         /\ Statuses(<<a, b, c>>) = <<Note(a), Note(b), Note(c)>>
<1>1. \A x : Msg("STATUS", NoCmd, x) = Note(x)
  BY DEF Note
<1>2. ASSUME NEW r PROVE Statuses(r) = [i \in DOMAIN r |-> Note(r[i])]
  BY <1>1 DEF Statuses
<1>3. Statuses(<<>>) = <<>>
  BY DEF Statuses
<1>4. Statuses(<<a>>) = <<Note(a)>>
  BY <1>2
<1>5. Statuses(<<a, b>>) = <<Note(a), Note(b)>>
  BY <1>2
<1>6. Statuses(<<a, b, c>>) = <<Note(a), Note(b), Note(c)>>
  BY <1>2
<1> QED  BY <1>3, <1>4, <1>5, <1>6

LEMMA LevelIs ==
  ASSUME NEW l \in LevelType, NEW on \in BOOLEAN
  PROVE  Level(l, on) \in LevelType /\ Level(l, on).vcc = (l.vcc /\ on)
         /\ Level(l, on).rst = (l.rst /\ on)
BY DEF Level, LevelType

\* The pins it arrives at,
LEMMA PinsReached ==
  ASSUME LineOk, NEW new \in LevelType
  PROVE  /\ (IF Reports(fw, new) = <<>> THEN fw.pins ELSE Last(Reports(fw, new))) = PinsOf(new)
         /\ PinsOf(new) \in SUBSET Flag
<1>1. fw.level \in LevelType /\ fw.pins = PinsOf(fw.level)
  BY DEF LineOk, FwType
<1>2. PinsOf(new) \in SUBSET Flag
  BY DEF PinsOf, Flag
<1>3. \/ new = fw.level /\ Reports(fw, new) = <<>>
      \/ \E a : Reports(fw, new) = <<a>> /\ a = PinsOf(new)
      \/ \E a, b : Reports(fw, new) = <<a, b>> /\ b = PinsOf(new)
      \/ \E a, b, c : Reports(fw, new) = <<a, b, c>> /\ c = PinsOf(new)
  BY <1>1, ReportsCases
<1>4. \A a, b, c : <<a>> # <<>> /\ <<a, b>> # <<>> /\ <<a, b, c>> # <<>>
  OBVIOUS
<1>5. CASE Reports(fw, new) = <<>>
  BY <1>1, <1>2, <1>3, <1>4, <1>5
<1>6. CASE Reports(fw, new) # <<>>
  <2>1. Last(Reports(fw, new)) = PinsOf(new)
    <3>1. CASE \E a : Reports(fw, new) = <<a>> /\ a = PinsOf(new)
      <4>1. PICK a : Reports(fw, new) = <<a>> /\ a = PinsOf(new)
        BY <3>1
      <4>2. Last(<<a>>) = a
        BY LastIs
      <4> QED  BY <4>1, <4>2
    <3>2. CASE \E a, b : Reports(fw, new) = <<a, b>> /\ b = PinsOf(new)
      <4>1. PICK a, b : Reports(fw, new) = <<a, b>> /\ b = PinsOf(new)
        BY <3>2
      <4>2. Last(<<a, b>>) = b
        BY LastIs
      <4> QED  BY <4>1, <4>2
    <3>3. CASE \E a, b, c : Reports(fw, new) = <<a, b, c>> /\ c = PinsOf(new)
      <4>1. PICK a, b, c : Reports(fw, new) = <<a, b, c>> /\ c = PinsOf(new)
        BY <3>3
      <4>2. Last(<<a, b, c>>) = c
        BY LastOfThree
      <4> QED  BY <4>1, <4>2
    <3> QED  BY <1>3, <1>6, <3>1, <3>2, <3>3
  <2> QED  BY <1>2, <1>6, <2>1
<1> QED  BY <1>5, <1>6

\* what becomes of the card and of its session,
LEMMA IoCard ==
  ASSUME LineOk, ReaderOk, CardOff, NEW l \in LevelType, NEW on \in BOOLEAN,
         ~fw.irq => ~on, IoStateChg(l, on)
  PROVE  /\ fw' \in FwType /\ fw'.level = Level(l, on) /\ fw'.pins = PinsOf(fw'.level)
         /\ fw'.enabled = on /\ fw'.irq = fw.irq
         /\ fw'.state \in {"OFF", "ATR"} => rd'.phase = "off"
         /\ IF Ends(fw.level, Level(l, on))
            THEN /\ txQ' = <<>> /\ rd' \in RdType /\ rd'.phase = "off" /\ rd'.cmd = rd.cmd
                 /\ sess' = sess + 1 /\ torn' = Underway /\ lost' = FALSE
            ELSE UNCHANGED <<txQ, rd, sess, torn, lost>>
<1>1. PICK new : new = Level(l, on)
  OBVIOUS
<1>2. new \in LevelType
  BY <1>1, LevelIs
<1>3. PICK p \in SUBSET Flag :
        p = PinsOf(new)
        /\ p = (IF Reports(fw, new) = <<>> THEN fw.pins ELSE Last(Reports(fw, new)))
  BY <1>2, PinsReached
<1>4. PICK f : f = [fw EXCEPT !.pins = p, !.level = new, !.enabled = on,
                              !.state = IF Ends(fw.level, new) THEN "OFF" ELSE @]
  OBVIOUS
<1>5. /\ f \in FwType /\ f.level = new /\ f.pins = p /\ f.enabled = on /\ f.irq = fw.irq
      /\ f.state = IF Ends(fw.level, new) THEN "OFF" ELSE fw.state
  BY <1>2, <1>3, <1>4 DEF LineOk, FwType
<1>6. fw' = EndActivation(f)
  BY <1>1, <1>3, <1>4 DEF IoStateChg, Ends
<1> HIDE <1>3, <1>4
<1>7. /\ fw' \in FwType /\ fw'.level = new /\ fw'.pins = p /\ fw'.enabled = on
      /\ fw'.irq = fw.irq
      /\ fw'.state \in {"OFF", "ATR"} => f.state \in {"OFF", "ATR"}
  BY <1>5, <1>6 DEF EndActivation, FwType
<1>8. IF Ends(fw.level, new)
      THEN /\ txQ' = <<>> /\ rd' = [rd EXCEPT !.phase = "off", !.sw = "0000"]
           /\ sess' = sess + 1 /\ torn' = Underway /\ lost' = FALSE
      ELSE UNCHANGED <<txQ, rd, sess, torn, lost>>
  BY <1>1 DEF IoStateChg, Ends, CardHandleReset
<1>9. rd' = [rd EXCEPT !.phase = "off", !.sw = "0000"]
      => rd' \in RdType /\ rd'.phase = "off" /\ rd'.cmd = rd.cmd
  BY DEF ReaderOk, RdType
<1>10. f.state \in {"OFF", "ATR"} => rd'.phase = "off"
  BY <1>5, <1>8, <1>9 DEF CardOff
<1> QED  BY <1>1, <1>3, <1>7, <1>8, <1>9, <1>10

\* and what the queue of status messages holds then.
Told(q, r, old, new) ==
  \/ new = old /\ r = q
  \/ \E a \in SUBSET Flag : /\ r = Submit(q, Note(a)) /\ a = PinsOf(new)
                            /\ new.vcc = old.vcc /\ new.rst # old.rst
  \/ \E a, b \in SUBSET Flag :
       /\ r = Submit(Submit(q, Note(a)), Note(b)) /\ b = PinsOf(new) /\ new.vcc # old.vcc
       /\ new.vcc /\ ~old.rst /\ ~new.rst => a = {"VCC"}
  \/ \E a, b, c \in SUBSET Flag :
       /\ r = Submit(Submit(Submit(q, Note(a)), Note(b)), Note(c)) /\ c = PinsOf(new)
       /\ new.vcc # old.vcc /\ new.rst # old.rst

LEMMA IoEp ==
  ASSUME LineOk, EpTyped(ep), NEW l \in LevelType, NEW on \in BOOLEAN,
         ~fw.irq => ~on, IoStateChg(l, on)
  PROVE  \E r \in Queue("INT") :
           /\ QueueSet(ep, ep', "INT", r)
           /\ Told(ep["INT"].q, r, fw.level, Level(l, on))
           /\ ~fw.irq => r = ep["INT"].q
<1>1. PICK new : new = Level(l, on)
  OBVIOUS
<1>2. new \in LevelType /\ fw.level \in LevelType /\ fw.pins = PinsOf(fw.level)
  BY <1>1, LevelIs DEF LineOk, FwType
<1>3. PICK q \in Queue("INT") : q = ep["INT"].q
  BY CarriedIs DEF EpTyped, EpType
<1>4. QueueSet(ep, ep, "INT", q)
  <2>1. PICK x : x = ep["INT"]
    OBVIOUS
  <2>2. x \in EpType("INT") /\ x.q = q
    BY <1>3, <2>1, CarriedIs DEF EpTyped
  <2>3. [x EXCEPT !.q = q] = x
    BY <2>2 DEF EpType
  <2>4. [ep EXCEPT !["INT"].q = q] = [e \in Endpoint |-> IF e = "INT" THEN x ELSE ep[e]]
    BY <2>1, <2>3 DEF EpTyped
  <2> QED  BY <2>1, <2>4 DEF EpTyped, QueueSet
<1>5. CASE ~fw.irq
  <2>1. ~on /\ ~fw.enabled
    BY <1>5 DEF LineOk
  <2>2. new = fw.level
    <3>1. fw.level = Level(line, FALSE) /\ new = Level(l, FALSE)
      BY <1>1, <2>1 DEF LineOk, FwType
    <3> QED  BY <3>1 DEF Level
  <2>3. ep' = ep
    BY <1>5 DEF IoStateChg
  <2> QED  BY <1>1, <1>3, <1>4, <2>2, <2>3 DEF Told
<1>6. CASE fw.irq
  <2>1. QueueSet(ep, ep', "INT", SubmitAll(q, Statuses(Reports(fw, new))))
    BY <1>1, <1>3, <1>6 DEF IoStateChg, Statuses, QueueSet
  <2>2. \A m \in StatusMsg : \A s \in Queue("INT") : Submit(s, m) \in Queue("INT")
    BY SubmitQueue, CarriedIs
  <2>3. SubmitAll(q, Statuses(Reports(fw, new))) \in Queue("INT")
        /\ Told(q, SubmitAll(q, Statuses(Reports(fw, new))), fw.level, new)
    <3>1. CASE new = fw.level /\ Reports(fw, new) = <<>>
      BY <3>1, <1>3, StatusesAre, SubmitNone DEF Told
    <3>2. CASE \E a \in SUBSET Flag : /\ Reports(fw, new) = <<a>> /\ a = PinsOf(new)
                                      /\ new.vcc = fw.level.vcc /\ new.rst # fw.level.rst
      <4>1. PICK a \in SUBSET Flag : /\ Reports(fw, new) = <<a>> /\ a = PinsOf(new)
                                     /\ new.vcc = fw.level.vcc /\ new.rst # fw.level.rst
        BY <3>2
      <4>2. SubmitAll(q, Statuses(Reports(fw, new))) = Submit(q, Note(a))
        <5>1. Statuses(<<a>>) = <<Note(a)>>
          BY StatusesAre
        <5>2. SubmitAll(q, <<Note(a)>>) = Submit(q, Note(a))
          BY SubmitOne
        <5> QED  BY <4>1, <5>1, <5>2
      <4>3. Submit(q, Note(a)) \in Queue("INT")
        BY <2>2, NoteIs
      <4>4. Told(q, Submit(q, Note(a)), fw.level, new)
        BY <4>1 DEF Told
      <4> QED  BY <4>2, <4>3, <4>4
    <3>3. CASE \E a, b \in SUBSET Flag :
                 /\ Reports(fw, new) = <<a, b>> /\ b = PinsOf(new) /\ new.vcc # fw.level.vcc
                 /\ new.vcc /\ ~fw.level.rst /\ ~new.rst => a = {"VCC"}
      <4>1. PICK a, b \in SUBSET Flag :
                 /\ Reports(fw, new) = <<a, b>> /\ b = PinsOf(new) /\ new.vcc # fw.level.vcc
                 /\ new.vcc /\ ~fw.level.rst /\ ~new.rst => a = {"VCC"}
        BY <3>3
      <4>2. SubmitAll(q, Statuses(Reports(fw, new))) = Submit(Submit(q, Note(a)), Note(b))
        <5>1. Statuses(<<a, b>>) = <<Note(a), Note(b)>>
          BY StatusesAre
        <5>2. SubmitAll(q, <<Note(a), Note(b)>>) = Submit(Submit(q, Note(a)), Note(b))
          BY SubmitTwo
        <5> QED  BY <4>1, <5>1, <5>2
      <4>3. Submit(Submit(q, Note(a)), Note(b)) \in Queue("INT")
        BY <2>2, NoteIs
      <4>4. Told(q, Submit(Submit(q, Note(a)), Note(b)), fw.level, new)
        BY <4>1 DEF Told
      <4> QED  BY <4>2, <4>3, <4>4
    <3>4. CASE \E a, b, c \in SUBSET Flag :
                 /\ Reports(fw, new) = <<a, b, c>> /\ c = PinsOf(new)
                 /\ new.vcc # fw.level.vcc /\ new.rst # fw.level.rst
      <4>1. PICK a, b, c \in SUBSET Flag :
                 /\ Reports(fw, new) = <<a, b, c>> /\ c = PinsOf(new)
                 /\ new.vcc # fw.level.vcc /\ new.rst # fw.level.rst
        BY <3>4
      <4>2. SubmitAll(q, Statuses(Reports(fw, new)))
            = Submit(Submit(Submit(q, Note(a)), Note(b)), Note(c))
        <5>1. Statuses(<<a, b, c>>) = <<Note(a), Note(b), Note(c)>>
          BY StatusesAre
        <5>2. SubmitAll(q, <<Note(a), Note(b), Note(c)>>)
              = Submit(Submit(Submit(q, Note(a)), Note(b)), Note(c))
          BY SubmitThree
        <5> QED  BY <4>1, <5>1, <5>2
      <4>3. Submit(Submit(Submit(q, Note(a)), Note(b)), Note(c)) \in Queue("INT")
        BY <2>2, NoteIs
      <4>4. Told(q, Submit(Submit(Submit(q, Note(a)), Note(b)), Note(c)), fw.level, new)
        BY <4>1 DEF Told
      <4> QED  BY <4>2, <4>3, <4>4
    <3> QED  BY <3>1, <3>2, <3>3, <3>4, <1>2, ReportsCases
  <2> QED  BY <1>1, <1>3, <1>6, <2>1, <2>3
<1> QED  BY <1>5, <1>6

-----------------------------------------------------------------------------
(* Types, and what they rest on.                                            *)

\* At most one transfer of the interrupt endpoint is complete and at most four of the
\* other, the one the host is working on included.
Counts(u, busy) ==
  /\ OneInt(u) /\ Cardinality(At("INT", u)) <= 1
  /\ Cardinality(At("IN", u)) + (IF busy THEN 1 ELSE 0) <= InTransfers
UrbsOk ==
  /\ urbs \in Seq(UrbType) /\ Counts(urbs, host.busy)
  /\ ~host.up => urbs = <<>> /\ ~host.busy

HistOk ==
  /\ events \in Nat /\ sess \in Nat /\ sim \in 0..sess
  /\ torn \in BOOLEAN /\ lost \in BOOLEAN

\* The host configures the card before it selects it, and the firmware says nothing
\* before it is configured.
Preceded(o) ==
  \A j \in DOMAIN o : o[j][1].k = "SELECT" => \E i \in 1..j - 1 : o[i][1].k = "CONFIG"
Unheard ==
  ~fw.irq => ep["INT"].q = <<>> /\ ep["INT"].busy = NoMsg /\ Preceded(out)

Base ==
  /\ LineOk /\ ReaderOk /\ CardOff
  /\ EpTyped(ep) /\ UrbsOk /\ host \in HostType /\ out \in Seq(Transfer)
  /\ HistOk /\ Unheard

LEMMA SameLine == ASSUME LineOk, UNCHANGED <<line, fw>> PROVE LineOk'
BY DEF LineOk

LEMMA SameReader == ASSUME ReaderOk, UNCHANGED <<rd, txQ>> PROVE ReaderOk'
BY DEF ReaderOk

LEMMA SameUrbs == ASSUME UrbsOk, UNCHANGED <<urbs, host>> PROVE UrbsOk'
BY DEF UrbsOk

LEMMA PrecededStart == Preceded(Startup) /\ Preceded(<<>>)
<1>1. DOMAIN Startup = 1..2
  BY StartupIs
<1>2. Preceded(Startup)
  BY <1>1, StartupIs DEF Preceded
<1> QED  BY <1>2 DEF Preceded

LEMMA PrecededAppend ==
  ASSUME NEW o \in Seq(Transfer), Preceded(o), NEW t \in Transfer, t[1].k # "SELECT"
  PROVE  Preceded(Append(o, t))
<1> DEFINE p == Append(o, t)
<1>1. /\ DOMAIN p = 1..Len(o) + 1 /\ DOMAIN o = 1..Len(o) /\ Len(o) \in Nat
      /\ \A i \in 1..Len(o) : p[i] = o[i]
      /\ p[Len(o) + 1] = t
  OBVIOUS
<1> HIDE DEF p
<1>2. ASSUME NEW j \in DOMAIN p, p[j][1].k = "SELECT"
      PROVE  \E i \in 1..j - 1 : p[i][1].k = "CONFIG"
  <2>1. j \in 1..Len(o)
    BY <1>1, <1>2
  <2>2. o[j][1].k = "SELECT"
    BY <1>1, <1>2, <2>1
  <2>3. PICK i \in 1..j - 1 : o[i][1].k = "CONFIG"
    BY <1>1, <2>1, <2>2 DEF Preceded
  <2>4. p[i] = o[i]
    BY <1>1, <2>1
  <2> QED  BY <2>3, <2>4
<1>3. Preceded(p)
  BY <1>2 DEF Preceded
<1> QED  BY <1>3 DEF p

LEMMA PrecededTail ==
  ASSUME NEW o \in Seq(Transfer), o # <<>>, Preceded(o), o[1][1].k # "CONFIG"
  PROVE  Preceded(Tail(o)) /\ o[1][1].k # "SELECT"
<1> DEFINE p == Tail(o)
<1>1. /\ DOMAIN p = 1..Len(o) - 1 /\ DOMAIN o = 1..Len(o) /\ Len(o) \in Nat \ {0}
      /\ \A i \in 1..Len(o) - 1 : p[i] = o[i + 1]
  OBVIOUS
<1> HIDE DEF p
<1>2. ASSUME NEW j \in DOMAIN p, p[j][1].k = "SELECT"
      PROVE  \E i \in 1..j - 1 : p[i][1].k = "CONFIG"
  <2>1. j \in 1..Len(o) - 1 /\ j + 1 \in DOMAIN o
    BY <1>1, <1>2
  <2>2. o[j + 1][1].k = "SELECT"
    BY <1>1, <1>2, <2>1
  <2>3. PICK i \in 1..(j + 1) - 1 : o[i][1].k = "CONFIG"
    BY <2>1, <2>2 DEF Preceded
  <2>4. i # 1
    BY <2>3
  <2>5. i - 1 \in 1..j - 1 /\ p[i - 1] = o[i]
    <3>1. i - 1 \in 1..Len(o) - 1 /\ (i - 1) + 1 = i
      BY <2>1, <2>3, <2>4
    <3> QED  BY <1>1, <2>1, <2>3, <2>4, <3>1
  <2> QED  BY <2>3, <2>5
<1>3. Preceded(p)
  BY <1>2 DEF Preceded
<1>4. o[1][1].k # "SELECT"
  BY <1>1 DEF Preceded
<1> QED  BY <1>3, <1>4 DEF p

LEMMA PrecededPrefix ==
  ASSUME NEW o \in Seq(Transfer), Preceded(o), NEW n \in 0..Len(o)
  PROVE  SubSeq(o, 1, n) \in Seq(Transfer) /\ Preceded(SubSeq(o, 1, n))
<1> DEFINE p == SubSeq(o, 1, n)
<1>1. /\ p \in Seq(Transfer) /\ Len(p) = n /\ n \in Nat
      /\ \A i \in 1..n : p[i] = o[i]
  OBVIOUS
<1>2. DOMAIN p = 1..n /\ DOMAIN o = 1..Len(o)
  BY <1>1
<1> HIDE DEF p
<1>3. ASSUME NEW j \in DOMAIN p, p[j][1].k = "SELECT"
      PROVE  \E i \in 1..j - 1 : p[i][1].k = "CONFIG"
  <2>1. j \in 1..n /\ j \in DOMAIN o /\ o[j][1].k = "SELECT"
    BY <1>1, <1>2, <1>3
  <2>2. PICK i \in 1..j - 1 : o[i][1].k = "CONFIG"
    BY <2>1 DEF Preceded
  <2>3. p[i] = o[i]
    BY <1>1, <2>1
  <2> QED  BY <2>2, <2>3
<1>4. Preceded(p)
  BY <1>3 DEF Preceded
<1> QED  BY <1>1, <1>4 DEF p

\* The endpoint whose queue changed was not the one for status messages.
LEMMA SameUnheard ==
  ASSUME Unheard, fw'.irq = fw.irq, ep'["INT"] = ep["INT"], ~fw.irq => Preceded(out)'
  PROVE  Unheard'
BY DEF Unheard

\* What sending a message to the host may do to its queue.
Sent(q, r, m) ==
  \/ r = Submit(q, m)
  \/ q # <<>> /\ r = Submit(Tail(q), m)
  \/ q = <<>> /\ r = q

LEMMA SendInIs ==
  ASSUME EpTyped(ep), HistOk, NEW m \in InMsg, SendIn(m)
  PROVE  \E r \in Queue("IN") : /\ QueueSet(ep, ep', "IN", r)
                                /\ Sent(ep["IN"].q, r, m)
                                /\ events' \in Nat /\ lost' \in BOOLEAN
<1>1. PICK q \in Queue("IN") : q = ep["IN"].q
  BY CarriedIs DEF EpTyped, EpType
<1>2. lost' \in BOOLEAN
  BY DEF SendIn
<1>3. events' \in Nat
  BY SystemAssumption DEF SendIn, Strike, HistOk
<1>4. Submit(q, m) \in Queue("IN")
  BY SubmitQueue, CarriedIs
<1>5. q # <<>> => Tail(q) \in Queue("IN") /\ Submit(Tail(q), m) \in Queue("IN")
  <2>1. q # <<>> => Tail(q) \in Queue("IN")
    BY SystemAssumption DEF Queue
  <2> QED  BY <2>1, SubmitQueue, CarriedIs
<1>6. \/ QueueSet(ep, ep', "IN", Submit(q, m))
      \/ QueueSet(ep, ep', "IN", IF q = <<>> THEN q ELSE Submit(Tail(q), m))
  BY <1>1 DEF SendIn, QueueSet
<1>7. CASE QueueSet(ep, ep', "IN", Submit(q, m))
  BY <1>1, <1>2, <1>3, <1>4, <1>7 DEF Sent
<1>8. CASE QueueSet(ep, ep', "IN", IF q = <<>> THEN q ELSE Submit(Tail(q), m))
  <2>1. CASE q = <<>>
    BY <1>1, <1>2, <1>3, <1>8, <2>1 DEF Sent
  <2>2. CASE q # <<>>
    BY <1>1, <1>2, <1>3, <1>5, <1>8, <2>2 DEF Sent
  <2> QED  BY <2>1, <2>2
<1> QED  BY <1>6, <1>7, <1>8

-----------------------------------------------------------------------------
(* The steps of the reader and of the firmware.                             *)

LEMMA BaseInit == Init => Base
<1> SUFFICES ASSUME Init PROVE Base
  OBVIOUS
<1>1. LineOk
  BY DEF Init, LineOk, LevelType, FwType, Level, PinsOf
<1>2. ReaderOk /\ CardOff
  BY NoCmdType DEF Init, ReaderOk, CardOff, RdType
<1>3. EpTyped(ep)
  <2>1. [q |-> <<>>, busy |-> NoMsg] \in EpType("IN") /\ [q |-> <<>>, busy |-> NoMsg] \in EpType("INT")
    BY SystemAssumption DEF EpType, Queue
  <2>2. PICK r : r = [q |-> <<>>, busy |-> NoMsg]
    OBVIOUS
  <2>3. ep = [e \in Endpoint |-> r]
    BY <2>2 DEF Init
  <2>4. r \in EpType("IN") /\ r \in EpType("INT")
    BY <2>1, <2>2
  <2> HIDE <2>2
  <2> QED  BY <2>3, <2>4 DEF EpTyped, Endpoint
<1>4. UrbsOk
  BY AtNone, IntUrbNone DEF Init, UrbsOk, Counts, InTransfers
<1>5. host \in HostType
  BY NoCmdType DEF Init, HostType
<1>6. out \in Seq(Transfer) /\ Preceded(out)
  BY StartupIs, PrecededStart DEF Init
<1>7. HistOk
  <2>1. 0 \in Nat /\ 0 \in 0..0 /\ FALSE \in BOOLEAN
    OBVIOUS
  <2> QED  BY <2>1 DEF Init, HistOk
<1>8. ep["INT"].q = <<>> /\ ep["INT"].busy = NoMsg
  BY CarriedIs DEF Init
<1> QED  BY <1>1, <1>2, <1>3, <1>4, <1>5, <1>6, <1>7, <1>8 DEF Base, Unheard

\* process_io_statechg, whoever calls it.
LEMMA IoBase ==
  ASSUME Base, NEW l \in LevelType, NEW on \in BOOLEAN, ~fw.irq => ~on,
         IoStateChg(l, on), line' = l,
         UNCHANGED <<urbs, host, sim>>, out' \in Seq(Transfer), ~fw.irq => Preceded(out'),
         events' \in Nat
  PROVE  Base'
<1>1. /\ fw' \in FwType /\ fw'.level = Level(l, on) /\ fw'.pins = PinsOf(fw'.level)
      /\ fw'.enabled = on /\ fw'.irq = fw.irq
      /\ fw'.state \in {"OFF", "ATR"} => rd'.phase = "off"
      /\ IF Ends(fw.level, Level(l, on))
         THEN /\ txQ' = <<>> /\ rd' \in RdType /\ rd'.phase = "off" /\ rd'.cmd = rd.cmd
              /\ sess' = sess + 1 /\ torn' = Underway /\ lost' = FALSE
         ELSE UNCHANGED <<txQ, rd, sess, torn, lost>>
  BY IoCard DEF Base
<1>2. PICK r \in Queue("INT") : /\ QueueSet(ep, ep', "INT", r)
                                /\ ~fw.irq => r = ep["INT"].q
  BY IoEp DEF Base
<1>3. LineOk'
  BY <1>1 DEF LineOk
<1>4. ReaderOk' /\ CardOff'
  <2>1. CASE Ends(fw.level, Level(l, on))
    BY <1>1, <2>1 DEF ReaderOk, CardOff
  <2>2. CASE ~Ends(fw.level, Level(l, on))
    BY <1>1, <2>2 DEF Base, ReaderOk, CardOff
  <2> QED  BY <2>1, <2>2
<1>5. HistOk'
  <2>1. CASE Ends(fw.level, Level(l, on))
    <3>1. sess' = sess + 1 /\ lost' = FALSE
      BY <1>1, <2>1
    <3>2. PICK u \in BOOLEAN : u = Underway
      BY DEF Underway
    <3>3. torn' = u
      BY <1>1, <2>1, <3>2
    <3>4. torn' \in BOOLEAN /\ lost' \in BOOLEAN
      BY <3>1, <3>3
    <3>5. sim' = sim /\ sim \in 0..sess /\ sess \in Nat
      BY DEF Base, HistOk
    <3>6. sess' \in Nat /\ sim' \in 0..sess'
      BY <3>1, <3>5
    <3> QED  BY <3>4, <3>6 DEF HistOk
  <2>2. CASE ~Ends(fw.level, Level(l, on))
    BY <1>1, <2>2 DEF Base, HistOk
  <2> QED  BY <2>1, <2>2
<1>6. /\ EpTyped(ep') /\ ep'["INT"].q = r /\ ep'["INT"].busy = ep["INT"].busy
  BY <1>2, QueueSetIs, CarriedIs DEF Base
<1>7. Unheard'
  BY <1>1, <1>2, <1>6 DEF Base, Unheard
<1>8. UrbsOk' /\ host' \in HostType
  BY SameUrbs DEF Base
<1> QED  BY <1>3, <1>4, <1>5, <1>6, <1>7, <1>8 DEF Base

LEMMA LineChangeBase == ASSUME Base, LineChange PROVE Base'
<1>1. PICK l : l = line'
  OBVIOUS
<1>2. PICK w \in {"vcc", "rst"} : line' = [line EXCEPT ![w] = ~@]
  BY DEF LineChange
<1>3. l \in LevelType
  BY <1>1, <1>2 DEF Base, LineOk, LevelType
<1>4. IoStateChg(l, fw.enabled) /\ fw.enabled \in BOOLEAN /\ (~fw.irq => ~fw.enabled)
  BY <1>1 DEF LineChange, Base, LineOk, FwType
<1>5. events' \in Nat /\ UNCHANGED <<urbs, host, sim>> /\ out' = out
  BY DEF LineChange, Base, HistOk
<1>6. out' \in Seq(Transfer) /\ (~fw.irq => Preceded(out'))
  BY <1>5 DEF Base, Unheard
<1> QED  BY <1>1, <1>3, <1>4, <1>5, <1>6, IoBase

LEMMA SelectBase == ASSUME Base, UsbCommandSimSelect PROVE Base'
<1>1. PICK l : l = line
  OBVIOUS
<1>2. PICK on \in BOOLEAN : on = (Head(out)[1].k = "SELECT")
  OBVIOUS
<1>3. l \in LevelType /\ line' = l
  BY <1>1 DEF Base, LineOk, UsbCommandSimSelect
<1>4. IoStateChg(l, on)
  BY <1>1, <1>2 DEF UsbCommandSimSelect
<1>5. out \in Seq(Transfer) /\ out # <<>> /\ Head(out) = out[1]
      /\ out[1][1].k \in {"SELECT", "SELECT_LOCAL"} /\ out' = Tail(out)
  BY DEF Base, UsbCommandSimSelect
<1>6. Tail(out) \in Seq(Transfer)
  BY <1>5
<1>7. ~fw.irq => ~on /\ Preceded(Tail(out))
  BY <1>2, <1>5, PrecededTail DEF Base, Unheard
<1>8. UNCHANGED <<urbs, host, sim, events>> /\ events \in Nat
  BY DEF UsbCommandSimSelect, Base, HistOk
<1>9. out' \in Seq(Transfer) /\ (~fw.irq => Preceded(out')) /\ events' \in Nat
  BY <1>5, <1>6, <1>7, <1>8
<1> QED  BY <1>3, <1>4, <1>7, <1>8, <1>9, IoBase

LEMMA AtrBase == ASSUME Base, AtrSent PROVE Base'
<1>1. PICK f : f = [fw EXCEPT !.state = "WAIT_TPDU"]
  OBVIOUS
<1>2. /\ f \in FwType /\ f.state = "WAIT_TPDU" /\ f.pins = fw.pins /\ f.level = fw.level
      /\ f.enabled = fw.enabled /\ f.irq = fw.irq
  BY <1>1 DEF Base, LineOk, FwType
<1>3. fw' = f
  BY <1>1 DEF AtrSent
<1> HIDE <1>1
<1>4. LineOk' /\ CardOff'
  BY <1>2, <1>3 DEF AtrSent, Base, LineOk, CardOff
<1>5. ReaderOk'
  BY DEF AtrSent, Base, ReaderOk, RdType
<1>6. UNCHANGED <<line, txQ, ep, urbs, out, host, sim, events, sess, torn, lost>>
  BY DEF AtrSent
<1>7. UrbsOk' /\ host' \in HostType /\ out' \in Seq(Transfer) /\ EpTyped(ep') /\ HistOk'
  BY <1>6, SameUrbs DEF Base, HistOk
<1>8. Unheard'
  BY <1>2, <1>3, <1>6 DEF Base, Unheard
<1> QED  BY <1>4, <1>5, <1>7, <1>8 DEF Base

\* A step that changes the card's state, not to OFF or ATR, the reader, and what is queued for
\* the host.
LEMMA CardStep ==
  ASSUME Base, NEW f \in FwType, fw' = f, f.pins = fw.pins, f.level = fw.level,
         f.enabled = fw.enabled, f.irq = fw.irq, f.state \notin {"OFF", "ATR"},
         rd' \in RdType, txQ' \in Seq(Answer), EpTyped(ep'), ep'["INT"] = ep["INT"],
         events' \in Nat, lost' \in BOOLEAN, UNCHANGED <<line, urbs, out, host, sim, sess, torn>>
  PROVE  Base'
<1>1. LineOk' /\ CardOff'
  BY DEF Base, LineOk, CardOff
<1>2. ReaderOk'
  BY DEF ReaderOk
<1>3. UrbsOk' /\ host' \in HostType /\ out' \in Seq(Transfer) /\ HistOk'
  BY SameUrbs DEF Base, HistOk
<1>4. Unheard'
  BY SameUnheard DEF Base, Unheard
<1> QED  BY <1>1, <1>2, <1>3, <1>4 DEF Base

\* What the reader sends: its command, and the card's state after it.
LEMMA HeaderIs ==
  ASSUME Base, SendTpduHeader
  PROVE  \E cmd \in CmdType, f \in FwType :
           /\ rd' = [rd EXCEPT !.phase = "wait", !.cmd = cmd] /\ cmd.id = rd.cmd.id + 1
           /\ SendIn(Msg("HDR", cmd, {})) /\ Msg("HDR", cmd, {}) \in InMsg
           /\ fw' = f /\ f.pins = fw.pins /\ f.level = fw.level
           /\ f.enabled = fw.enabled /\ f.irq = fw.irq /\ f.state = "WAIT_PB"
<1>1. PICK kind \in Kinds, retry \in BOOLEAN :
        LET cmd == [id |-> rd.cmd.id + 1, kind |-> kind, retry |-> retry]
        IN /\ rd' = [rd EXCEPT !.phase = "wait", !.cmd = cmd]
           /\ SendIn(Msg("HDR", cmd, {}))
  BY DEF SendTpduHeader
<1>2. PICK cmd : cmd = [id |-> rd.cmd.id + 1, kind |-> kind, retry |-> retry]
  OBVIOUS
<1>3. cmd \in CmdType /\ cmd.id = rd.cmd.id + 1
  <2>1. rd.cmd.id \in 0..MaxCmds /\ rd.cmd.id < MaxCmds
    BY DEF Base, ReaderOk, RdType, CmdType, SendTpduHeader
  <2>2. rd.cmd.id + 1 \in 0..MaxCmds
    BY <2>1, SystemAssumption
  <2> QED  BY <1>2, <2>2 DEF CmdType
<1>4. Msg("HDR", cmd, {}) \in InMsg
  BY <1>3, MsgsAre DEF InKind
<1>5. PICK f : f = [fw EXCEPT !.state = "WAIT_PB"]
  OBVIOUS
<1>6. /\ f \in FwType /\ f.state = "WAIT_PB" /\ f.pins = fw.pins /\ f.level = fw.level
      /\ f.enabled = fw.enabled /\ f.irq = fw.irq
  BY <1>5 DEF Base, LineOk, FwType
<1>7. fw' = f
  BY <1>5 DEF SendTpduHeader
<1>8. /\ rd' = [rd EXCEPT !.phase = "wait", !.cmd = cmd] /\ SendIn(Msg("HDR", cmd, {}))
  BY <1>1, <1>2
<1> HIDE <1>2, <1>5
<1> QED  BY <1>3, <1>4, <1>6, <1>7, <1>8

LEMMA HeaderBase == ASSUME Base, SendTpduHeader PROVE Base'
<1>1. PICK cmd \in CmdType, f \in FwType :
           /\ rd' = [rd EXCEPT !.phase = "wait", !.cmd = cmd] /\ cmd.id = rd.cmd.id + 1
           /\ SendIn(Msg("HDR", cmd, {})) /\ Msg("HDR", cmd, {}) \in InMsg
           /\ fw' = f /\ f.pins = fw.pins /\ f.level = fw.level
           /\ f.enabled = fw.enabled /\ f.irq = fw.irq /\ f.state = "WAIT_PB"
  BY HeaderIs
<1>2. rd' \in RdType
  BY <1>1 DEF Base, ReaderOk, RdType
<1>3. PICK r \in Queue("IN") : QueueSet(ep, ep', "IN", r) /\ events' \in Nat /\ lost' \in BOOLEAN
  BY <1>1, SendInIs DEF Base
<1>4. EpTyped(ep') /\ ep'["INT"] = ep["INT"]
  BY <1>3, QueueSetIs, CarriedIs DEF Base
<1>5. txQ' \in Seq(Answer) /\ UNCHANGED <<line, urbs, out, host, sim, sess, torn>>
  BY DEF SendTpduHeader, Base, ReaderOk
<1> QED  BY <1>1, <1>2, <1>3, <1>4, <1>5, CardStep

LEMMA BodyBase == ASSUME Base, AddTpduBody PROVE Base'
<1>1. Msg("DATA", rd.cmd, {}) \in InMsg
  BY MsgsAre DEF Base, ReaderOk, RdType, InKind
<1>2. PICK r \in Queue("IN") : QueueSet(ep, ep', "IN", r) /\ events' \in Nat /\ lost' \in BOOLEAN
  BY <1>1, SendInIs DEF Base, AddTpduBody
<1>3. EpTyped(ep') /\ ep'["INT"] = ep["INT"]
  BY <1>2, QueueSetIs, CarriedIs DEF Base
<1>4. PICK f \in FwType : /\ fw' = f /\ f.pins = fw.pins /\ f.level = fw.level
                          /\ f.enabled = fw.enabled /\ f.irq = fw.irq
                          /\ f.state \notin {"OFF", "ATR"}
  <2>1. fw.state = "WAIT_RX" /\ fw \in FwType
    BY DEF AddTpduBody, Base, LineOk
  <2>2. fw' = [fw EXCEPT !.state = "WAIT_RX"] \/ fw' = [fw EXCEPT !.state = "WAIT_TX"]
    BY <2>1 DEF AddTpduBody
  <2> QED  BY <2>1, <2>2 DEF FwType
<1>5. rd' \in RdType
  BY DEF AddTpduBody, Base, ReaderOk, RdType
<1>6. txQ' \in Seq(Answer) /\ UNCHANGED <<line, urbs, out, host, sim, sess, torn>>
  BY DEF AddTpduBody, Base, ReaderOk
<1> QED  BY <1>2, <1>3, <1>4, <1>5, <1>6, CardStep

LEMMA TxBase == ASSUME Base, TxTpdu PROVE Base'
<1>1. PICK m \in Answer : m = txQ[1] /\ Head(txQ) = m
  BY DEF TxTpdu, Base, ReaderOk
<1>2. m.k \in TxKind
  BY DEF Answer
<1>3. \/ m.k = "PB_AND_TX" /\ fw' = [fw EXCEPT !.state = "WAIT_TX"] /\ rd' = rd
      \/ /\ m.k = "PB_AND_RX" /\ fw' = [fw EXCEPT !.state = "WAIT_RX"]
         /\ rd' = rd \/ rd' = [rd EXCEPT !.phase = "body"]
      \/ /\ m.k \in {"SW", "SW_6C"} /\ fw' = [fw EXCEPT !.state = "WAIT_TPDU"]
         /\ rd' = [rd EXCEPT !.phase = "idle", !.sw = IF m.k = "SW_6C" THEN "6Cxx" ELSE "9000"]
  BY <1>1, <1>2 DEF TxTpdu, TxKind
<1>4. PICK f \in FwType : /\ fw' = f /\ f.pins = fw.pins /\ f.level = fw.level
                          /\ f.enabled = fw.enabled /\ f.irq = fw.irq
                          /\ f.state \notin {"OFF", "ATR"}
  <2>1. fw \in FwType
    BY DEF Base, LineOk
  <2> QED  BY <1>3, <2>1 DEF FwType
<1>5. rd' \in RdType
  <2>1. rd \in RdType
    BY DEF Base, ReaderOk
  <2> QED  BY <1>3, <2>1 DEF RdType
<1>6. txQ' \in Seq(Answer)
  BY DEF TxTpdu, Base, ReaderOk
<1>7. UNCHANGED <<line, ep, urbs, out, host, sim, events, sess, torn, lost>>
  BY DEF TxTpdu
<1>8. EpTyped(ep') /\ ep'["INT"] = ep["INT"] /\ events' \in Nat /\ lost' \in BOOLEAN
  BY <1>7 DEF Base, HistOk
<1> QED  BY <1>4, <1>5, <1>6, <1>7, <1>8, CardStep

-----------------------------------------------------------------------------
(* The steps of the endpoints, of the host and of the dispatcher.           *)

\* Refilling and completion, for either endpoint.
LEMMA RefillIs ==
  ASSUME Base, NEW e \in Endpoint, UsbRefillToHost(e)
  PROVE  \E q \in Queue(e), m \in Carried(e) :
           /\ ep[e].busy = NoMsg /\ ep[e].q # <<>> /\ m = ep[e].q[1] /\ q = Tail(ep[e].q)
           /\ EpTyped(ep') /\ ep'[e].q = q /\ ep'[e].busy = m
           /\ \A d \in Endpoint : d # e => ep'[d] = ep[d]
<1>1. PICK p \in Queue(e) : p = ep[e].q
  BY DEF Base, EpTyped, EpType
<1>2. p # <<>> /\ ep[e].busy = NoMsg
  BY <1>1 DEF UsbRefillToHost
<1>3. p[1] \in Carried(e) /\ Tail(p) \in Queue(e) /\ Head(p) = p[1]
  BY <1>2, SystemAssumption DEF Queue
<1>4. PICK x : x = [q |-> Tail(p), busy |-> p[1]]
  OBVIOUS
<1>5. x \in EpType(e) /\ x.q = Tail(p) /\ x.busy = p[1]
  BY <1>3, <1>4 DEF EpType
<1>6. Armed(ep, ep', e, x)
  BY <1>1, <1>3, <1>4 DEF UsbRefillToHost, Armed
<1> HIDE <1>4
<1>7. /\ EpTyped(ep') /\ ep'[e] = x /\ \A d \in Endpoint : d # e => ep'[d] = ep[d]
  BY <1>5, <1>6, ArmedIs DEF Base
<1> QED  BY <1>1, <1>2, <1>3, <1>5, <1>7

LEMMA CompleteIs ==
  ASSUME Base, NEW e \in Endpoint, UsbComplete(e)
  PROVE  \E m \in Carried(e) :
           /\ host.up /\ ep[e].busy = m /\ m # NoMsg /\ Pending(e)
           /\ urbs' = Append(urbs, <<e, m>>)
           /\ EpTyped(ep') /\ ep'[e].q = ep[e].q /\ ep'[e].busy = NoMsg
           /\ \A d \in Endpoint : d # e => ep'[d] = ep[d]
<1>1. PICK m \in Carried(e) : m = ep[e].busy
  BY DEF UsbComplete, Base, EpTyped, EpType
<1>2. host.up /\ m # NoMsg /\ Pending(e) /\ urbs' = Append(urbs, <<e, m>>)
  BY <1>1 DEF UsbComplete
<1>3. Cleared(ep, ep', e)
  BY DEF UsbComplete, Cleared
<1>4. /\ EpTyped(ep') /\ ep'[e].q = ep[e].q /\ ep'[e].busy = NoMsg
      /\ \A d \in Endpoint : d # e => ep'[d] = ep[d]
  BY <1>3, ClearedIs DEF Base
<1> QED  BY <1>1, <1>2, <1>4

LEMMA RefillBase == ASSUME Base, NEW e \in Endpoint, UsbRefillToHost(e) PROVE Base'
<1>1. PICK q \in Queue(e), m \in Carried(e) :
           /\ ep[e].busy = NoMsg /\ ep[e].q # <<>> /\ m = ep[e].q[1] /\ q = Tail(ep[e].q)
           /\ EpTyped(ep') /\ ep'[e].q = q /\ ep'[e].busy = m
           /\ \A d \in Endpoint : d # e => ep'[d] = ep[d]
  BY RefillIs
<1>2. UNCHANGED <<rd, line, fw, txQ, urbs, out, host, sim, events, sess, torn, lost>>
  BY DEF UsbRefillToHost
<1>3. LineOk' /\ ReaderOk' /\ CardOff' /\ UrbsOk' /\ HistOk'
  BY <1>2, SameLine, SameReader, SameUrbs DEF Base, CardOff, HistOk
<1>4. Unheard'
  <2>1. CASE e = "INT"
    BY <1>1, <1>2, <2>1 DEF Base, Unheard
  <2>2. CASE e # "INT"
    BY <1>1, <1>2, <2>2, CarriedIs DEF Base, Unheard
  <2> QED  BY <2>1, <2>2
<1> QED  BY <1>1, <1>2, <1>3, <1>4 DEF Base

LEMMA UrbTyped ==
  ASSUME NEW e \in Endpoint, NEW m \in Carried(e)
  PROVE  <<e, m>> \in UrbType /\ m \in MsgType
BY CarriedIs DEF UrbType

LEMMA CompleteBase == ASSUME Base, NEW e \in Endpoint, UsbComplete(e) PROVE Base'
<1>1. PICK m \in Carried(e) :
           /\ host.up /\ ep[e].busy = m /\ m # NoMsg /\ Pending(e)
           /\ urbs' = Append(urbs, <<e, m>>)
           /\ EpTyped(ep') /\ ep'[e].q = ep[e].q /\ ep'[e].busy = NoMsg
           /\ \A d \in Endpoint : d # e => ep'[d] = ep[d]
  BY CompleteIs
<1>2. UNCHANGED <<rd, line, fw, txQ, out, host, sim, events, sess, torn, lost>>
  BY DEF UsbComplete
<1>3. LineOk' /\ ReaderOk' /\ CardOff' /\ HistOk'
  BY <1>2, SameLine, SameReader DEF Base, CardOff, HistOk
<1>4. Unheard'
  <2>1. CASE e = "INT"
    BY <1>1, <1>2, <2>1 DEF Base, Unheard
  <2>2. CASE e # "INT"
    BY <1>1, <1>2, <2>2, CarriedIs DEF Base, Unheard
  <2> QED  BY <2>1, <2>2
<1>5. urbs \in Seq(UrbType) /\ urbs \in Urbs /\ <<e, m>> \in UrbType /\ m \in MsgType
  BY UrbTyped, UrbsAre DEF Base, UrbsOk
<1>6. urbs' \in Seq(UrbType)
  BY <1>1, <1>5
<1>7. Counts(urbs, host.busy) /\ host.busy \in BOOLEAN
  BY DEF Base, UrbsOk, HostType
<1>8. Counts(urbs', host.busy)
  <2>1. /\ Cardinality(At("IN", urbs)) \in Nat /\ Cardinality(At("INT", urbs)) \in Nat
    BY <1>5, AtFinite
  <2>2. CASE e = "INT"
    <3>1. Cardinality(At("INT", urbs)) < 1
      BY <1>1, <2>2, CompletedIs, CarriedIs DEF Pending
    <3>2. OneInt(urbs')
      BY <1>1, <1>5, <2>2, <3>1, IntUrbArrives
    <3>3. Cardinality(At("INT", urbs')) = Cardinality(At("INT", urbs)) + 1
      BY <1>1, <1>5, <2>2, AtAppend, CarriedIs
    <3>4. At("IN", urbs') = At("IN", urbs)
      BY <1>1, <1>5, <2>2, AtAppend, CarriedIs
    <3> QED  BY <1>7, <2>1, <3>1, <3>2, <3>3, <3>4 DEF Counts
  <2>3. CASE e = "IN"
    <3>1. Cardinality(At("IN", urbs)) + (IF host.busy THEN 1 ELSE 0) < InTransfers
      BY <1>1, <2>3, CompletedIs DEF Pending
    <3>2. OneInt(urbs')
      BY <1>1, <1>5, <1>7, <2>3, IntUrbStays DEF Counts
    <3>3. Cardinality(At("IN", urbs')) = Cardinality(At("IN", urbs)) + 1
      BY <1>1, <1>5, <2>3, AtAppend, CarriedIs
    <3>4. At("INT", urbs') = At("INT", urbs)
      BY <1>1, <1>5, <2>3, AtAppend, CarriedIs
    <3> QED  BY <1>7, <2>1, <3>1, <3>2, <3>3, <3>4 DEF Counts, InTransfers
  <2> QED  BY <2>2, <2>3, CarriedIs
<1>9. UrbsOk'
  BY <1>1, <1>2, <1>6, <1>8 DEF UrbsOk
<1> QED  BY <1>1, <1>2, <1>3, <1>4, <1>9 DEF Base

\* A step that leaves the reader, the card and the endpoints alone.
LEMMA HostSide ==
  ASSUME Base, UNCHANGED <<rd, line, fw, txQ, ep>>, UrbsOk', host' \in HostType,
         out' \in Seq(Transfer), ~fw.irq => Preceded(out'), HistOk'
  PROVE  Base'
<1>1. LineOk' /\ ReaderOk' /\ CardOff' /\ EpTyped(ep')
  BY SameLine, SameReader DEF Base, CardOff
<1>2. Unheard'
  BY DEF Base, Unheard
<1> QED  BY <1>1, <1>2 DEF Base

\* What the host takes up next.
LEMMA NextUrbIs ==
  ASSUME Base, NEW e \in Endpoint, NextUrb(e)
  PROVE  \E m \in Carried(e) :
           /\ host.up /\ ~host.busy /\ urbs # <<>> /\ Head(urbs)[2] = m /\ urbs[1] = <<e, m>>
           /\ urbs' = Tail(urbs) /\ urbs' \in Seq(UrbType)
           /\ Counts(urbs', FALSE) /\ (e = "IN" => Counts(urbs', TRUE))
<1>1. host.up /\ ~host.busy /\ urbs # <<>> /\ Head(urbs)[1] = e /\ urbs' = Tail(urbs)
  BY DEF NextUrb
<1>2. urbs \in Seq(UrbType) /\ urbs \in Urbs /\ Counts(urbs, FALSE)
  <2>1. urbs \in Seq(UrbType) /\ Counts(urbs, host.busy)
    BY DEF Base, UrbsOk
  <2>2. Counts(urbs, FALSE)
    BY <1>1, <2>1 DEF Counts
  <2> QED  BY <2>1, <2>2, UrbsAre
<1>3. Head(urbs) = urbs[1] /\ urbs[1] \in UrbType
  BY <1>1, <1>2
<1>4. PICK m \in Carried(e) : urbs[1] = <<e, m>>
  BY <1>1, <1>3, CarriedIs DEF UrbType
<1>5. urbs' \in Seq(UrbType)
  BY <1>1, <1>2
<1>6. /\ Cardinality(At("IN", urbs)) \in Nat /\ Cardinality(At("INT", urbs)) \in Nat
      /\ Cardinality(At("IN", urbs')) =
           IF urbs[1][1] = "IN" THEN Cardinality(At("IN", urbs)) - 1 ELSE Cardinality(At("IN", urbs))
      /\ Cardinality(At("INT", urbs')) =
           IF urbs[1][1] = "INT" THEN Cardinality(At("INT", urbs)) - 1 ELSE Cardinality(At("INT", urbs))
  BY <1>1, <1>2, AtFinite, AtTail
<1>7. OneInt(urbs')
  BY <1>1, <1>2, IntUrbRead DEF Counts
<1>8. Counts(urbs', FALSE) /\ (e = "IN" => Counts(urbs', TRUE))
  <2>1. urbs[1][1] = e /\ (e = "IN" \/ e = "INT")
    BY <1>4, CarriedIs
  <2>2. /\ Cardinality(At("INT", urbs)) <= 1
        /\ Cardinality(At("IN", urbs)) <= 4
    BY <1>2, <1>6 DEF Counts, InTransfers
  <2>3. CASE e = "IN"
    <3>1. Cardinality(At("IN", urbs')) = Cardinality(At("IN", urbs)) - 1
          /\ Cardinality(At("INT", urbs')) = Cardinality(At("INT", urbs))
      BY <1>6, <2>1, <2>3
    <3> QED  BY <1>6, <1>7, <2>2, <3>1 DEF Counts, InTransfers
  <2>4. CASE e = "INT"
    <3>1. Cardinality(At("IN", urbs')) = Cardinality(At("IN", urbs))
          /\ Cardinality(At("INT", urbs')) = Cardinality(At("INT", urbs)) - 1
      BY <1>6, <2>1, <2>4
    <3> QED  BY <1>6, <1>7, <2>2, <2>4, <3>1 DEF Counts, InTransfers
  <2> QED  BY <2>1, <2>3, <2>4
<1>9. Head(urbs)[2] = m
  BY <1>3, <1>4
<1>10. /\ host.up /\ ~host.busy /\ urbs # <<>> /\ Head(urbs)[2] = m /\ urbs[1] = <<e, m>>
       /\ urbs' = Tail(urbs) /\ urbs' \in Seq(UrbType)
       /\ Counts(urbs', FALSE) /\ (e = "IN" => Counts(urbs', TRUE))
  BY <1>1, <1>4, <1>5, <1>8, <1>9
<1> QED  BY <1>10

LEMMA StatusBase == ASSUME Base, ProcessStatus PROVE Base'
<1>1. PICK m \in StatusMsg :
           /\ host.up /\ ~host.busy /\ urbs # <<>> /\ Head(urbs)[2] = m /\ urbs[1] = <<"INT", m>>
           /\ urbs' = Tail(urbs) /\ urbs' \in Seq(UrbType) /\ Counts(urbs', FALSE)
  BY NextUrbIs, CarriedIs DEF ProcessStatus
<1>2. m.flags \in SUBSET Flag
  BY DEF StatusMsg, MsgType
<1>3. PICK h : h = [host EXCEPT !.flags = m.flags]
  OBVIOUS
<1>4. h \in HostType /\ h.up = host.up /\ h.busy = host.busy
  BY <1>2, <1>3 DEF Base, HostType
<1>5. host' = h
  BY <1>1, <1>3 DEF ProcessStatus
<1> HIDE <1>3
<1>6. UrbsOk'
  BY <1>1, <1>4, <1>5 DEF UrbsOk, HostType
<1>7. UNCHANGED <<rd, line, fw, txQ, ep, out, events, sess, torn, lost>>
      /\ (sim' = sim \/ sim' = sess)
  BY DEF ProcessStatus
<1>8. HistOk'
  BY <1>7 DEF Base, HistOk
<1>9. out' \in Seq(Transfer) /\ (~fw.irq => Preceded(out'))
  BY <1>7 DEF Base, Unheard
<1> QED  BY <1>4, <1>5, <1>6, <1>7, <1>8, <1>9, HostSide

LEMMA CaseIs == ASSUME NEW cmd \in CmdType PROVE DetermineCase(cmd) \in 1..4
BY SystemAssumption DEF DetermineCase, CmdType

LEMMA SegmentIs ==
  ASSUME Base, NEW cmd \in CmdType
  PROVE  SegmentHeader(cmd) \in AcType /\ SegmentHeader(cmd).cmd = cmd
<1>1. DetermineCase(cmd) \in 1..4
  BY CaseIs
<1>2. host.ac.apduCase \in 1..3 => host.ac.apduCase \in 0..4
  OBVIOUS
<1> QED  BY <1>1, <1>2 DEF SegmentHeader, AcType

\* A header or body, its APDU, and whether the answer is a request for the body.
LEMMA RxDataIs ==
  ASSUME Base, ProcessRxData
  PROVE  \E m \in InMsg :
           /\ host.up /\ ~host.busy /\ urbs # <<>> /\ urbs[1] = <<"IN", m>>
           /\ urbs' = Tail(urbs) /\ urbs' \in Seq(UrbType) /\ Counts(urbs', FALSE)
           /\ Counts(urbs', TRUE)
           /\ \/ m.k = "CONFIG" /\ UNCHANGED <<host, out>>
              \/ \E ac \in AcType :
                   /\ host' = [host EXCEPT !.ac = ac, !.busy = ~ac.more]
                   /\ out' = IF ac.more THEN Append(out, <<Msg("PB_AND_RX", ac.cmd, {})>>) ELSE out
                   /\ \/ m.k = "HDR" /\ ac.cmd = m.cmd
                      \/ /\ m.k = "DATA" /\ host.ac.apduCase # 0 /\ ac.cmd = host.ac.cmd
                         /\ ~ac.more /\ ac.apduCase = host.ac.apduCase
<1>1. PICK m \in InMsg :
           /\ host.up /\ ~host.busy /\ urbs # <<>> /\ Head(urbs)[2] = m /\ urbs[1] = <<"IN", m>>
           /\ urbs' = Tail(urbs) /\ urbs' \in Seq(UrbType) /\ Counts(urbs', FALSE)
           /\ Counts(urbs', TRUE)
  BY NextUrbIs, CarriedIs DEF ProcessRxData
<1>2. m.k \in InKind /\ m.cmd \in CmdType /\ host.ac \in AcType
  BY DEF InMsg, MsgType, Base, HostType
<1>3. CASE m.k = "CONFIG"
  <2>1. UNCHANGED <<host, out>>
    BY <1>1, <1>3 DEF ProcessRxData
  <2> QED  BY <1>1, <1>3, <2>1
<1>4. CASE m.k = "HDR"
  <2>1. PICK ac \in AcType : ac = SegmentHeader(m.cmd) /\ ac.cmd = m.cmd
    BY <1>2, SegmentIs
  <2>2. host' = [host EXCEPT !.ac = ac, !.busy = ~ac.more]
        /\ out' = IF ac.more THEN Append(out, <<Msg("PB_AND_RX", ac.cmd, {})>>) ELSE out
    BY <1>1, <1>4, <2>1 DEF ProcessRxData
  <2> QED  BY <1>1, <1>4, <2>1, <2>2
<1>5. CASE m.k = "DATA"
  <2>1. PICK ac \in AcType : /\ ac = [host.ac EXCEPT !.more = FALSE]
                             /\ ac.cmd = host.ac.cmd /\ ~ac.more /\ ac.apduCase = host.ac.apduCase
    <3>1. PICK a : a = host.ac
      OBVIOUS
    <3>2. a \in AcType
      BY <1>2, <3>1
    <3>3. PICK ac : ac = [a EXCEPT !.more = FALSE]
      OBVIOUS
    <3>4. ac \in AcType /\ ac.cmd = a.cmd /\ ~ac.more /\ ac.apduCase = a.apduCase
      BY <3>2, <3>3 DEF AcType
    <3>5. ac = [host.ac EXCEPT !.more = FALSE]
      BY <3>1, <3>3
    <3> QED  BY <3>1, <3>4, <3>5
  <2>2. host' = [host EXCEPT !.ac = ac, !.busy = ~ac.more]
        /\ out' = IF ac.more THEN Append(out, <<Msg("PB_AND_RX", ac.cmd, {})>>) ELSE out
    BY <1>1, <1>5, <2>1 DEF ProcessRxData
  <2>3. host.ac.apduCase # 0
    BY <1>1, <1>5 DEF ProcessRxData
  <2> QED  BY <1>1, <1>5, <2>1, <2>2, <2>3
<1> QED  BY <1>2, <1>3, <1>4, <1>5 DEF InKind

\* The host's record after it.
LEMMA HostAfter ==
  ASSUME host \in HostType, NEW ac \in AcType, NEW b \in BOOLEAN
  PROVE  /\ [host EXCEPT !.ac = ac, !.busy = b] \in HostType
         /\ [host EXCEPT !.ac = ac, !.busy = b].up = host.up
         /\ [host EXCEPT !.ac = ac, !.busy = b].busy = b
         /\ [host EXCEPT !.ac = ac, !.busy = b].ac = ac
         /\ [host EXCEPT !.ac = ac, !.busy = b].flags = host.flags
BY DEF HostType

LEMMA RxDataBase == ASSUME Base, ProcessRxData PROVE Base'
<1>1. PICK m \in InMsg :
           /\ host.up /\ ~host.busy /\ urbs # <<>> /\ urbs[1] = <<"IN", m>>
           /\ urbs' = Tail(urbs) /\ urbs' \in Seq(UrbType) /\ Counts(urbs', FALSE)
           /\ Counts(urbs', TRUE)
           /\ \/ m.k = "CONFIG" /\ UNCHANGED <<host, out>>
              \/ \E ac \in AcType :
                   /\ host' = [host EXCEPT !.ac = ac, !.busy = ~ac.more]
                   /\ out' = IF ac.more THEN Append(out, <<Msg("PB_AND_RX", ac.cmd, {})>>) ELSE out
                   /\ \/ m.k = "HDR" /\ ac.cmd = m.cmd
                      \/ /\ m.k = "DATA" /\ host.ac.apduCase # 0 /\ ac.cmd = host.ac.cmd
                         /\ ~ac.more /\ ac.apduCase = host.ac.apduCase
  BY RxDataIs
<1>2. UNCHANGED <<rd, line, fw, txQ, ep, sim, events, sess, torn, lost>>
  BY DEF ProcessRxData
<1>3. HistOk'
  BY <1>2 DEF Base, HistOk
<1>4. host \in HostType /\ out \in Seq(Transfer) /\ (~fw.irq => Preceded(out))
      /\ (host.busy \in BOOLEAN) /\ host.up
  BY <1>1 DEF Base, Unheard, HostType
<1>5. CASE UNCHANGED <<host, out>>
  <2>1. UrbsOk'
    BY <1>1, <1>4, <1>5 DEF UrbsOk, Counts
  <2> QED  BY <1>2, <1>3, <1>4, <1>5, <2>1, HostSide
<1>6. CASE \E ac \in AcType :
             /\ host' = [host EXCEPT !.ac = ac, !.busy = ~ac.more]
             /\ out' = IF ac.more THEN Append(out, <<Msg("PB_AND_RX", ac.cmd, {})>>) ELSE out
  <2>1. PICK ac \in AcType :
             /\ host' = [host EXCEPT !.ac = ac, !.busy = ~ac.more]
             /\ out' = IF ac.more THEN Append(out, <<Msg("PB_AND_RX", ac.cmd, {})>>) ELSE out
    BY <1>6
  <2>2. PICK b \in BOOLEAN : b = ~ac.more
    OBVIOUS
  <2>3. host' \in HostType /\ host'.up = host.up /\ host'.busy = b
    BY <1>4, <2>1, <2>2, HostAfter
  <2>4. UrbsOk'
    BY <1>1, <2>2, <2>3 DEF UrbsOk
  <2>5. PICK t \in Transfer : t = <<Msg("PB_AND_RX", ac.cmd, {})>> /\ t[1].k = "PB_AND_RX"
    <3>1. Msg("PB_AND_RX", ac.cmd, {}) \in Answer /\ Msg("PB_AND_RX", ac.cmd, {}).k = "PB_AND_RX"
      BY MsgsAre, MsgIs DEF AcType, TxKind
    <3> QED  BY <3>1, TransfersAre
  <2>6. out' \in Seq(Transfer) /\ (~fw.irq => Preceded(out'))
    <3>1. Append(out, t) \in Seq(Transfer) /\ (~fw.irq => Preceded(Append(out, t)))
      BY <1>4, <2>5, PrecededAppend
    <3> QED  BY <1>4, <2>1, <2>5, <3>1
  <2> QED  BY <1>2, <1>3, <2>3, <2>4, <2>6, HostSide
<1> QED  BY <1>1, <1>5, <1>6

\* The answers of the card: a status word, or data followed by one.
LEMMA TransceiveIs ==
  ASSUME Base, Transceive
  PROVE  \E sw \in Answer, data \in Answer, w \in {"6Cxx", "9000"} :
           /\ host.busy
           /\ sw.k \in {"SW", "SW_6C"} /\ sw.cmd = host.ac.cmd
           /\ data.k = "PB_AND_TX" /\ data.cmd = host.ac.cmd
           /\ host' = [host EXCEPT !.busy = FALSE, !.ac.sw = w]
           /\ \/ out' = Append(out, <<sw>>)
              \/ out' = Append(out, <<data, sw>>)
              \/ out' = Append(Append(out, <<data>>), <<sw>>)
<1>1. host.busy /\ host.ac.cmd \in CmdType
  BY DEF Transceive, Base, HostType, AcType
<1>2. PICK bad \in BOOLEAN : bad = (host.ac.cmd.kind = "gp" /\ ~host.ac.cmd.retry)
  OBVIOUS
<1>3. PICK sw : sw = Msg(IF bad THEN "SW_6C" ELSE "SW", host.ac.cmd, {})
  OBVIOUS
<1>4. PICK data : data = Msg("PB_AND_TX", host.ac.cmd, {})
  OBVIOUS
<1>5. sw \in Answer /\ sw.k \in {"SW", "SW_6C"} /\ sw.cmd = host.ac.cmd
  <2>1. CASE bad
    BY <1>1, <1>3, <2>1, MsgsAre, MsgIs DEF TxKind
  <2>2. CASE ~bad
    BY <1>1, <1>3, <2>2, MsgsAre, MsgIs DEF TxKind
  <2> QED  BY <2>1, <2>2
<1>6. data \in Answer /\ data.k = "PB_AND_TX" /\ data.cmd = host.ac.cmd
  BY <1>1, <1>4, MsgsAre, MsgIs DEF TxKind
<1>7. \/ out' = Append(out, <<sw>>)
      \/ out' = Append(out, <<data, sw>>)
      \/ out' = Append(Append(out, <<data>>), <<sw>>)
  BY <1>2, <1>3, <1>4 DEF Transceive
<1>8. PICK w \in {"6Cxx", "9000"} : host' = [host EXCEPT !.busy = FALSE, !.ac.sw = w]
  BY <1>2 DEF Transceive
<1> HIDE <1>3, <1>4
<1> QED  BY <1>1, <1>5, <1>6, <1>7, <1>8

LEMMA HostAnswered ==
  ASSUME host \in HostType, NEW w \in {"6Cxx", "9000"},
         host' = [host EXCEPT !.busy = FALSE, !.ac.sw = w]
  PROVE  /\ host' \in HostType /\ host'.up = host.up /\ host'.busy = FALSE
         /\ host'.flags = host.flags
         /\ host'.ac.cmd = host.ac.cmd /\ host'.ac.apduCase = host.ac.apduCase
<1>1. PICK a : a = [host.ac EXCEPT !.sw = w]
  OBVIOUS
<1>2. a \in AcType /\ a.cmd = host.ac.cmd /\ a.apduCase = host.ac.apduCase
  <2>1. PICK c : c = host.ac
    OBVIOUS
  <2>2. c \in AcType
    BY <2>1 DEF HostType
  <2>3. a = [c EXCEPT !.sw = w]
    BY <1>1, <2>1
  <2>4. a \in AcType /\ a.cmd = c.cmd /\ a.apduCase = c.apduCase
    BY <2>2, <2>3 DEF AcType
  <2> QED  BY <2>1, <2>4
<1>3. host' = [host EXCEPT !.busy = FALSE, !.ac = a]
  BY <1>1 DEF HostType
<1> HIDE <1>1
<1>4. [host EXCEPT !.busy = FALSE, !.ac = a] \in HostType
  BY <1>2 DEF HostType
<1> QED  BY <1>2, <1>3, <1>4 DEF HostType

LEMMA TransceiveBase == ASSUME Base, Transceive PROVE Base'
<1>1. PICK sw \in Answer, data \in Answer, w \in {"6Cxx", "9000"} :
           /\ host.busy
           /\ sw.k \in {"SW", "SW_6C"} /\ sw.cmd = host.ac.cmd
           /\ data.k = "PB_AND_TX" /\ data.cmd = host.ac.cmd
           /\ host' = [host EXCEPT !.busy = FALSE, !.ac.sw = w]
           /\ \/ out' = Append(out, <<sw>>)
              \/ out' = Append(out, <<data, sw>>)
              \/ out' = Append(Append(out, <<data>>), <<sw>>)
  BY TransceiveIs
<1>2. UNCHANGED <<rd, line, fw, txQ, ep, urbs, sim, events, sess, torn, lost>>
  BY DEF Transceive
<1>3. host' \in HostType /\ host'.up = host.up /\ host'.busy = FALSE
  BY <1>1, HostAnswered DEF Base
<1>4. UrbsOk'
  <2>1. urbs \in Urbs /\ Counts(urbs, TRUE)
    BY <1>1, UrbsAre DEF Base, UrbsOk, Counts
  <2>2. Cardinality(At("IN", urbs)) \in Nat
    BY <2>1, AtFinite
  <2>3. Counts(urbs, FALSE)
    BY <2>1, <2>2 DEF Counts, InTransfers
  <2>4. Counts(urbs', host'.busy)
    BY <1>2, <1>3, <2>3
  <2>5. ~host'.up => urbs' = <<>>
    BY <1>2, <1>3 DEF Base, UrbsOk
  <2> QED  BY <1>2, <1>3, <2>4, <2>5 DEF Base, UrbsOk
<1>5. HistOk'
  BY <1>2 DEF Base, HistOk
<1>6. /\ <<sw>> \in Transfer /\ <<sw>>[1] = sw
      /\ <<data, sw>> \in Transfer /\ <<data, sw>>[1] = data
      /\ <<data>> \in Transfer /\ <<data>>[1] = data
  BY TransfersAre
<1>7. out' \in Seq(Transfer) /\ (~fw.irq => Preceded(out'))
  <2>1. ASSUME NEW o \in Seq(Transfer), ~fw.irq => Preceded(o), NEW t \in Transfer,
               t[1].k # "SELECT"
        PROVE  Append(o, t) \in Seq(Transfer) /\ (~fw.irq => Preceded(Append(o, t)))
    BY <2>1, PrecededAppend
  <2>2. out \in Seq(Transfer) /\ (~fw.irq => Preceded(out))
    BY DEF Base, Unheard
  <2>3. sw.k # "SELECT" /\ data.k # "SELECT"
    BY <1>1
  <2>4. CASE out' = Append(out, <<sw>>)
    BY <1>6, <2>1, <2>2, <2>3, <2>4
  <2>5. CASE out' = Append(out, <<data, sw>>)
    BY <1>6, <2>1, <2>2, <2>3, <2>5
  <2>6. CASE out' = Append(Append(out, <<data>>), <<sw>>)
    <3>1. PICK o : o = Append(out, <<data>>)
      OBVIOUS
    <3>2. o \in Seq(Transfer) /\ (~fw.irq => Preceded(o))
      BY <1>6, <2>1, <2>2, <2>3, <3>1
    <3> QED  BY <1>6, <2>1, <2>3, <2>6, <3>1, <3>2
  <2> QED  BY <1>1, <2>4, <2>5, <2>6
<1> QED  BY <1>2, <1>3, <1>4, <1>5, <1>7, HostSide

LEMMA FailsBase == ASSUME Base, TransceiveFails PROVE Base'
<1>1. /\ host.busy /\ host' = [host EXCEPT !.busy = FALSE] /\ lost' = TRUE
      /\ UNCHANGED <<rd, line, fw, txQ, ep, urbs, out, sim, events, sess, torn>>
  BY DEF TransceiveFails
<1>2. host' \in HostType /\ host'.up = host.up /\ host'.busy = FALSE
  BY <1>1 DEF Base, HostType
<1>3. UrbsOk'
  <2>1. urbs \in Urbs /\ Counts(urbs, TRUE)
    BY <1>1, UrbsAre DEF Base, UrbsOk, Counts
  <2>2. Cardinality(At("IN", urbs)) \in Nat
    BY <2>1, AtFinite
  <2>3. Counts(urbs, FALSE)
    BY <2>1, <2>2 DEF Counts, InTransfers
  <2>4. Counts(urbs', host'.busy)
    BY <1>1, <1>2, <2>3
  <2> QED  BY <1>1, <1>2, <2>4 DEF Base, UrbsOk
<1>4. HistOk'
  BY <1>1 DEF Base, HistOk
<1>5. out' \in Seq(Transfer) /\ (~fw.irq => Preceded(out'))
  BY <1>1 DEF Base, Unheard
<1> QED  BY <1>1, <1>2, <1>3, <1>4, <1>5, HostSide

LEMMA NoneComplete == \A b \in BOOLEAN : Counts(<<>>, b)
<1>1. Cardinality(At("IN", <<>>)) = 0 /\ Cardinality(At("INT", <<>>)) = 0
  BY AtNone
<1> QED  BY <1>1, IntUrbNone DEF Counts, InTransfers

\* The end of the program, by itself or not.
LEMMA StoppedBase ==
  ASSUME Base, NEW o \in Seq(Transfer), ~fw.irq => Preceded(o), Stopped(o), events' \in Nat,
         UNCHANGED <<rd, line, fw, txQ, ep, sim, sess, torn>>
  PROVE  Base'
<1>1. PICK n \in 0..Len(o) : out' = SubSeq(o, 1, n)
  BY DEF Stopped
<1>2. out' \in Seq(Transfer) /\ (~fw.irq => Preceded(out'))
  <2>1. out' \in Seq(Transfer)
    BY <1>1
  <2> QED  BY <1>1, <2>1, PrecededPrefix
<1>3. host' = [host EXCEPT !.up = FALSE, !.busy = FALSE] /\ urbs' = <<>> /\ lost' = TRUE
  BY DEF Stopped
<1>4. host' \in HostType /\ host'.up = FALSE /\ host'.busy = FALSE
  BY <1>3 DEF Base, HostType
<1>5. UrbsOk'
  <2>1. Counts(urbs', host'.busy)
    BY <1>3, <1>4, NoneComplete
  <2>2. urbs' \in Seq(UrbType)
    BY <1>3
  <2> QED  BY <1>3, <1>4, <2>1, <2>2 DEF UrbsOk
<1>6. HistOk'
  BY <1>3 DEF Base, HistOk
<1> QED  BY <1>2, <1>4, <1>5, <1>6, HostSide

LEMMA UnknownBase == ASSUME Base, ApduUnknown PROVE Base'
<1>1. Stopped(out) /\ UNCHANGED <<rd, line, fw, txQ, ep, sim, events, sess, torn>>
  BY DEF ApduUnknown
<1>2. out \in Seq(Transfer) /\ (~fw.irq => Preceded(out)) /\ events' \in Nat
  BY <1>1 DEF Base, Unheard, HistOk
<1> QED  BY <1>1, <1>2, StoppedBase

LEMMA SignalBase == ASSUME Base, SignalHandler PROVE Base'
<1>1. PICK t \in Transfer : t = <<Plain("SELECT_LOCAL")>> /\ t[1].k = "SELECT_LOCAL"
  BY PlainAre, TransfersAre DEF CmdKind
<1>2. out \in Seq(Transfer) /\ (~fw.irq => Preceded(out)) /\ events' \in Nat
  BY SystemAssumption DEF Base, Unheard, HistOk, SignalHandler, Strike
<1>3. Append(out, t) \in Seq(Transfer) /\ (~fw.irq => Preceded(Append(out, t)))
  BY <1>1, <1>2, PrecededAppend
<1>4. Stopped(Append(out, t)) /\ UNCHANGED <<rd, line, fw, txQ, ep, sim, sess, torn>>
  BY <1>1 DEF SignalHandler
<1> QED  BY <1>2, <1>3, <1>4, StoppedBase

LEMMA StartBase == ASSUME Base, HostStart PROVE Base'
<1>1. /\ host' = [up |-> TRUE, flags |-> {}, ac |-> NoAc, busy |-> FALSE]
      /\ sim' = sess /\ out' = Startup /\ ~host.up
      /\ UNCHANGED <<rd, line, fw, txQ, ep, urbs, events, sess, torn, lost>>
  BY DEF HostStart
<1>2. host' \in HostType /\ host'.up = TRUE
  BY <1>1, NoCmdType DEF HostType
<1>3. UrbsOk'
  <2>1. urbs' = <<>>
    BY <1>1 DEF Base, UrbsOk
  <2>2. host'.busy \in BOOLEAN
    BY <1>1
  <2> QED  BY <1>2, <2>1, <2>2, NoneComplete DEF UrbsOk
<1>4. HistOk'
  BY <1>1 DEF Base, HistOk
<1>5. out' \in Seq(Transfer) /\ (~fw.irq => Preceded(out'))
  BY <1>1, StartupIs, PrecededStart
<1> QED  BY <1>1, <1>2, <1>3, <1>4, <1>5, HostSide

\* The first transfer of the host, and the ones that remain.
LEMMA HeadIs ==
  ASSUME Base, out # <<>>
  PROVE  Head(out) = out[1] /\ out[1] \in Transfer /\ Tail(out) \in Seq(Transfer)
BY DEF Base

\* Its answers to the card, or as many of them as there are buffers for.
LEMMA TxDataIs ==
  ASSUME Base, DispatchTxData
  PROVE  \E t \in Seq(Answer) : \E n \in 0..Len(t) :
           /\ out # <<>> /\ t = out[1] /\ t[1].k \in TxKind /\ out' = Tail(out)
           /\ txQ' = IF Ready THEN txQ \o SubSeq(t, 1, n) ELSE txQ
<1>1. out # <<>> /\ Head(out)[1].k \in TxKind /\ out' = Tail(out)
  BY DEF DispatchTxData
<1>2. PICK t \in Transfer : t = out[1] /\ t = Head(out)
  BY <1>1, HeadIs
<1>3. t \in Seq(Answer) /\ Len(t) \in Nat /\ t[1].k \in TxKind
  <2>1. t[1].k \in TxKind
    BY <1>1, <1>2
  <2> QED  BY <2>1, TransferIs
<1>4. PICK n \in IF Len(t) > 1 THEN 0..Len(t) ELSE {Len(t)} :
        txQ' = IF Ready THEN txQ \o SubSeq(t, 1, n) ELSE txQ
  BY <1>2 DEF DispatchTxData
<1>5. n \in 0..Len(t)
  BY <1>3, <1>4
<1> QED  BY <1>1, <1>2, <1>3, <1>4, <1>5

LEMMA TxDataBase == ASSUME Base, DispatchTxData PROVE Base'
<1>1. PICK t \in Seq(Answer) : \E n \in 0..Len(t) :
           /\ out # <<>> /\ t = out[1] /\ t[1].k \in TxKind /\ out' = Tail(out)
           /\ txQ' = IF Ready THEN txQ \o SubSeq(t, 1, n) ELSE txQ
  BY TxDataIs
<1>2. PICK n \in 0..Len(t) :
           /\ out # <<>> /\ t = out[1] /\ t[1].k \in TxKind /\ out' = Tail(out)
           /\ txQ' = IF Ready THEN txQ \o SubSeq(t, 1, n) ELSE txQ
  BY <1>1
<1>3. UNCHANGED <<rd, line, fw, ep, urbs, host, sim, sess, torn>>
  BY DEF DispatchTxData
<1>4. SubSeq(t, 1, n) \in Seq(Answer)
  BY <1>2
<1>5. txQ' \in Seq(Answer)
  BY <1>2, <1>4 DEF Base, ReaderOk
<1>6. HistOk'
  <2>1. (Strike /\ lost' = TRUE) \/ UNCHANGED <<events, lost>>
    BY DEF DispatchTxData
  <2>2. events' \in Nat /\ lost' \in BOOLEAN
    <3>1. events \in Nat /\ lost \in BOOLEAN
      BY DEF Base, HistOk
    <3>2. lost' \in BOOLEAN
      BY <2>1, <3>1
    <3>3. events' = events + StopCost \/ events' = events
      BY <2>1 DEF Strike
    <3> QED  BY <3>1, <3>2, <3>3, SystemAssumption
  <2> QED  BY <1>3, <2>2 DEF Base, HistOk
<1>7. out' \in Seq(Transfer) /\ (~fw.irq => Preceded(out'))
  <2>1. out \in Seq(Transfer) /\ (~fw.irq => Preceded(out))
    BY DEF Base, Unheard
  <2>2. out[1][1].k # "CONFIG"
    BY <1>2 DEF TxKind
  <2> QED  BY <1>2, <2>1, <2>2, HeadIs, PrecededTail
<1>8. LineOk' /\ ReaderOk' /\ CardOff' /\ UrbsOk' /\ Unheard' /\ EpTyped(ep')
      /\ host' \in HostType
  BY <1>3, <1>5, <1>7, SameLine, SameUrbs, SameUnheard DEF Base, ReaderOk, CardOff
<1> QED  BY <1>6, <1>7, <1>8 DEF Base

LEMMA ConfigIs ==
  ASSUME Base, DispatchConfig
  PROVE  \E r \in Queue("IN") :
           /\ out # <<>> /\ out[1][1].k = "CONFIG" /\ out' = Tail(out)
           /\ fw' \in FwType /\ fw'.irq /\ fw'.level = fw.level /\ fw'.pins = fw.pins
           /\ fw'.enabled = fw.enabled /\ fw'.state = fw.state
           /\ EpTyped(ep') /\ ep'["IN"].q = r /\ ep'["IN"].busy = ep["IN"].busy
           /\ r = Submit(ep["IN"].q, Plain("CONFIG"))
           /\ ep'["INT"] = ep["INT"]
<1>1. PICK q \in Queue("IN") : q = ep["IN"].q
  BY CarriedIs DEF Base, EpTyped, EpType
<1>2. PICK r \in Queue("IN") : r = Submit(q, Plain("CONFIG"))
  BY PlainAre, CarriedIs, SubmitQueue
<1>3. QueueSet(ep, ep', "IN", r)
  BY <1>1, <1>2 DEF DispatchConfig, QueueSet
<1>4. /\ EpTyped(ep') /\ ep'["IN"].q = r /\ ep'["IN"].busy = ep["IN"].busy
      /\ ep'["INT"] = ep["INT"]
  BY <1>3, QueueSetIs, CarriedIs DEF Base
<1>5. fw' = [fw EXCEPT !.irq = TRUE] /\ fw \in FwType
  BY DEF DispatchConfig, Base, LineOk
<1>6. /\ fw' \in FwType /\ fw'.irq /\ fw'.level = fw.level /\ fw'.pins = fw.pins
      /\ fw'.enabled = fw.enabled /\ fw'.state = fw.state
  BY <1>5 DEF FwType
<1>7. out # <<>> /\ out[1][1].k = "CONFIG" /\ out' = Tail(out)
  BY HeadIs DEF DispatchConfig
<1> QED  BY <1>1, <1>2, <1>4, <1>6, <1>7

LEMMA ConfigBase == ASSUME Base, DispatchConfig PROVE Base'
<1>1. PICK r \in Queue("IN") :
           /\ out # <<>> /\ out[1][1].k = "CONFIG" /\ out' = Tail(out)
           /\ fw' \in FwType /\ fw'.irq /\ fw'.level = fw.level /\ fw'.pins = fw.pins
           /\ fw'.enabled = fw.enabled /\ fw'.state = fw.state
           /\ EpTyped(ep') /\ ep'["IN"].q = r /\ ep'["IN"].busy = ep["IN"].busy
           /\ r = Submit(ep["IN"].q, Plain("CONFIG"))
           /\ ep'["INT"] = ep["INT"]
  BY ConfigIs
<1>2. UNCHANGED <<rd, line, txQ, urbs, host, sim, events, sess, torn, lost>>
  BY DEF DispatchConfig
<1>3. LineOk' /\ CardOff'
  BY <1>1, <1>2 DEF Base, LineOk, CardOff
<1>4. ReaderOk' /\ UrbsOk' /\ HistOk' /\ host' \in HostType
  BY <1>2, SameReader, SameUrbs DEF Base, HistOk
<1>5. Unheard' /\ out' \in Seq(Transfer)
  BY <1>1, HeadIs DEF Unheard
<1> QED  BY <1>1, <1>3, <1>4, <1>5 DEF Base

LEMMA BaseNext == ASSUME Base, [Next]_vars PROVE Base'
<1>1. CASE UNCHANGED vars
  <2>1. UNCHANGED <<rd, line, fw, txQ, ep, urbs, out, host, sim, events, sess, torn, lost>>
    BY <1>1 DEF vars
  <2>2. UrbsOk' /\ host' \in HostType /\ out' \in Seq(Transfer) /\ (~fw.irq => Preceded(out'))
        /\ HistOk'
    BY <2>1, SameUrbs DEF Base, HistOk, Unheard
  <2> QED  BY <2>1, <2>2, HostSide
<1>2. CASE Next
  BY <1>2, LineChangeBase, HeaderBase, BodyBase, AtrBase, TxBase, TxDataBase, ConfigBase,
     SelectBase, RefillBase, StatusBase, RxDataBase, TransceiveBase, FailsBase, UnknownBase,
     CompleteBase, SignalBase, StartBase
     DEF Next, ReaderStep, FirmwareStep, HostStep
<1> QED  BY <1>1, <1>2

\* Types, limits and levels, in every reachable state.
THEOREM BaseInvariant == Spec => []Base
<1>1. Init => Base
  BY BaseInit
<1>2. Base /\ [Next]_vars => Base'
  BY BaseNext
<1> QED  BY <1>1, <1>2, PTL DEF Spec

\* Type correctness: no endpoint queue outgrows USB_MAX_QLEN, and no more transfers of
\* the host complete than it has submitted.
THEOREM TypeCorrect == Spec => []TypeOK
<1>1. Base => TypeOK
  <2> SUFFICES ASSUME Base PROVE TypeOK
    OBVIOUS
  <2>1. rd \in RdType /\ line \in LevelType /\ fw \in FwType
    BY DEF Base, LineOk, ReaderOk
  <2>2. \A e \in Endpoint : /\ ep[e].q \in Seq(MsgType) /\ Len(ep[e].q) <= UsbMaxQlen
                            /\ ep[e].busy \in MsgType
    <3> SUFFICES ASSUME NEW e \in Endpoint
                 PROVE  /\ ep[e].q \in Seq(MsgType) /\ Len(ep[e].q) <= UsbMaxQlen
                        /\ ep[e].busy \in MsgType
      OBVIOUS
    <3>1. ep[e].q \in Queue(e) /\ ep[e].busy \in Carried(e) \cup {NoMsg}
      BY DEF Base, EpTyped, EpType
    <3>2. Carried(e) \subseteq MsgType /\ NoMsg \in MsgType
      BY CarriedIs, NoMsgIs
    <3>3. ep[e].q \in Seq(Carried(e)) /\ Len(ep[e].q) <= UsbMaxQlen
      BY <3>1 DEF Queue
    <3> QED  BY <3>1, <3>2, <3>3, SeqMonotonic
  <2>3. \A i \in DOMAIN txQ : txQ[i].k \in TxKind
    <3>1. \A i \in DOMAIN txQ : txQ[i] \in Answer
      BY DEF Base, ReaderOk
    <3> QED  BY <3>1 DEF Answer
  <2>4. \A e \in Endpoint : Completed(e) <= IF e = "IN" THEN InTransfers ELSE 1
    <3>1. urbs \in Urbs /\ Counts(urbs, host.busy)
      BY UrbsAre DEF Base, UrbsOk
    <3>2. Cardinality(At("IN", urbs)) \in Nat
      BY <3>1, AtFinite
    <3>3. Cardinality(At("IN", urbs)) <= InTransfers /\ Cardinality(At("INT", urbs)) <= 1
      BY <3>1, <3>2 DEF Counts, InTransfers
    <3> QED  BY <3>3, CompletedIs, CarriedIs
  <2>5. host.ac.apduCase \in 0..4 /\ host.flags \subseteq Flag
    BY DEF Base, HostType, AcType
  <2>6. sim \in 0..sess /\ torn \in BOOLEAN /\ lost \in BOOLEAN
    BY DEF Base, HistOk
  <2> QED  BY <2>1, <2>2, <2>3, <2>4, <2>5, <2>6 DEF TypeOK, RdType, LevelType, FwType
<1> QED  BY <1>1, BaseInvariant, PTL

-----------------------------------------------------------------------------
(* The status messages on their way to the host.  In the order in which it  *)
(* will read them: the completed transfer u, the transfer in progress b,    *)
(* the queue q.  h are the flags of the last one it read.                   *)

Calls(old, flags) == ResetFor(old, flags) # "none"

\* the host's flags once it has read m
Read(h, m) == IF m = NoMsg THEN h ELSE m.flags

Nothing(u, b, q) == u = NoMsg /\ b = NoMsg /\ q = <<>>

Latest(h, u, b, q) == IF q = <<>> THEN Read(Read(h, u), b) ELSE Last(q).flags

\* one of them will make the host reset the real card
ResetSeen(h, u, b, q) ==
  \/ u # NoMsg /\ Calls(h, u.flags)
  \/ b # NoMsg /\ Calls(Read(h, u), b.flags)
  \/ q # <<>> /\ Calls(Read(Read(h, u), b), q[1].flags)
  \/ \E i \in 1..Len(q) - 1 : Calls(q[i].flags, q[i + 1].flags)

\* The last message tells the pins as they are; when there is none the host knows
\* them, or nothing.
Informed(h, u, b, q, pins, up) ==
  IF Nothing(u, b, q) THEN up => h \in {pins, {}} ELSE Latest(h, u, b, q) = pins

\* While the card is powered and out of reset, the real card has been reset for this
\* session or it is going to be.
Due(h, u, b, q, pins, up, done, session) ==
  up /\ pins = {"VCC", "CLK"} => done = session \/ ResetSeen(h, u, b, q)

IntQueue == Queue("INT")
IntSlot == StatusMsg \cup {NoMsg}

LEMMA SlotIs ==
  ASSUME NEW h \in SUBSET Flag, NEW m \in IntSlot
  PROVE  Read(h, m) \in SUBSET Flag /\ Read(h, NoMsg) = h /\ (m # NoMsg => Read(h, m) = m.flags)
BY DEF Read, IntSlot, StatusMsg, MsgType

LEMMA IntQueueIs ==
  ASSUME NEW q \in IntQueue
  PROVE  /\ q \in Seq(StatusMsg) /\ Len(q) \in Nat /\ Len(q) <= UsbMaxQlen
         /\ DOMAIN q = 1..Len(q)
         /\ q # <<>> => Len(q) \in Nat \ {0} /\ Last(q) = q[Len(q)] /\ q[1] \in StatusMsg
BY CarriedIs DEF IntQueue, Queue, Last

\* Refilling moves the first message of the queue on.
LEMMA RefillKeeps ==
  ASSUME NEW h \in SUBSET Flag, NEW u \in IntSlot, NEW q \in IntQueue, q # <<>>
  PROVE  /\ ResetSeen(h, u, NoMsg, q) => ResetSeen(h, u, q[1], Tail(q))
         /\ Latest(h, u, q[1], Tail(q)) = Latest(h, u, NoMsg, q)
         /\ ~Nothing(u, q[1], Tail(q)) /\ ~Nothing(u, NoMsg, q)
<1>1. PICK m \in StatusMsg : m = q[1]
  BY IntQueueIs
<1>2. m # NoMsg
  BY NoMsgIs
<1>3. PICK t : t = Tail(q)
  OBVIOUS
<1>4. /\ Len(q) \in Nat \ {0} /\ Len(t) = Len(q) - 1
      /\ \A i \in 1..Len(q) - 1 : t[i] = q[i + 1]
      /\ t = <<>> <=> Len(q) = 1
      /\ Last(q) = q[Len(q)] /\ Last(t) = t[Len(t)]
  <2>1. q \in Seq(StatusMsg) /\ Len(q) \in Nat \ {0}
    BY IntQueueIs
  <2>2. t \in Seq(StatusMsg) /\ Len(t) = Len(q) - 1 /\ \A i \in 1..Len(q) - 1 : t[i] = q[i + 1]
    BY <1>3, <2>1
  <2>3. t = <<>> <=> Len(t) = 0
    BY <2>2
  <2> QED  BY <2>1, <2>2, <2>3 DEF Last
<1>5. t # <<>> => Last(t) = Last(q)
  <2>1. t # <<>> => Len(q) - 1 \in 1..Len(q) - 1 /\ (Len(q) - 1) + 1 = Len(q)
    BY <1>4
  <2>2. t # <<>> => t[Len(q) - 1] = q[Len(q)]
    BY <1>4, <2>1
  <2> QED  BY <1>4, <2>2
<1>6. t = <<>> => Last(q) = m
  BY <1>1, <1>4
<1> HIDE <1>3
<1>7. Latest(h, u, m, t) = Latest(h, u, NoMsg, q)
  BY <1>2, <1>5, <1>6 DEF Latest, Read
<1>8. Read(Read(h, u), m) = m.flags /\ Read(Read(h, u), NoMsg) = Read(h, u)
  BY <1>2 DEF Read
<1>9. ASSUME NEW i \in 1..Len(q) - 1, Calls(q[i].flags, q[i + 1].flags)
      PROVE  ResetSeen(h, u, m, t)
  <2>1. CASE i = 1
    <3>1. t # <<>> /\ t[1] = q[2]
      BY <1>4, <2>1
    <3>2. q[i] = m /\ q[i + 1] = t[1]
      BY <1>1, <2>1, <3>1
    <3> QED  BY <1>8, <1>9, <3>1, <3>2 DEF ResetSeen
  <2>2. CASE i # 1
    <3>1. i - 1 \in 1..Len(t) - 1 /\ i - 1 \in 1..Len(q) - 1 /\ i \in 1..Len(q) - 1
          /\ (i - 1) + 1 = i
      BY <1>4, <2>2
    <3>2. t[i - 1] = q[i] /\ t[(i - 1) + 1] = q[i + 1]
      BY <1>4, <3>1
    <3>3. Calls(t[i - 1].flags, t[(i - 1) + 1].flags)
      BY <1>9, <3>2
    <3> QED  BY <3>1, <3>3 DEF ResetSeen
  <2> QED  BY <2>1, <2>2
<1>10. ASSUME ResetSeen(h, u, NoMsg, q) PROVE ResetSeen(h, u, m, t)
  <2>1. CASE u # NoMsg /\ Calls(h, u.flags)
    BY <2>1 DEF ResetSeen
  <2>2. CASE Calls(Read(Read(h, u), NoMsg), q[1].flags)
    BY <1>1, <1>2, <1>8, <2>2 DEF ResetSeen
  <2>3. CASE \E i \in 1..Len(q) - 1 : Calls(q[i].flags, q[i + 1].flags)
    BY <1>9, <2>3
  <2> QED  BY <1>10, <2>1, <2>2, <2>3 DEF ResetSeen
<1> QED  BY <1>1, <1>2, <1>3, <1>7, <1>10 DEF Nothing

\* Completion and reading do the same.
LEMMA CompleteKeeps ==
  ASSUME NEW h \in SUBSET Flag, NEW b \in StatusMsg, NEW q \in IntQueue
  PROVE  /\ ResetSeen(h, NoMsg, b, q) => ResetSeen(h, b, NoMsg, q)
         /\ Latest(h, b, NoMsg, q) = Latest(h, NoMsg, b, q)
         /\ ~Nothing(b, NoMsg, q) /\ ~Nothing(NoMsg, b, q)
<1>1. b # NoMsg
  BY NoMsgIs
<1>2. /\ Read(Read(h, b), NoMsg) = b.flags /\ Read(Read(h, NoMsg), b) = b.flags
      /\ Read(h, NoMsg) = h
  BY <1>1 DEF Read
<1> QED  BY <1>1, <1>2 DEF ResetSeen, Latest, Nothing

LEMMA ReadKeeps ==
  ASSUME NEW h \in SUBSET Flag, NEW u \in StatusMsg, NEW b \in IntSlot, NEW q \in IntQueue
  PROVE  /\ ResetSeen(h, u, b, q) /\ ~Calls(h, u.flags) => ResetSeen(u.flags, NoMsg, b, q)
         /\ Latest(u.flags, NoMsg, b, q) = Latest(h, u, b, q) /\ ~Nothing(u, b, q)
         /\ Nothing(NoMsg, b, q) => Latest(h, u, b, q) = u.flags
<1>1. u # NoMsg
  BY NoMsgIs
<1>2. Read(h, u) = u.flags /\ Read(u.flags, NoMsg) = u.flags /\ Read(u.flags, b) = Read(Read(h, u), b)
  BY <1>1 DEF Read
<1>3. b = NoMsg => Read(Read(h, u), b) = u.flags
  BY <1>1 DEF Read
<1> QED  BY <1>1, <1>2, <1>3 DEF ResetSeen, Latest, Nothing

\* What follows is not told by the flags of the host, unless there is nothing.
LEMMA UnreadKeeps ==
  ASSUME NEW h, NEW g, NEW u, NEW b \in IntSlot, NEW q \in IntQueue, ~Nothing(NoMsg, b, q)
  PROVE  Latest(g, NoMsg, b, q) = Latest(h, u, b, q) /\ ~Nothing(u, b, q)
BY DEF Latest, Nothing, Read

\* A message that calls for a reset is seen when it is submitted, and it is still when
\* another follows, since the queue has room for three.
LEMMA SubmitSeen ==
  ASSUME NEW h \in SUBSET Flag, NEW u \in IntSlot, NEW b \in IntSlot, NEW q \in IntQueue,
         NEW m \in StatusMsg, UsbMaxQlen >= 2, Calls(Latest(h, u, b, q), m.flags)
  PROVE  ResetSeen(h, u, b, Submit(q, m))
<1>1. q \in Seq(StatusMsg) /\ Len(q) <= UsbMaxQlen /\ Len(q) \in Nat
  BY IntQueueIs
<1>2. PICK d \in 0..1 : /\ d = 1 => q # <<>>
                        /\ d = 1 <=> Len(q) >= UsbMaxQlen
                        /\ Len(Submit(q, m)) = Len(q) - d + 1
                        /\ \A i \in 1..Len(q) - d : Submit(q, m)[i] = q[i + d]
                        /\ Submit(q, m)[Len(q) - d + 1] = m
  BY <1>1, SubmitKeeps
<1>3. Submit(q, m) # <<>>
  BY <1>1, SubmitIs
<1>4. CASE q = <<>>
  <2>1. Submit(q, m)[1] = m
    <3>1. Len(q) = 0 /\ d = 0
      BY <1>2, <1>4
    <3>2. Len(q) - d + 1 = 1
      BY <3>1
    <3> QED  BY <1>2, <3>2
  <2>2. Latest(h, u, b, q) = Read(Read(h, u), b)
    BY <1>4 DEF Latest
  <2> QED  BY <1>3, <2>1, <2>2 DEF ResetSeen
<1>5. CASE q # <<>>
  <2>1. Latest(h, u, b, q) = q[Len(q)].flags /\ Len(q) \in Nat \ {0}
    BY <1>5, IntQueueIs DEF Latest
  <2>2. PICK i : i = Len(q) - d
    OBVIOUS
  <2>3. i \in 1..Len(q) - d /\ i + d = Len(q) /\ i + 1 = Len(q) - d + 1
        /\ i \in 1..Len(Submit(q, m)) - 1
    BY <1>1, <1>2, <2>1, <2>2, SystemAssumption
  <2>4. Submit(q, m)[i] = q[Len(q)] /\ Submit(q, m)[i + 1] = m
    BY <1>2, <2>3
  <2>5. Calls(Submit(q, m)[i].flags, Submit(q, m)[i + 1].flags)
    BY <2>1, <2>4
  <2> QED  BY <2>3, <2>5 DEF ResetSeen
<1> QED  BY <1>4, <1>5

LEMMA SubmitSeenStill ==
  ASSUME NEW h \in SUBSET Flag, NEW u \in IntSlot, NEW b \in IntSlot, NEW q \in IntQueue,
         NEW m \in StatusMsg, NEW n \in StatusMsg, UsbMaxQlen >= 3,
         Calls(Latest(h, u, b, q), m.flags)
  PROVE  ResetSeen(h, u, b, Submit(Submit(q, m), n))
<1>1. q \in Seq(StatusMsg) /\ Len(q) <= UsbMaxQlen /\ Len(q) \in Nat
  BY IntQueueIs
<1>2. PICK d \in 0..1 : /\ d = 1 => q # <<>>
                        /\ d = 1 <=> Len(q) >= UsbMaxQlen
                        /\ Len(Submit(q, m)) = Len(q) - d + 1
                        /\ \A i \in 1..Len(q) - d : Submit(q, m)[i] = q[i + d]
                        /\ Submit(q, m)[Len(q) - d + 1] = m
  BY <1>1, SubmitKeeps
<1>3. PICK p : p = Submit(q, m)
  OBVIOUS
<1>4. p \in Seq(StatusMsg) /\ Len(p) <= UsbMaxQlen /\ Len(p) \in Nat
  BY <1>1, <1>3, SubmitIs
<1>5. PICK e \in 0..1 : /\ e = 1 => p # <<>>
                        /\ e = 1 <=> Len(p) >= UsbMaxQlen
                        /\ Len(Submit(p, n)) = Len(p) - e + 1
                        /\ \A i \in 1..Len(p) - e : Submit(p, n)[i] = p[i + e]
                        /\ Submit(p, n)[Len(p) - e + 1] = n
  BY <1>4, SubmitKeeps
<1>6. /\ Len(p) = Len(q) - d + 1 /\ p[Len(q) - d + 1] = m
      /\ \A i \in 1..Len(q) - d : p[i] = q[i + d]
  BY <1>2, <1>3
<1>7. Submit(p, n) # <<>>
  BY <1>4, SubmitIs
<1>8. CASE q = <<>>
  <2>1. Len(q) = 0 /\ d = 0 /\ Len(p) = 1 /\ e = 0 /\ p[1] = m
    <3>1. Len(q) = 0 /\ d = 0
      BY <1>2, <1>8
    <3>2. Len(q) - d + 1 = 1
      BY <3>1
    <3>3. Len(p) = 1 /\ p[1] = m
      BY <1>6, <3>2
    <3>4. ~(1 >= UsbMaxQlen)
      BY SystemAssumption
    <3> QED  BY <1>5, <3>1, <3>3, <3>4
  <2>2. Submit(p, n)[1] = m
    <3>1. 1 \in 1..Len(p) - e /\ 1 + e = 1
      BY <2>1
    <3>2. Submit(p, n)[1] = p[1 + e]
      BY <1>5, <3>1
    <3> QED  BY <2>1, <3>1, <3>2
  <2>3. Latest(h, u, b, q) = Read(Read(h, u), b)
    BY <1>8 DEF Latest
  <2>4. ResetSeen(h, u, b, Submit(p, n))
    BY <1>7, <2>2, <2>3 DEF ResetSeen
  <2> QED  BY <1>3, <2>4
<1>9. CASE q # <<>>
  <2>1. Latest(h, u, b, q) = q[Len(q)].flags /\ Len(q) \in Nat \ {0}
    BY <1>9, IntQueueIs DEF Latest
  <2>2. PICK i : i = Len(q) - d - e
    OBVIOUS
  <2>3. i >= 1 /\ i \in Nat
    <3>1. d = 0 \/ d = 1
      OBVIOUS
    <3>2. CASE d = 0
      BY <1>1, <1>5, <1>6, <2>1, <2>2, <3>2, SystemAssumption
    <3>3. CASE d = 1
      BY <1>1, <1>2, <1>5, <2>1, <2>2, <3>3, SystemAssumption
    <3> QED  BY <3>1, <3>2, <3>3
  <2>4. /\ i + e \in 1..Len(q) - d /\ (i + e) + d = Len(q)
        /\ i \in 1..Len(p) - e /\ i + 1 \in 1..Len(p) - e
        /\ (i + 1) + e = Len(q) - d + 1
        /\ i \in 1..Len(Submit(p, n)) - 1
    BY <1>1, <1>5, <1>6, <2>1, <2>2, <2>3
  <2>5. p[i + e] = q[Len(q)] /\ p[(i + 1) + e] = m
    BY <1>6, <2>4
  <2>6. Submit(p, n)[i] = p[i + e] /\ Submit(p, n)[i + 1] = p[(i + 1) + e]
    BY <1>5, <2>4
  <2>7. Calls(Submit(p, n)[i].flags, Submit(p, n)[i + 1].flags)
    BY <2>1, <2>5, <2>6
  <2>8. ResetSeen(h, u, b, Submit(p, n))
    BY <2>4, <2>7 DEF ResetSeen
  <2> QED  BY <1>3, <2>8
<1> QED  BY <1>8, <1>9

LEMMA SubmitLatest ==
  ASSUME NEW h, NEW u, NEW b, NEW q \in IntQueue, NEW m \in StatusMsg
  PROVE  /\ Submit(q, m) \in IntQueue /\ Latest(h, u, b, Submit(q, m)) = m.flags
         /\ ~Nothing(u, b, Submit(q, m))
<1>1. Submit(q, m) \in IntQueue /\ Submit(q, m) # <<>> /\ Last(Submit(q, m)) = m
  BY SubmitQueue, CarriedIs DEF IntQueue
<1> QED  BY <1>1 DEF Latest, Nothing

\* The invariant.
StatusOk ==
  /\ Informed(host.flags, IntUrb(urbs), ep["INT"].busy, ep["INT"].q, fw.pins, host.up)
  /\ Due(host.flags, IntUrb(urbs), ep["INT"].busy, ep["INT"].q, fw.pins, host.up, sim, sess)

LEMMA IntUrbType ==
  ASSUME NEW u \in Seq(UrbType)
  PROVE  IntUrb(u) \in IntSlot
<1>1. CASE At("INT", u) = {}
  BY <1>1 DEF IntUrb, IntSlot
<1>2. CASE At("INT", u) # {}
  <2>1. PICK i \in At("INT", u) : i = CHOOSE j \in At("INT", u) : TRUE
    BY <1>2
  <2>2. IntUrb(u) = u[i][2]
    BY <1>2, <2>1 DEF IntUrb
  <2>3. i \in DOMAIN u /\ u[i][1] = "INT"
    BY DEF At
  <2>4. u[i] \in UrbType
    BY <2>3
  <2>5. u[i][2] \in StatusMsg
    BY <2>3, <2>4 DEF UrbType
  <2> QED  BY <2>2, <2>5 DEF IntSlot
<1> QED  BY <1>1, <1>2

LEMMA SlotsAre ==
  ASSUME Base
  PROVE  /\ host.flags \in SUBSET Flag /\ host.up \in BOOLEAN
         /\ IntUrb(urbs) \in IntSlot /\ OneInt(urbs) /\ urbs \in Urbs
         /\ ep["INT"].busy \in IntSlot /\ ep["INT"].q \in IntQueue
<1>1. ep["INT"] \in EpType("INT")
  BY CarriedIs DEF Base, EpTyped
<1>2. ep["INT"].busy \in IntSlot /\ ep["INT"].q \in IntQueue
  BY <1>1, CarriedIs DEF EpType, IntSlot, IntQueue
<1>3. urbs \in Seq(UrbType) /\ OneInt(urbs)
  BY DEF Base, UrbsOk, Counts
<1> QED  BY <1>2, <1>3, IntUrbType, UrbsAre DEF Base, HostType

\* Most steps have nothing to do with the status messages.
LEMMA StatusKept ==
  ASSUME StatusOk, host'.flags = host.flags, host'.up = host.up, IntUrb(urbs') = IntUrb(urbs),
         ep'["INT"] = ep["INT"], fw'.pins = fw.pins, UNCHANGED <<sim, sess>>
  PROVE  StatusOk'
BY DEF StatusOk

\* A change of the levels is one of VCC, of RST, or of whether the card sees them.
OneChange(old, new) == ~(~old.vcc /\ old.rst /\ new.vcc /\ ~new.rst)

LEMMA IoTells ==
  ASSUME UsbMaxQlen >= 3, NEW h \in SUBSET Flag, NEW u \in IntSlot, NEW b \in IntSlot,
         NEW q \in IntQueue, NEW r, NEW up \in BOOLEAN, NEW s, NEW n,
         NEW old \in LevelType, NEW new \in LevelType, OneChange(old, new),
         Told(q, r, old, new), Informed(h, u, b, q, PinsOf(old), up),
         Due(h, u, b, q, PinsOf(old), up, s, n)
  PROVE  /\ Informed(h, u, b, r, PinsOf(new), up)
         /\ Due(h, u, b, r, PinsOf(new), up, s, n)
<1>1. CASE new = old /\ r = q
  BY <1>1
<1>2. /\ old.vcc \in BOOLEAN /\ old.rst \in BOOLEAN /\ new.vcc \in BOOLEAN /\ new.rst \in BOOLEAN
      /\ PinsOf(new) = {"VCC", "CLK"} => new.vcc /\ ~new.rst
      /\ ~old.vcc /\ ~old.rst => PinsOf(old) = {}
      /\ old.vcc /\ old.rst => PinsOf(old) = {"VCC", "CLK", "RESET"}
  BY DEF LevelType, PinsOf
<1>3. PICK l : l = Latest(h, u, b, q)
  OBVIOUS
<1>4. up => l \in {PinsOf(old), {}}
  <2>1. CASE Nothing(u, b, q)
    <3>1. l = h
      BY <1>3, <2>1 DEF Latest, Nothing, Read
    <3> QED  BY <2>1, <3>1 DEF Informed
  <2>2. CASE ~Nothing(u, b, q)
    BY <1>3, <2>2 DEF Informed
  <2> QED  BY <2>1, <2>2
<1>5. /\ Calls({"VCC", "CLK", "RESET"}, {"VCC", "CLK"}) /\ Calls({}, {"VCC", "CLK"})
      /\ Calls({}, {"VCC"})
  BY DEF Calls, ResetFor
<1>6. CASE \E a \in SUBSET Flag : /\ r = Submit(q, Note(a)) /\ a = PinsOf(new)
                                  /\ new.vcc = old.vcc /\ new.rst # old.rst
  <2>1. PICK a \in SUBSET Flag : /\ r = Submit(q, Note(a)) /\ a = PinsOf(new)
                                 /\ new.vcc = old.vcc /\ new.rst # old.rst
    BY <1>6
  <2>2. PICK m \in StatusMsg : m = Note(a) /\ m.flags = a
    BY NoteIs
  <2>3. Latest(h, u, b, r) = a /\ ~Nothing(u, b, r)
    BY <2>1, <2>2, SubmitLatest
  <2>4. Informed(h, u, b, r, PinsOf(new), up)
    BY <2>1, <2>3 DEF Informed
  <2>5. ASSUME up, a = {"VCC", "CLK"} PROVE ResetSeen(h, u, b, r)
    <3>1. old.vcc /\ old.rst
      BY <1>2, <2>1, <2>5
    <3>2. Calls(l, m.flags)
      BY <1>2, <1>4, <1>5, <2>2, <2>5, <3>1
    <3> QED  BY <1>3, <2>1, <2>2, <3>2, SubmitSeen, SystemAssumption
  <2> QED  BY <2>1, <2>4, <2>5 DEF Due
<1>7. CASE \E a, c \in SUBSET Flag :
             /\ r = Submit(Submit(q, Note(a)), Note(c)) /\ c = PinsOf(new)
             /\ new.vcc # old.vcc /\ (new.vcc /\ ~old.rst /\ ~new.rst => a = {"VCC"})
  <2>1. PICK a, c \in SUBSET Flag :
             /\ r = Submit(Submit(q, Note(a)), Note(c)) /\ c = PinsOf(new)
             /\ new.vcc # old.vcc /\ (new.vcc /\ ~old.rst /\ ~new.rst => a = {"VCC"})
    BY <1>7
  <2>2. PICK m \in StatusMsg : m = Note(a) /\ m.flags = a
    BY NoteIs
  <2>3. PICK k \in StatusMsg : k = Note(c) /\ k.flags = c
    BY NoteIs
  <2>4. Latest(h, u, b, r) = c /\ ~Nothing(u, b, r)
    <3>1. Submit(q, m) \in IntQueue
      BY SubmitLatest
    <3> QED  BY <2>1, <2>2, <2>3, <3>1, SubmitLatest
  <2>5. Informed(h, u, b, r, PinsOf(new), up)
    BY <2>1, <2>4 DEF Informed
  <2>6. ASSUME up, c = {"VCC", "CLK"} PROVE ResetSeen(h, u, b, r)
    <3>1. ~old.vcc /\ ~old.rst /\ a = {"VCC"}
      BY <1>2, <2>1, <2>6 DEF OneChange
    <3>2. Calls(l, m.flags)
      BY <1>2, <1>4, <1>5, <2>2, <2>6, <3>1
    <3> QED  BY <1>3, <2>1, <2>2, <2>3, <3>2, SubmitSeenStill
  <2> QED  BY <2>1, <2>5, <2>6 DEF Due
<1>8. CASE \E a, c, d \in SUBSET Flag :
             /\ r = Submit(Submit(Submit(q, Note(a)), Note(c)), Note(d)) /\ d = PinsOf(new)
             /\ new.vcc # old.vcc /\ new.rst # old.rst
  <2>1. PICK a, c, d \in SUBSET Flag :
             /\ r = Submit(Submit(Submit(q, Note(a)), Note(c)), Note(d)) /\ d = PinsOf(new)
             /\ new.vcc # old.vcc /\ new.rst # old.rst
    BY <1>8
  <2>2. PICK p \in IntQueue : p = Submit(Submit(q, Note(a)), Note(c))
    <3>1. Note(a) \in StatusMsg /\ Note(c) \in StatusMsg
      BY NoteIs
    <3>2. Submit(q, Note(a)) \in IntQueue
      BY <3>1, SubmitLatest
    <3> QED  BY <3>1, <3>2, SubmitLatest
  <2>3. Note(d) \in StatusMsg /\ Note(d).flags = d
    BY NoteIs
  <2>4. Latest(h, u, b, r) = d /\ ~Nothing(u, b, r)
    BY <2>1, <2>2, <2>3, SubmitLatest
  <2>5. Informed(h, u, b, r, PinsOf(new), up)
    BY <2>1, <2>4 DEF Informed
  <2>6. PinsOf(new) # {"VCC", "CLK"}
    BY <1>2, <2>1 DEF OneChange
  <2> QED  BY <2>5, <2>6 DEF Due
<1> QED  BY <1>1, <1>6, <1>7, <1>8 DEF Told

LEMMA IoStatus ==
  ASSUME UsbMaxQlen >= 3, Base, StatusOk, NEW l \in LevelType, NEW on \in BOOLEAN,
         ~fw.irq => ~on, IoStateChg(l, on), OneChange(fw.level, Level(l, on)),
         UNCHANGED <<urbs, host, sim>>
  PROVE  StatusOk'
<1>1. PICK new \in LevelType : new = Level(l, on)
  BY LevelIs
<1>2. /\ fw'.level = new /\ fw'.pins = PinsOf(new)
      /\ (Ends(fw.level, new) \/ sess' = sess)
  <2>1. /\ fw'.level = Level(l, on) /\ fw'.pins = PinsOf(fw'.level)
        /\ (Ends(fw.level, Level(l, on)) \/ UNCHANGED <<txQ, rd, sess, torn, lost>>)
    BY IoCard DEF Base
  <2> QED  BY <1>1, <2>1
<1>3. PICK r \in Queue("INT") : QueueSet(ep, ep', "INT", r)
                                /\ Told(ep["INT"].q, r, fw.level, new)
  BY <1>1, IoEp DEF Base
<1>4. ep'["INT"].q = r /\ ep'["INT"].busy = ep["INT"].busy
  BY <1>3, QueueSetIs, CarriedIs DEF Base
<1>5. fw.level \in LevelType /\ fw.pins = PinsOf(fw.level)
  BY DEF Base, LineOk, FwType
<1>6. /\ Informed(host.flags, IntUrb(urbs), ep["INT"].busy, r, PinsOf(new), host.up)
      /\ Due(host.flags, IntUrb(urbs), ep["INT"].busy, r, PinsOf(new), host.up, sim, sess)
  <2>1. /\ host.flags \in SUBSET Flag /\ host.up \in BOOLEAN
        /\ IntUrb(urbs) \in IntSlot /\ ep["INT"].busy \in IntSlot /\ ep["INT"].q \in IntQueue
    BY SlotsAre
  <2>2. /\ Informed(host.flags, IntUrb(urbs), ep["INT"].busy, ep["INT"].q, PinsOf(fw.level), host.up)
        /\ Due(host.flags, IntUrb(urbs), ep["INT"].busy, ep["INT"].q, PinsOf(fw.level), host.up,
               sim, sess)
    BY <1>5 DEF StatusOk
  <2>3. OneChange(fw.level, new)
    BY <1>1
  <2> QED  BY <1>3, <1>5, <2>1, <2>2, <2>3, IoTells
<1>7. Due(host.flags, IntUrb(urbs), ep["INT"].busy, r, PinsOf(new), host.up, sim, sess')
  <2>1. PinsOf(new) = {"VCC", "CLK"} => new.vcc /\ ~new.rst
    BY DEF LevelType, PinsOf
  <2>2. PinsOf(new) = {"VCC", "CLK"} => sess' = sess
    BY <1>2, <2>1 DEF Ends
  <2> QED  BY <1>6, <2>2 DEF Due
<1> QED  BY <1>2, <1>4, <1>6, <1>7 DEF StatusOk

LEMMA LineChangeStatus ==
  ASSUME UsbMaxQlen >= 3, Base, StatusOk, LineChange PROVE StatusOk'
<1>1. PICK l : l = line'
  OBVIOUS
<1>2. PICK w \in {"vcc", "rst"} : line' = [line EXCEPT ![w] = ~@]
  BY DEF LineChange
<1>3. l \in LevelType /\ (l.vcc = line.vcc \/ l.rst = line.rst)
  BY <1>1, <1>2 DEF Base, LineOk, LevelType
<1>4. IoStateChg(l, fw.enabled) /\ fw.enabled \in BOOLEAN /\ (~fw.irq => ~fw.enabled)
  BY <1>1 DEF LineChange, Base, LineOk, FwType
<1>5. UNCHANGED <<urbs, host, sim>>
  BY DEF LineChange
<1>6. OneChange(fw.level, Level(l, fw.enabled))
  <2>1. fw.level = Level(line, fw.enabled) /\ line \in LevelType
    BY DEF Base, LineOk
  <2>2. /\ Level(l, fw.enabled).vcc = (l.vcc /\ fw.enabled)
        /\ Level(l, fw.enabled).rst = (l.rst /\ fw.enabled)
        /\ fw.level.vcc = (line.vcc /\ fw.enabled) /\ fw.level.rst = (line.rst /\ fw.enabled)
    BY <1>3, <1>4, <2>1, LevelIs
  <2> QED  BY <1>3, <2>2 DEF OneChange
<1> QED  BY <1>3, <1>4, <1>5, <1>6, IoStatus

LEMMA SelectStatus ==
  ASSUME UsbMaxQlen >= 3, Base, StatusOk, UsbCommandSimSelect PROVE StatusOk'
<1>1. PICK l : l = line
  OBVIOUS
<1>2. PICK on \in BOOLEAN : on = (Head(out)[1].k = "SELECT")
  OBVIOUS
<1>3. l \in LevelType
  BY <1>1 DEF Base, LineOk
<1>4. IoStateChg(l, on)
  BY <1>1, <1>2 DEF UsbCommandSimSelect
<1>5. out \in Seq(Transfer) /\ out # <<>> /\ Head(out) = out[1]
      /\ out[1][1].k \in {"SELECT", "SELECT_LOCAL"}
  BY DEF Base, UsbCommandSimSelect
<1>6. ~fw.irq => ~on
  BY <1>2, <1>5, PrecededTail DEF Base, Unheard
<1>7. UNCHANGED <<urbs, host, sim>>
  BY DEF UsbCommandSimSelect
<1>8. OneChange(fw.level, Level(l, on))
  <2>1. fw.level = Level(line, fw.enabled) /\ fw.enabled \in BOOLEAN
    BY DEF Base, LineOk, FwType
  <2>2. /\ Level(l, on).vcc = (l.vcc /\ on) /\ fw.level.vcc = (l.vcc /\ fw.enabled)
        /\ fw.level.rst = (l.rst /\ fw.enabled)
    BY <1>1, <1>3, <2>1, LevelIs
  <2> QED  BY <2>2 DEF OneChange
<1> QED  BY <1>3, <1>4, <1>6, <1>7, <1>8, IoStatus

LEMMA RefillStatus ==
  ASSUME Base, StatusOk, NEW e \in Endpoint, UsbRefillToHost(e) PROVE StatusOk'
<1>1. PICK q \in Queue(e), m \in Carried(e) :
           /\ ep[e].busy = NoMsg /\ ep[e].q # <<>> /\ m = ep[e].q[1] /\ q = Tail(ep[e].q)
           /\ EpTyped(ep') /\ ep'[e].q = q /\ ep'[e].busy = m
           /\ \A d \in Endpoint : d # e => ep'[d] = ep[d]
  BY RefillIs
<1>2. UNCHANGED <<fw, urbs, host, sim, sess>>
  BY DEF UsbRefillToHost
<1>3. CASE e = "INT"
  <2>1. PICK p \in IntQueue : p = ep["INT"].q
    BY SlotsAre
  <2>2. /\ p # <<>> /\ ep["INT"].busy = NoMsg
        /\ ep'["INT"].q = Tail(p) /\ ep'["INT"].busy = p[1]
    BY <1>1, <1>3, <2>1
  <2>3. host.flags \in SUBSET Flag /\ IntUrb(urbs) \in IntSlot
    BY SlotsAre
  <2>4. /\ Informed(host.flags, IntUrb(urbs), NoMsg, p, fw.pins, host.up)
        /\ Due(host.flags, IntUrb(urbs), NoMsg, p, fw.pins, host.up, sim, sess)
    BY <2>1, <2>2 DEF StatusOk
  <2>5. /\ Informed(host.flags, IntUrb(urbs), p[1], Tail(p), fw.pins, host.up)
        /\ Due(host.flags, IntUrb(urbs), p[1], Tail(p), fw.pins, host.up, sim, sess)
    BY <2>2, <2>3, <2>4, RefillKeeps DEF Informed, Due
  <2> QED  BY <1>2, <2>2, <2>5 DEF StatusOk
<1>4. CASE e # "INT"
  <2>1. ep'["INT"] = ep["INT"]
    BY <1>1, <1>4, CarriedIs
  <2> QED  BY <1>2, <2>1, StatusKept
<1> QED  BY <1>3, <1>4

LEMMA CompleteStatus ==
  ASSUME Base, StatusOk, NEW e \in Endpoint, UsbComplete(e) PROVE StatusOk'
<1>1. PICK m \in Carried(e) :
           /\ host.up /\ ep[e].busy = m /\ m # NoMsg /\ Pending(e)
           /\ urbs' = Append(urbs, <<e, m>>)
           /\ EpTyped(ep') /\ ep'[e].q = ep[e].q /\ ep'[e].busy = NoMsg
           /\ \A d \in Endpoint : d # e => ep'[d] = ep[d]
  BY CompleteIs
<1>2. UNCHANGED <<fw, host, sim, sess>>
  BY DEF UsbComplete
<1>3. urbs \in Urbs /\ OneInt(urbs) /\ m \in MsgType
  BY SlotsAre, UrbTyped
<1>4. CASE e = "INT"
  <2>1. Cardinality(At("INT", urbs)) < 1
    BY <1>1, <1>4, CompletedIs, CarriedIs DEF Pending
  <2>2. IntUrb(urbs') = m /\ IntUrb(urbs) = NoMsg
    BY <1>1, <1>3, <1>4, <2>1, IntUrbArrives
  <2>3. PICK p \in IntQueue : p = ep["INT"].q
    BY SlotsAre
  <2>4. /\ ep["INT"].busy = m /\ m \in StatusMsg
        /\ ep'["INT"].q = p /\ ep'["INT"].busy = NoMsg
    BY <1>1, <1>4, <2>3, CarriedIs
  <2>5. host.flags \in SUBSET Flag
    BY SlotsAre
  <2>6. /\ Informed(host.flags, NoMsg, m, p, fw.pins, host.up)
        /\ Due(host.flags, NoMsg, m, p, fw.pins, host.up, sim, sess)
    BY <2>2, <2>3, <2>4 DEF StatusOk
  <2>7. /\ Informed(host.flags, m, NoMsg, p, fw.pins, host.up)
        /\ Due(host.flags, m, NoMsg, p, fw.pins, host.up, sim, sess)
    BY <2>4, <2>5, <2>6, CompleteKeeps DEF Informed, Due
  <2> QED  BY <1>2, <2>2, <2>4, <2>7 DEF StatusOk
<1>5. CASE e = "IN"
  <2>1. ep'["INT"] = ep["INT"]
    BY <1>1, <1>5, CarriedIs
  <2>2. IntUrb(urbs') = IntUrb(urbs)
    BY <1>1, <1>3, <1>5, IntUrbStays
  <2> QED  BY <1>2, <2>1, <2>2, StatusKept
<1> QED  BY <1>4, <1>5, CarriedIs

LEMMA ProcessStatusOk ==
  ASSUME Base, StatusOk, ProcessStatus PROVE StatusOk'
<1>1. PICK m \in StatusMsg :
           /\ host.up /\ urbs # <<>> /\ Head(urbs)[2] = m /\ urbs[1] = <<"INT", m>>
           /\ urbs' = Tail(urbs)
  BY NextUrbIs, CarriedIs DEF ProcessStatus
<1>2. PICK h \in SUBSET Flag : h = host.flags
  BY SlotsAre
<1>3. IntUrb(urbs) = m /\ IntUrb(urbs') = NoMsg
  <2>1. urbs \in Urbs /\ OneInt(urbs) /\ urbs[1][1] = "INT" /\ urbs[1][2] = m
    BY <1>1, SlotsAre
  <2> QED  BY <1>1, <2>1, IntUrbRead
<1>4. host'.flags = m.flags /\ host'.up = host.up
  <2>1. host' = [host EXCEPT !.flags = m.flags]
    BY <1>1 DEF ProcessStatus
  <2> QED  BY <2>1 DEF Base, HostType
<1>5. sim' = IF Calls(h, m.flags) THEN sess ELSE sim
  BY <1>1, <1>2 DEF ProcessStatus, Calls
<1>6. UNCHANGED <<fw, ep, sess>>
  BY DEF ProcessStatus
<1>7. PICK b \in IntSlot, q \in IntQueue : b = ep["INT"].busy /\ q = ep["INT"].q
  BY SlotsAre
<1>8. /\ Informed(h, m, b, q, fw.pins, host.up)
      /\ Due(h, m, b, q, fw.pins, host.up, sim, sess)
  BY <1>2, <1>3, <1>7 DEF StatusOk
<1>9. Informed(m.flags, NoMsg, b, q, fw.pins, host.up)
  <2>1. Latest(h, m, b, q) = fw.pins
    BY <1>8, ReadKeeps DEF Informed
  <2>2. Nothing(NoMsg, b, q) => m.flags = fw.pins
    BY <2>1, ReadKeeps
  <2>3. Latest(m.flags, NoMsg, b, q) = fw.pins
    BY <2>1, ReadKeeps
  <2> QED  BY <2>2, <2>3 DEF Informed
<1>10. Due(m.flags, NoMsg, b, q, fw.pins, host.up, sim', sess)
  <2>1. CASE Calls(h, m.flags)
    BY <1>5, <2>1 DEF Due
  <2>2. CASE ~Calls(h, m.flags)
    BY <1>5, <1>8, <2>2, ReadKeeps DEF Due
  <2> QED  BY <2>1, <2>2
<1> QED  BY <1>3, <1>4, <1>6, <1>7, <1>9, <1>10 DEF StatusOk

LEMMA RxDataStatus == ASSUME Base, StatusOk, ProcessRxData PROVE StatusOk'
<1>1. PICK m \in InMsg :
           /\ urbs # <<>> /\ urbs[1] = <<"IN", m>> /\ urbs' = Tail(urbs)
           /\ (UNCHANGED host \/ \E ac \in AcType, b \in BOOLEAN :
                host' = [host EXCEPT !.ac = ac, !.busy = b])
  BY RxDataIs
<1>2. UNCHANGED <<fw, ep, sim, sess>>
  BY DEF ProcessRxData
<1>3. host'.flags = host.flags /\ host'.up = host.up
  <2>1. host \in HostType
    BY DEF Base
  <2>2. CASE UNCHANGED host
    BY <2>2
  <2>3. CASE \E ac \in AcType, b \in BOOLEAN : host' = [host EXCEPT !.ac = ac, !.busy = b]
    <3>1. PICK ac \in AcType, b \in BOOLEAN : host' = [host EXCEPT !.ac = ac, !.busy = b]
      BY <2>3
    <3> QED  BY <2>1, <3>1, HostAfter
  <2> QED  BY <1>1, <2>2, <2>3
<1>4. IntUrb(urbs') = IntUrb(urbs)
  <2>1. urbs \in Urbs /\ OneInt(urbs)
    BY SlotsAre
  <2>2. urbs[1][1] # "INT"
    <3>1. urbs[1] = <<"IN", m>>
      BY <1>1
    <3>2. <<"IN", m>>[1] = "IN"
      OBVIOUS
    <3>3. urbs[1][1] = "IN"
      BY <3>1, <3>2, Zenon
    <3> QED  BY <3>3
  <2> QED  BY <1>1, <2>1, <2>2, IntUrbRead
<1> QED  BY <1>2, <1>3, <1>4, StatusKept

\* When the program stops, what is left is what the firmware has not sent.
LEMMA StoppedStatus ==
  ASSUME Base, StatusOk, NEW o, Stopped(o), UNCHANGED <<fw, ep, sim, sess>>
  PROVE  StatusOk'
<1>1. urbs' = <<>> /\ host' = [host EXCEPT !.up = FALSE, !.busy = FALSE]
  BY DEF Stopped
<1>2. host'.up = FALSE /\ IntUrb(urbs') = NoMsg
  BY <1>1, IntUrbNone DEF Base, HostType
<1>3. PICK b \in IntSlot, q \in IntQueue : b = ep["INT"].busy /\ q = ep["INT"].q
  BY SlotsAre
<1>4. Informed(host.flags, IntUrb(urbs), b, q, fw.pins, host.up)
  BY <1>3 DEF StatusOk
<1>5. PICK g : g = host'.flags
  OBVIOUS
<1>6. Informed(g, NoMsg, b, q, fw.pins, FALSE)
  <2>1. CASE Nothing(NoMsg, b, q)
    BY <2>1 DEF Informed
  <2>2. CASE ~Nothing(NoMsg, b, q)
    <3>1. ~Nothing(IntUrb(urbs), b, q)
          /\ Latest(g, NoMsg, b, q) = Latest(host.flags, IntUrb(urbs), b, q)
      BY <2>2, UnreadKeeps
    <3> QED  BY <1>4, <2>2, <3>1 DEF Informed
  <2> QED  BY <2>1, <2>2
<1>7. Due(g, NoMsg, b, q, fw.pins, FALSE, sim, sess)
  BY DEF Due
<1> QED  BY <1>2, <1>3, <1>5, <1>6, <1>7 DEF StatusOk

\* A new run of the program knows nothing, and resets the real card.
LEMMA StartStatus == ASSUME Base, StatusOk, HostStart PROVE StatusOk'
<1>1. /\ host' = [up |-> TRUE, flags |-> {}, ac |-> NoAc, busy |-> FALSE]
      /\ sim' = sess /\ ~host.up /\ UNCHANGED <<fw, ep, urbs, sess>>
  BY DEF HostStart
<1>2. host'.up = TRUE /\ host'.flags = {}
  BY <1>1
<1>3. urbs = <<>> /\ IntUrb(urbs) = NoMsg /\ IntUrb(urbs') = NoMsg
  BY <1>1, IntUrbNone DEF Base, UrbsOk
<1>4. PICK b \in IntSlot, q \in IntQueue : b = ep["INT"].busy /\ q = ep["INT"].q
  BY SlotsAre
<1>5. Informed(host.flags, NoMsg, b, q, fw.pins, host.up)
  BY <1>3, <1>4 DEF StatusOk
<1>6. Informed({}, NoMsg, b, q, fw.pins, TRUE)
  <2>1. CASE Nothing(NoMsg, b, q)
    BY <2>1 DEF Informed
  <2>2. CASE ~Nothing(NoMsg, b, q)
    <3>1. Latest({}, NoMsg, b, q) = Latest(host.flags, NoMsg, b, q)
      BY <2>2, UnreadKeeps
    <3> QED  BY <1>5, <2>2, <3>1 DEF Informed
  <2> QED  BY <2>1, <2>2
<1>7. Due({}, NoMsg, b, q, fw.pins, TRUE, sess, sess)
  BY DEF Due
<1> QED  BY <1>1, <1>2, <1>3, <1>4, <1>6, <1>7 DEF StatusOk

\* The steps of the exchange of commands, and the others.
LEMMA OthersStatus ==
  ASSUME Base, StatusOk,
         \/ UNCHANGED vars \/ SendTpduHeader \/ AddTpduBody \/ AtrSent \/ TxTpdu
         \/ DispatchTxData \/ DispatchConfig \/ Transceive \/ TransceiveFails
  PROVE  StatusOk'
<1>1. UNCHANGED <<urbs, sim, sess>>
  BY DEF vars, SendTpduHeader, AddTpduBody, AtrSent, TxTpdu, DispatchTxData, DispatchConfig,
         Transceive, TransceiveFails
<1>2. host'.flags = host.flags /\ host'.up = host.up
  <2>1. CASE Transceive
    <3>1. PICK w \in {"6Cxx", "9000"} : host' = [host EXCEPT !.busy = FALSE, !.ac.sw = w]
      BY <2>1, TransceiveIs
    <3> QED  BY <3>1, HostAnswered DEF Base
  <2>2. CASE TransceiveFails
    BY <2>2 DEF TransceiveFails, Base, HostType
  <2>3. CASE UNCHANGED host
    BY <2>3
  <2> QED  BY <2>1, <2>2, <2>3 DEF vars, SendTpduHeader, AddTpduBody, AtrSent, TxTpdu,
           DispatchTxData, DispatchConfig
<1>3. fw'.pins = fw.pins
  <2>1. fw \in FwType
    BY DEF Base, LineOk
  <2>2. CASE SendTpduHeader
    BY <2>2, HeaderIs
  <2>3. CASE AddTpduBody
    <3>1. fw' = [fw EXCEPT !.state = "WAIT_TX"] \/ fw' = [fw EXCEPT !.state = @]
      BY <2>3 DEF AddTpduBody
    <3> QED  BY <2>1, <3>1 DEF FwType
  <2>4. CASE AtrSent
    BY <2>1, <2>4 DEF AtrSent, FwType
  <2>5. CASE TxTpdu
    <3>1. PICK m \in Answer : m = txQ[1] /\ Head(txQ) = m
      BY <2>5 DEF TxTpdu, Base, ReaderOk
    <3>2. m.k \in TxKind
      BY DEF Answer
    <3>3. \/ fw' = [fw EXCEPT !.state = "WAIT_TX"] \/ fw' = [fw EXCEPT !.state = "WAIT_RX"]
          \/ fw' = [fw EXCEPT !.state = "WAIT_TPDU"]
      BY <2>5, <3>1, <3>2 DEF TxTpdu, TxKind
    <3> QED  BY <2>1, <3>3 DEF FwType
  <2>6. CASE DispatchConfig
    BY <2>6, ConfigIs
  <2>7. CASE UNCHANGED fw
    BY <2>7
  <2> QED  BY <2>2, <2>3, <2>4, <2>5, <2>6, <2>7
           DEF vars, DispatchTxData, Transceive, TransceiveFails
<1>4. ep'["INT"] = ep["INT"]
  <2>1. ASSUME NEW m \in InMsg, SendIn(m) PROVE ep'["INT"] = ep["INT"]
    <3>1. PICK r \in Queue("IN") : QueueSet(ep, ep', "IN", r)
      BY <2>1, SendInIs DEF Base
    <3> QED  BY <3>1, QueueSetIs, CarriedIs DEF Base
  <2>2. CASE SendTpduHeader
    BY <2>1, <2>2, HeaderIs
  <2>3. CASE AddTpduBody
    <3>1. Msg("DATA", rd.cmd, {}) \in InMsg
      BY MsgsAre DEF Base, ReaderOk, RdType, InKind
    <3> QED  BY <2>1, <2>3, <3>1 DEF AddTpduBody
  <2>4. CASE DispatchConfig
    BY <2>4, ConfigIs
  <2>5. CASE UNCHANGED ep
    BY <2>5
  <2> QED  BY <2>2, <2>3, <2>4, <2>5 DEF vars, AtrSent, TxTpdu, DispatchTxData, Transceive,
           TransceiveFails
<1> QED  BY <1>1, <1>2, <1>3, <1>4, StatusKept

LEMMA StatusNext ==
  ASSUME UsbMaxQlen >= 3, Base, StatusOk, [Next]_vars PROVE StatusOk'
<1>1. CASE ApduUnknown
  BY <1>1, StoppedStatus DEF ApduUnknown
<1>2. CASE SignalHandler
  <2>1. Stopped(Append(out, <<Plain("SELECT_LOCAL")>>)) /\ UNCHANGED <<fw, ep, sim, sess>>
    BY <1>2 DEF SignalHandler
  <2> QED  BY <2>1, StoppedStatus
<1>3. CASE \E e \in Endpoint : UsbRefillToHost(e)
  BY <1>3, RefillStatus
<1>4. CASE \E e \in Endpoint : UsbComplete(e)
  BY <1>4, CompleteStatus
<1>5. CASE \/ UNCHANGED vars \/ SendTpduHeader \/ AddTpduBody \/ AtrSent \/ TxTpdu
           \/ DispatchTxData \/ DispatchConfig \/ Transceive \/ TransceiveFails
  BY <1>5, OthersStatus
<1> QED  BY <1>1, <1>2, <1>3, <1>4, <1>5, LineChangeStatus, SelectStatus, ProcessStatusOk,
         RxDataStatus, StartStatus DEF Next, ReaderStep, FirmwareStep, HostStep

LEMMA StatusInit == Init => StatusOk
<1> SUFFICES ASSUME Init PROVE StatusOk
  OBVIOUS
<1>1. urbs = <<>> /\ IntUrb(urbs) = NoMsg
  BY IntUrbNone DEF Init
<1>2. /\ ep["INT"].q = <<>> /\ ep["INT"].busy = NoMsg
      /\ host.flags = {} /\ fw.pins = {}
  BY CarriedIs DEF Init
<1> QED  BY <1>1, <1>2 DEF StatusOk, Informed, Due, Nothing

\* With room for three messages in the queue (USB_MAX_QLEN), however many of them it drops
\* while the reader switches its signals, the real card is reset whenever the reader has
\* finished a power-up or reset: a change that calls for a reset is always among the last
\* two pairs of messages.
THEOREM ResetsReachCard ==
  ASSUME UsbMaxQlen >= 3
  PROVE  Spec => []ResetForwarded
<1>1. Init => Base /\ StatusOk
  BY BaseInit, StatusInit
<1>2. Base /\ StatusOk /\ [Next]_vars => (Base /\ StatusOk)'
  BY BaseNext, StatusNext
<1>3. Base /\ StatusOk => ResetForwarded
  <2> SUFFICES ASSUME Base, StatusOk, StatusArrived, fw.pins = {"VCC", "CLK"} PROVE sim = sess
    BY DEF ResetForwarded
  <2>1. /\ ep["INT"].q = <<>> /\ ep["INT"].busy = NoMsg /\ host.up
        /\ Cardinality(At("INT", urbs)) = 0
    BY CompletedIs DEF StatusArrived
  <2>2. IntUrb(urbs) = NoMsg
    <3>1. At("INT", urbs) = {}
      BY <2>1, SlotsAre, AtFinite, FS_EmptySet
    <3> QED  BY <3>1 DEF IntUrb
  <2>3. ~ResetSeen(host.flags, NoMsg, NoMsg, <<>>)
    BY DEF ResetSeen
  <2> QED  BY <2>1, <2>2, <2>3 DEF StatusOk, Due
<1> QED  BY <1>1, <1>2, <1>3, PTL DEF Spec

-----------------------------------------------------------------------------
(* The exchange of a command.  In a session that is not torn one thing at a *)
(* time is under way for the reader's command c: its header or body on the  *)
(* path to the host, the APDU in the host's reader, its answers, or its     *)
(* body, for which the reader was asked.                                    *)

Tok(m) == m.k \in {"HDR", "DATA"}

\* the host's APDU is the command's, if there is one
KnownBy(ac, c) == ac.apduCase = 0 \/ ac.cmd = c
Good(m, c, ac) == m.cmd = c /\ (m.k = "DATA" => KnownBy(ac, c))

\* The place p of the path holds the sequence s of messages, while w is under way.
Path(s, p, w, c, ac) ==
  /\ \A i \in DOMAIN s : Tok(s[i]) => w = p /\ Good(s[i], c, ac)
  /\ \A i, j \in DOMAIN s : Tok(s[i]) /\ Tok(s[j]) => i = j
Clear(s) == \A i \in DOMAIN s : ~Tok(s[i])

Arrived(u) == [i \in DOMAIN u |-> u[i][2]]

LEMMA ClearIs ==
  ASSUME NEW s, NEW p, NEW w, NEW c, NEW ac
  PROVE  /\ Clear(s) => Path(s, p, w, c, ac)
         /\ Path(s, p, w, c, ac) /\ w # p => Clear(s)
         /\ Clear(<<>>)
BY DEF Clear, Path

LEMMA PathKnown ==
  ASSUME NEW s, NEW p, NEW w, NEW c, NEW ac, NEW new, Path(s, p, w, c, ac), KnownBy(new, c)
  PROVE  Path(s, p, w, c, new)
BY DEF Path, Good

LEMMA PathTail ==
  ASSUME NEW s \in Seq(MsgType), s # <<>>, NEW p, NEW w, NEW c, NEW ac, Path(s, p, w, c, ac)
  PROVE  /\ Path(Tail(s), p, w, c, ac)
         /\ Tok(s[1]) => w = p /\ Good(s[1], c, ac) /\ Clear(Tail(s))
<1>1. PICK t : t = Tail(s)
  OBVIOUS
<1>2. /\ DOMAIN t = 1..Len(s) - 1 /\ DOMAIN s = 1..Len(s) /\ Len(s) \in Nat \ {0}
      /\ \A i \in DOMAIN t : t[i] = s[i + 1] /\ i + 1 \in DOMAIN s /\ i + 1 # 1
  BY <1>1
<1>3. \A i, j \in DOMAIN t : i + 1 = j + 1 => i = j
  BY <1>2
<1>4. 1 \in DOMAIN s
  BY <1>2
<1> HIDE <1>1
<1>5. Path(t, p, w, c, ac)
  <2>1. \A i \in DOMAIN t : Tok(t[i]) => w = p /\ Good(t[i], c, ac)
    BY <1>2 DEF Path
  <2>2. ASSUME NEW i \in DOMAIN t, NEW j \in DOMAIN t, Tok(t[i]), Tok(t[j]) PROVE i = j
    <3>1. i + 1 = j + 1
      BY <1>2, <2>2 DEF Path
    <3> QED  BY <1>3, <3>1
  <2> QED  BY <2>1, <2>2 DEF Path
<1>6. ASSUME Tok(s[1]) PROVE w = p /\ Good(s[1], c, ac) /\ Clear(t)
  <2>1. w = p /\ Good(s[1], c, ac)
    BY <1>4, <1>6 DEF Path
  <2>2. ASSUME NEW i \in DOMAIN t, Tok(t[i]) PROVE FALSE
    <3>1. i + 1 = 1
      BY <1>2, <1>4, <1>6, <2>2 DEF Path
    <3> QED  BY <1>2, <3>1
  <2> QED  BY <2>1, <2>2 DEF Clear
<1> QED  BY <1>1, <1>5, <1>6

LEMMA PathAppend ==
  ASSUME NEW s \in Seq(MsgType), NEW m \in MsgType, NEW p, NEW w, NEW c, NEW ac
  PROVE  /\ Path(s, p, w, c, ac) /\ ~Tok(m) => Path(Append(s, m), p, w, c, ac)
         /\ Clear(s) /\ ~Tok(m) => Clear(Append(s, m))
<1>1. PICK t : t = Append(s, m)
  OBVIOUS
<1>2. /\ DOMAIN t = 1..Len(s) + 1 /\ DOMAIN s = 1..Len(s) /\ Len(s) \in Nat
      /\ \A i \in DOMAIN s : t[i] = s[i]
      /\ t[Len(s) + 1] = m
  BY <1>1
<1> HIDE <1>1
<1>3. ASSUME ~Tok(m), NEW i \in DOMAIN t, Tok(t[i]) PROVE i \in DOMAIN s /\ Tok(s[i]) /\ t[i] = s[i]
  <2>1. i # Len(s) + 1
    BY <1>2, <1>3
  <2>2. i \in DOMAIN s
    BY <1>2, <2>1
  <2> QED  BY <1>2, <1>3, <2>2
<1>4. Path(s, p, w, c, ac) /\ ~Tok(m) => Path(t, p, w, c, ac)
  BY <1>3 DEF Path
<1>5. Clear(s) /\ ~Tok(m) => Clear(t)
  BY <1>3 DEF Clear
<1> QED  BY <1>1, <1>4, <1>5

LEMMA PathArrives ==
  ASSUME NEW s \in Seq(MsgType), NEW m \in MsgType, NEW p, NEW c, NEW ac,
         Clear(s), Good(m, c, ac)
  PROVE  Path(Append(s, m), p, p, c, ac)
<1>1. PICK t : t = Append(s, m)
  OBVIOUS
<1>2. /\ DOMAIN t = 1..Len(s) + 1 /\ DOMAIN s = 1..Len(s) /\ Len(s) \in Nat
      /\ \A i \in DOMAIN s : t[i] = s[i]
      /\ t[Len(s) + 1] = m
  BY <1>1
<1> HIDE <1>1
<1>3. ASSUME NEW i \in DOMAIN t, Tok(t[i]) PROVE i = Len(s) + 1 /\ t[i] = m
  <2>1. i \notin DOMAIN s
    BY <1>2, <1>3 DEF Clear
  <2> QED  BY <1>2, <2>1
<1>4. Path(t, p, p, c, ac)
  BY <1>3 DEF Path
<1> QED  BY <1>1, <1>4

\* The queue to the host, when the firmware sends it a message of the exchange, or another.
LEMMA TailTyped ==
  ASSUME NEW q \in Seq(MsgType), NEW m \in MsgType
  PROVE  /\ q # <<>> => Tail(q) \in Seq(MsgType)
         /\ Submit(q, m) = Append(q, m) \/ (q # <<>> /\ Submit(q, m) = Append(Tail(q), m))
<1>1. UsbMaxQlen \in Nat \ {0} /\ Len(q) \in Nat
  BY SystemAssumption
<1>2. Len(q) >= UsbMaxQlen => q # <<>>
  BY <1>1
<1> QED  BY <1>2 DEF Submit

LEMMA SubmitPath ==
  ASSUME NEW q \in Seq(MsgType), NEW m \in MsgType, ~Tok(m), NEW p, NEW w, NEW c, NEW ac,
         Path(q, p, w, c, ac)
  PROVE  Path(Submit(q, m), p, w, c, ac)
<1>1. CASE Submit(q, m) = Append(q, m)
  BY <1>1, PathAppend
<1>2. CASE q # <<>> /\ Submit(q, m) = Append(Tail(q), m)
  <2>1. Tail(q) \in Seq(MsgType) /\ Path(Tail(q), p, w, c, ac)
    BY <1>2, PathTail
  <2> QED  BY <1>2, <2>1, PathAppend
<1> QED  BY <1>1, <1>2, TailTyped

LEMMA ClearTail ==
  ASSUME NEW s \in Seq(MsgType), s # <<>>, Clear(s)
  PROVE  Clear(Tail(s))
<1>1. PICK t : t = Tail(s)
  OBVIOUS
<1>2. \A i \in DOMAIN t : t[i] = s[i + 1] /\ i + 1 \in DOMAIN s
  BY <1>1
<1> HIDE <1>1
<1>3. Clear(t)
  BY <1>2 DEF Clear
<1> QED  BY <1>1, <1>3

LEMMA SentPath ==
  ASSUME NEW q \in Seq(MsgType), NEW m \in MsgType, NEW r, Sent(q, r, m), Clear(q),
         NEW p, NEW c, NEW ac, Good(m, c, ac)
  PROVE  Path(r, p, p, c, ac)
<1>1. ASSUME NEW s \in Seq(MsgType), Clear(s) PROVE Path(Submit(s, m), p, p, c, ac)
  <2>1. CASE Submit(s, m) = Append(s, m)
    BY <1>1, <2>1, PathArrives
  <2>2. CASE s # <<>> /\ Submit(s, m) = Append(Tail(s), m)
    <3>1. Tail(s) \in Seq(MsgType) /\ Clear(Tail(s))
      BY <1>1, <2>2, ClearTail
    <3> QED  BY <2>2, <3>1, PathArrives
  <2> QED  BY <2>1, <2>2, TailTyped
<1>2. CASE r = Submit(q, m)
  BY <1>1, <1>2
<1>3. CASE q # <<>> /\ r = Submit(Tail(q), m)
  <2>1. Tail(q) \in Seq(MsgType) /\ Clear(Tail(q))
    BY <1>3, ClearTail
  <2> QED  BY <1>1, <1>3, <2>1
<1>4. CASE r = q
  BY <1>4, ClearIs
<1> QED  BY <1>2, <1>3, <1>4 DEF Sent

\* The completed transfers.
LEMMA ArrivedIs ==
  ASSUME NEW u \in Urbs
  PROVE  /\ Arrived(u) \in Seq(MsgType) /\ (Arrived(u) = <<>> <=> u = <<>>)
         /\ u # <<>> => Arrived(Tail(u)) = Tail(Arrived(u)) /\ Arrived(u)[1] = u[1][2]
         /\ \A e \in Endpoint, m \in MsgType :
              Arrived(Append(u, <<e, m>>)) = Append(Arrived(u), m)
<1>1. u \in Seq(Endpoint \X MsgType) /\ Len(u) \in Nat /\ DOMAIN u = 1..Len(u)
      /\ \A i \in 1..Len(u) : u[i][2] \in MsgType
  BY DEF Urbs
<1>2. PICK a : a = Arrived(u)
  OBVIOUS
<1>3. a = [i \in 1..Len(u) |-> u[i][2]]
  BY <1>1, <1>2 DEF Arrived
<1>4. a \in Seq(MsgType) /\ Len(a) = Len(u) /\ \A i \in 1..Len(u) : a[i] = u[i][2]
  BY <1>1, <1>3
<1> HIDE <1>2, <1>3
<1>5. a = <<>> <=> u = <<>>
  BY <1>1, <1>4
<1>6. ASSUME u # <<>> PROVE Arrived(Tail(u)) = Tail(a) /\ a[1] = u[1][2]
  <2>1. PICK t : t = Tail(u)
    OBVIOUS
  <2>2. t \in Seq(Endpoint \X MsgType) /\ Len(t) = Len(u) - 1 /\ Len(u) \in Nat \ {0}
        /\ DOMAIN t = 1..Len(u) - 1 /\ \A i \in 1..Len(u) - 1 : t[i] = u[i + 1]
    BY <1>1, <1>6, <2>1
  <2>3. PICK b : b = Tail(a)
    OBVIOUS
  <2>4. b \in Seq(MsgType) /\ Len(b) = Len(u) - 1 /\ \A i \in 1..Len(u) - 1 : b[i] = a[i + 1]
    BY <1>4, <2>2, <2>3
  <2> HIDE <2>1, <2>3
  <2>5. \A i \in 1..Len(u) - 1 : t[i][2] = b[i]
    <3> SUFFICES ASSUME NEW i \in 1..Len(u) - 1 PROVE t[i][2] = b[i]
      OBVIOUS
    <3>1. i + 1 \in 1..Len(u)
      BY <2>2
    <3> QED  BY <1>4, <2>2, <2>4, <3>1
  <2>6. Arrived(t) = [i \in 1..Len(u) - 1 |-> b[i]]
    BY <2>2, <2>5 DEF Arrived
  <2>7. Arrived(t) = b
    BY <2>2, <2>4, <2>6
  <2>8. a[1] = u[1][2]
    <3>1. 1 \in 1..Len(u)
      BY <2>2
    <3> QED  BY <1>4, <3>1
  <2> QED  BY <2>1, <2>3, <2>7, <2>8
<1>7. ASSUME NEW e \in Endpoint, NEW m \in MsgType
      PROVE  Arrived(Append(u, <<e, m>>)) = Append(a, m)
  <2>1. PICK t : t = Append(u, <<e, m>>)
    OBVIOUS
  <2>2. DOMAIN t = 1..Len(u) + 1 /\ \A i \in 1..Len(u) : t[i] = u[i]
    BY <1>1, <2>1
  <2>3. t[Len(u) + 1] = <<e, m>>
    BY <1>1, <2>1
  <2>4. PICK b : b = Append(a, m)
    OBVIOUS
  <2>5. b \in Seq(MsgType) /\ Len(b) = Len(u) + 1 /\ (\A i \in 1..Len(u) : b[i] = a[i])
        /\ b[Len(u) + 1] = m
    BY <1>4, <2>4
  <2> HIDE <2>1, <2>4
  <2>6. \A i \in 1..Len(u) + 1 : t[i][2] = b[i]
    <3> SUFFICES ASSUME NEW i \in 1..Len(u) + 1 PROVE t[i][2] = b[i]
      OBVIOUS
    <3>1. CASE i = Len(u) + 1
      <4>1. <<e, m>>[2] = m
        OBVIOUS
      <4> QED  BY <2>3, <2>5, <3>1, <4>1
    <3>2. CASE i # Len(u) + 1
      <4>1. i \in 1..Len(u)
        BY <1>1, <3>2
      <4> QED  BY <1>4, <2>2, <2>5, <4>1
    <3> QED  BY <3>1, <3>2
  <2>7. Arrived(t) = [i \in 1..Len(u) + 1 |-> b[i]]
    BY <2>2, <2>6 DEF Arrived
  <2>8. Arrived(t) = b
    BY <2>5, <2>7
  <2> QED  BY <2>1, <2>4, <2>8
<1> QED  BY <1>2, <1>4, <1>5, <1>6, <1>7

-----------------------------------------------------------------------------
(* The answers: transfers of the host, and the queue of the card.           *)

IsAnswers(t) == t[1].k \in TxKind
NoAnswer(o) == \A i \in DOMAIN o : ~IsAnswers(o[i])

\* Answers to c, of which the last may be final: a status word, or the request for
\* the body.
AnswersTo(t, c) == \A j \in DOMAIN t : t[j].cmd = c /\ (t[j].k # "PB_AND_TX" => j = Len(t))
Final(t) == \E j \in DOMAIN t : t[j].k # "PB_AND_TX"

\* No answers follow final ones.
OutOk(o, c) ==
  \A i \in DOMAIN o : IsAnswers(o[i]) =>
     AnswersTo(o[i], c) /\ (Final(o[i]) => \A n \in DOMAIN o : n > i => ~IsAnswers(o[n]))

LEMMA NoAnswerOk ==
  ASSUME NEW o, NoAnswer(o), NEW c
  PROVE  OutOk(o, c)
BY DEF NoAnswer, OutOk

LEMMA NoneOk ==
  ASSUME NEW c
  PROVE  AnswersTo(<<>>, c) /\ ~Final(<<>>) /\ NoAnswer(<<>>)
BY DEF AnswersTo, Final, NoAnswer

LEMMA StartupOk == NoAnswer(Startup)
<1>1. DOMAIN Startup = 1..2
  BY StartupIs
<1>2. Startup[1][1].k \notin TxKind /\ Startup[2][1].k \notin TxKind
  BY StartupIs DEF TxKind
<1> QED  BY <1>1, <1>2 DEF NoAnswer, IsAnswers

\* A transfer joins the others: one without answers, or the answers to c when those
\* before are not final.
LEMMA OutAppend ==
  ASSUME NEW o \in Seq(Transfer), NEW t \in Transfer, NEW c
  PROVE  /\ ~IsAnswers(t) /\ OutOk(o, c) => OutOk(Append(o, t), c)
         /\ ~IsAnswers(t) /\ NoAnswer(o) => NoAnswer(Append(o, t))
         /\ OutOk(o, c) /\ AnswersTo(t, c) /\ (\A i \in DOMAIN o : IsAnswers(o[i]) => ~Final(o[i]))
            => OutOk(Append(o, t), c)
<1>1. PICK p : p = Append(o, t)
  OBVIOUS
<1>2. /\ DOMAIN p = 1..Len(o) + 1 /\ DOMAIN o = 1..Len(o) /\ Len(o) \in Nat
      /\ \A i \in DOMAIN o : p[i] = o[i]
      /\ p[Len(o) + 1] = t
  BY <1>1
<1> HIDE <1>1
<1>3. \A i \in DOMAIN p : i \in DOMAIN o \/ i = Len(o) + 1
  BY <1>2
<1>4. ~IsAnswers(t) /\ NoAnswer(o) => NoAnswer(p)
  BY <1>2, <1>3 DEF NoAnswer
<1>5. ~IsAnswers(t) /\ OutOk(o, c) => OutOk(p, c)
  <2> SUFFICES ASSUME ~IsAnswers(t), OutOk(o, c), NEW i \in DOMAIN p, IsAnswers(p[i])
               PROVE  /\ AnswersTo(p[i], c)
                      /\ Final(p[i]) => \A n \in DOMAIN p : n > i => ~IsAnswers(p[n])
    BY DEF OutOk
  <2>1. i \in DOMAIN o /\ p[i] = o[i]
    BY <1>2, <1>3
  <2>2. AnswersTo(o[i], c) /\ (Final(o[i]) => \A n \in DOMAIN o : n > i => ~IsAnswers(o[n]))
    BY <2>1 DEF OutOk
  <2> QED  BY <1>2, <1>3, <2>1, <2>2
<1>6. ASSUME OutOk(o, c), AnswersTo(t, c), \A i \in DOMAIN o : IsAnswers(o[i]) => ~Final(o[i])
      PROVE  OutOk(p, c)
  <2> SUFFICES ASSUME NEW i \in DOMAIN p, IsAnswers(p[i])
               PROVE  /\ AnswersTo(p[i], c)
                      /\ Final(p[i]) => \A n \in DOMAIN p : n > i => ~IsAnswers(p[n])
    BY DEF OutOk
  <2>1. CASE i \in DOMAIN o
    BY <1>2, <1>6, <2>1 DEF OutOk
  <2>2. CASE i = Len(o) + 1
    <3>1. \A n \in DOMAIN p : ~(n > i)
      BY <1>2, <2>2
    <3> QED  BY <1>2, <1>6, <2>2, <3>1
  <2> QED  BY <1>3, <2>1, <2>2
<1> QED  BY <1>1, <1>4, <1>5, <1>6

LEMMA AnswersFollow ==
  ASSUME NEW o \in Seq(Transfer), NoAnswer(o), NEW t \in Transfer, NEW c, AnswersTo(t, c)
  PROVE  OutOk(Append(o, t), c)
<1>1. \A i \in DOMAIN o : IsAnswers(o[i]) => ~Final(o[i])
  BY DEF NoAnswer
<1>2. OutOk(o, c)
  BY NoAnswerOk
<1> QED  BY <1>1, <1>2, OutAppend

LEMMA OutTail ==
  ASSUME NEW o \in Seq(Transfer), o # <<>>, NEW c
  PROVE  /\ OutOk(o, c) => OutOk(Tail(o), c)
         /\ NoAnswer(o) => NoAnswer(Tail(o))
         /\ OutOk(o, c) /\ IsAnswers(o[1]) => AnswersTo(o[1], c)
         /\ OutOk(o, c) /\ IsAnswers(o[1]) /\ Final(o[1]) => NoAnswer(Tail(o))
<1>1. PICK p : p = Tail(o)
  OBVIOUS
<1>2. /\ DOMAIN p = 1..Len(o) - 1 /\ DOMAIN o = 1..Len(o) /\ Len(o) \in Nat \ {0}
      /\ \A i \in DOMAIN p : p[i] = o[i + 1]
  BY <1>1
<1> HIDE <1>1
<1>3. /\ 1 \in DOMAIN o
      /\ \A i \in DOMAIN p : i + 1 \in DOMAIN o /\ i + 1 > 1
  BY <1>2
<1>4. NoAnswer(o) => NoAnswer(p)
  BY <1>2, <1>3 DEF NoAnswer
<1>5. OutOk(o, c) => OutOk(p, c)
  <2> SUFFICES ASSUME OutOk(o, c), NEW i \in DOMAIN p, IsAnswers(p[i])
               PROVE  /\ AnswersTo(p[i], c)
                      /\ Final(p[i]) => \A n \in DOMAIN p : n > i => ~IsAnswers(p[n])
    BY DEF OutOk
  <2>1. /\ AnswersTo(o[i + 1], c)
        /\ Final(o[i + 1]) => \A n \in DOMAIN o : n > i + 1 => ~IsAnswers(o[n])
    BY <1>2, <1>3 DEF OutOk
  <2>2. ASSUME Final(p[i]), NEW n \in DOMAIN p, n > i PROVE ~IsAnswers(p[n])
    <3>1. n + 1 \in DOMAIN o /\ n + 1 > i + 1
      BY <1>2, <1>3, <2>2
    <3> QED  BY <1>2, <2>1, <2>2, <3>1
  <2> QED  BY <1>2, <2>1, <2>2
<1>6. OutOk(o, c) /\ IsAnswers(o[1]) => AnswersTo(o[1], c)
  BY <1>3 DEF OutOk
<1>7. ASSUME OutOk(o, c), IsAnswers(o[1]), Final(o[1]) PROVE NoAnswer(p)
  BY <1>2, <1>3, <1>7 DEF OutOk, NoAnswer
<1> QED  BY <1>1, <1>4, <1>5, <1>6, <1>7

LEMMA OutPrefix ==
  ASSUME NEW o \in Seq(Transfer), NEW n \in 0..Len(o), NEW c
  PROVE  /\ OutOk(o, c) => OutOk(SubSeq(o, 1, n), c)
         /\ NoAnswer(o) => NoAnswer(SubSeq(o, 1, n))
<1>1. PICK p : p = SubSeq(o, 1, n)
  OBVIOUS
<1>2. DOMAIN p = 1..n /\ DOMAIN o = 1..Len(o) /\ \A i \in 1..n : p[i] = o[i]
  BY <1>1
<1>3. \A i \in DOMAIN p : i \in DOMAIN o /\ p[i] = o[i]
  BY <1>2
<1> HIDE <1>1
<1>4. NoAnswer(o) => NoAnswer(p)
  BY <1>3 DEF NoAnswer
<1>5. OutOk(o, c) => OutOk(p, c)
  BY <1>3 DEF OutOk
<1> QED  BY <1>1, <1>4, <1>5

\* The card takes answers into its queue, and sends the first.
LEMMA AnswersJoin ==
  ASSUME NEW t \in Seq(Answer), NEW a \in Seq(Answer), NEW c, AnswersTo(t, c), ~Final(t),
         AnswersTo(a, c), NEW n \in 0..Len(a)
  PROVE  /\ AnswersTo(t \o SubSeq(a, 1, n), c)
         /\ Final(t \o SubSeq(a, 1, n)) => Final(a)
<1>1. PICK s : s = SubSeq(a, 1, n)
  OBVIOUS
<1>2. /\ s \in Seq(Answer) /\ Len(s) = n /\ n \in Nat /\ DOMAIN a = 1..Len(a) /\ Len(a) \in Nat
      /\ \A i \in 1..n : s[i] = a[i]
  BY <1>1
<1>3. PICK p : p = t \o s
  OBVIOUS
<1>4. /\ DOMAIN p = 1..Len(t) + n /\ DOMAIN t = 1..Len(t) /\ Len(t) \in Nat /\ Len(p) = Len(t) + n
      /\ \A i \in 1..Len(t) : p[i] = t[i]
      /\ \A i \in 1..n : p[Len(t) + i] = s[i]
  <2>1. t \in Seq(Answer) /\ s \in Seq(Answer) /\ Len(s) = n /\ n \in Nat /\ Len(t) \in Nat
    BY <1>2
  <2>2. p \in Seq(Answer) /\ Len(p) = Len(t) + n
    BY <1>3, <2>1, ConcatProperties
  <2>3. \A i \in 1..Len(p) : p[i] = IF i <= Len(t) THEN t[i] ELSE s[i - Len(t)]
    BY <1>3, <2>1, <2>2, ConcatProperties
  <2>4. \A i \in 1..Len(t) : p[i] = t[i]
    BY <2>1, <2>2, <2>3
  <2>5. ASSUME NEW i \in 1..n PROVE p[Len(t) + i] = s[i]
    <3>1. Len(t) + i \in 1..Len(p) /\ ~(Len(t) + i <= Len(t)) /\ (Len(t) + i) - Len(t) = i
      BY <2>1, <2>2
    <3> QED  BY <2>3, <3>1
  <2> QED  BY <2>1, <2>2, <2>4, <2>5
<1> HIDE <1>1, <1>3
<1>5. ASSUME NEW j \in DOMAIN p, j \in 1..Len(t)
      PROVE  p[j].cmd = c /\ p[j].k = "PB_AND_TX"
  BY <1>4, <1>5 DEF AnswersTo, Final
<1>6. ASSUME NEW j \in DOMAIN p, j \notin 1..Len(t)
      PROVE  \E i \in DOMAIN a : p[j] = a[i] /\ i <= n /\ j = Len(t) + i
  <2>1. j - Len(t) \in 1..n /\ Len(t) + (j - Len(t)) = j
    BY <1>4, <1>6
  <2>2. p[j] = s[j - Len(t)]
    BY <1>4, <2>1
  <2>3. j - Len(t) \in DOMAIN a
    BY <1>2, <2>1
  <2> QED  BY <1>2, <2>1, <2>2, <2>3
<1>7. ASSUME NEW j \in DOMAIN p
      PROVE  /\ p[j].cmd = c
             /\ p[j].k # "PB_AND_TX" => j = Len(p) /\ Final(a)
  <2>1. CASE j \in 1..Len(t)
    BY <1>5, <2>1
  <2>2. CASE j \notin 1..Len(t)
    <3>1. PICK i \in DOMAIN a : p[j] = a[i] /\ i <= n /\ j = Len(t) + i
      BY <1>6, <2>2
    <3>2. a[i].cmd = c /\ (a[i].k # "PB_AND_TX" => i = Len(a) /\ Final(a))
      BY DEF AnswersTo, Final
    <3>3. i = Len(a) => j = Len(p)
      BY <1>2, <1>4, <3>1
    <3> QED  BY <3>1, <3>2, <3>3
  <2> QED  BY <2>1, <2>2
<1>8. AnswersTo(p, c) /\ (Final(p) => Final(a))
  BY <1>7 DEF AnswersTo, Final
<1> QED  BY <1>1, <1>3, <1>8

LEMMA AnswersTail ==
  ASSUME NEW t \in Seq(Answer), t # <<>>, NEW c, AnswersTo(t, c)
  PROVE  /\ t[1].cmd = c /\ AnswersTo(Tail(t), c) /\ (Final(Tail(t)) => Final(t))
         /\ t[1].k # "PB_AND_TX" => Tail(t) = <<>> /\ Final(t)
<1>1. PICK p : p = Tail(t)
  OBVIOUS
<1>2. /\ DOMAIN p = 1..Len(t) - 1 /\ DOMAIN t = 1..Len(t) /\ Len(t) \in Nat \ {0}
      /\ Len(p) = Len(t) - 1
      /\ \A i \in DOMAIN p : p[i] = t[i + 1]
  BY <1>1
<1>3. 1 \in DOMAIN t /\ \A i \in DOMAIN p : i + 1 \in DOMAIN t
  BY <1>2
<1>4. \A i \in DOMAIN p : i + 1 = Len(t) => i = Len(p)
  BY <1>2
<1>5. p = <<>> <=> Len(t) = 1
  <2>1. p \in Seq(Answer)
    BY <1>1
  <2>2. p = <<>> <=> Len(p) = 0
    BY <2>1
  <2> QED  BY <1>2, <2>2
<1> HIDE <1>1
<1>6. AnswersTo(p, c)
  BY <1>2, <1>3, <1>4 DEF AnswersTo
<1>7. Final(p) => Final(t)
  BY <1>2, <1>3 DEF Final
<1>8. t[1].cmd = c /\ (t[1].k # "PB_AND_TX" => p = <<>> /\ Final(t))
  BY <1>3, <1>5 DEF AnswersTo, Final
<1> QED  BY <1>1, <1>6, <1>7, <1>8

LEMMA OneAnswer ==
  ASSUME NEW a \in Answer
  PROVE  AnswersTo(<<a>>, a.cmd) /\ (Final(<<a>>) => a.k # "PB_AND_TX") /\ IsAnswers(<<a>>)
<1>1. DOMAIN <<a>> = {1} /\ Len(<<a>>) = 1 /\ <<a>>[1] = a
  OBVIOUS
<1> QED  BY <1>1 DEF AnswersTo, Final, IsAnswers, Answer

LEMMA TwoAnswers ==
  ASSUME NEW a \in Answer, NEW b \in Answer, a.cmd = b.cmd, a.k = "PB_AND_TX"
  PROVE  AnswersTo(<<a, b>>, a.cmd)
<1>1. DOMAIN <<a, b>> = {1, 2} /\ Len(<<a, b>>) = 2 /\ <<a, b>>[1] = a /\ <<a, b>>[2] = b
  OBVIOUS
<1> QED  BY <1>1 DEF AnswersTo

-----------------------------------------------------------------------------
(* One thing at a time.                                                     *)

Places == {"none", "queue", "busy", "urb", "host", "answer", "body"}

Empty(q, b, u) == Clear(q) /\ ~Tok(b) /\ Clear(Arrived(u))

\* w is all that is on the way to the host,
Way(w, c, ac, q, b, u) ==
  /\ Path(q, "queue", w, c, ac) /\ (Tok(b) => w = "busy" /\ Good(b, c, ac))
  /\ Path(Arrived(u), "urb", w, c, ac)

\* with the host,
AtHost(w, c, h) ==
  /\ h.busy => w = "host" /\ h.ac.cmd = c
  /\ w \in {"answer", "body", "host"} => KnownBy(h.ac, c)

\* on the way to the reader,
Answers(w, c, t, o) ==
  /\ OutOk(o, c) /\ AnswersTo(t, c) /\ (Final(t) => NoAnswer(o))
  /\ w = "answer" \/ (t = <<>> /\ NoAnswer(o))

\* or with the reader.
AtReader(w, phase) ==
  (phase = "body" => w = "body") /\ (phase \in {"off", "idle"} => w = "none")

Token(w) ==
  /\ Way(w, rd.cmd, host.ac, ep["IN"].q, ep["IN"].busy, urbs)
  /\ AtHost(w, rd.cmd, host) /\ Answers(w, rd.cmd, txQ, out) /\ AtReader(w, rd.phase)

Exchange == torn \/ \E w \in Places : Token(w)

LEMMA WayEmpty ==
  ASSUME NEW q, NEW b, NEW u, NEW w, NEW c, NEW ac
  PROVE  /\ Empty(q, b, u) => Way(w, c, ac, q, b, u)
         /\ Way(w, c, ac, q, b, u) /\ w \notin {"queue", "busy", "urb"} => Empty(q, b, u)
<1>1. Empty(q, b, u) => Way(w, c, ac, q, b, u)
  BY ClearIs DEF Empty, Way
<1>2. ASSUME Way(w, c, ac, q, b, u), w # "queue", w # "busy", w # "urb" PROVE Empty(q, b, u)
  BY <1>2, ClearIs DEF Empty, Way
<1> QED  BY <1>1, <1>2

LEMMA WayKnown ==
  ASSUME NEW q, NEW b, NEW u, NEW w, NEW c, NEW ac, NEW new,
         Way(w, c, ac, q, b, u), KnownBy(new, c)
  PROVE  Way(w, c, new, q, b, u)
BY PathKnown DEF Way, Good

LEMMA NoneAnswered ==
  ASSUME NEW w, NEW c, NEW o, NoAnswer(o)
  PROVE  Answers(w, c, <<>>, o)
BY NoAnswerOk, NoneOk DEF Answers

\* The slots of the IN endpoint.
LEMMA InSlots ==
  ASSUME Base
  PROVE  /\ ep["IN"].q \in Queue("IN") /\ ep["IN"].q \in Seq(MsgType)
         /\ ep["IN"].busy \in MsgType /\ urbs \in Urbs /\ Arrived(urbs) \in Seq(MsgType)
<1>1. ep["IN"] \in EpType("IN")
  BY CarriedIs DEF Base, EpTyped
<1>2. ep["IN"].q \in Queue("IN") /\ ep["IN"].busy \in InMsg \cup {NoMsg}
  BY <1>1, CarriedIs DEF EpType
<1>3. ep["IN"].q \in Seq(InMsg)
  BY <1>2, CarriedIs DEF Queue
<1>4. InMsg \subseteq MsgType
  BY DEF InMsg
<1> QED  BY <1>2, <1>3, <1>4, NoMsgIs, SeqMonotonic, SlotsAre, ArrivedIs

LEMMA NotUnderway ==
  ASSUME Base, ~Underway
  PROVE  ~host.busy /\ Empty(ep["IN"].q, ep["IN"].busy, urbs) /\ NoAnswer(out)
<1>1. ~host.busy
  BY DEF Underway
<1>2. \A m \in ToSet(Append(ep["IN"].q, ep["IN"].busy)) \cup {u[2] : u \in ToSet(urbs)} : ~Tok(m)
  BY DEF Underway, Tok
<1>3. \A t \in ToSet(out) : \A i \in DOMAIN t : t[i].k \notin TxKind
  BY DEF Underway
<1>4. NoAnswer(out)
  <2> SUFFICES ASSUME NEW i \in DOMAIN out PROVE out[i][1].k \notin TxKind
    BY DEF NoAnswer, IsAnswers
  <2>1. out[i] \in ToSet(out) /\ out[i] \in Transfer
    BY DEF ToSet, Base
  <2>2. 1 \in DOMAIN out[i]
    BY <2>1, TransferIs
  <2> QED  BY <1>3, <2>1, <2>2
<1>5. PICK s : s = Append(ep["IN"].q, ep["IN"].busy)
  OBVIOUS
<1>6. \A i \in DOMAIN s : ~Tok(s[i])
  BY <1>2, <1>5 DEF ToSet
<1>7. PICK q \in Seq(MsgType) : q = ep["IN"].q
  BY InSlots
<1>8. /\ DOMAIN s = 1..Len(q) + 1 /\ DOMAIN q = 1..Len(q) /\ Len(q) \in Nat
      /\ \A i \in DOMAIN q : s[i] = q[i]
      /\ s[Len(q) + 1] = ep["IN"].busy
  BY <1>5, <1>7
<1>9. Clear(q) /\ ~Tok(ep["IN"].busy)
  <2>1. Len(q) + 1 \in DOMAIN s /\ \A i \in DOMAIN q : i \in DOMAIN s
    BY <1>8
  <2> HIDE <1>5
  <2> QED  BY <1>6, <1>8, <2>1 DEF Clear
<1>10. Clear(Arrived(urbs))
  <2>1. \A i \in DOMAIN urbs : ~Tok(urbs[i][2])
    BY <1>2 DEF ToSet
  <2> QED  BY <2>1 DEF Clear, Arrived
<1> QED  BY <1>1, <1>4, <1>7, <1>9, <1>10 DEF Empty

\* The end of a session leaves nothing of it behind, unless the new one is torn.
LEMMA IoExchange ==
  ASSUME Base, Exchange, NEW l \in LevelType, NEW on \in BOOLEAN, ~fw.irq => ~on,
         IoStateChg(l, on), UNCHANGED <<urbs, host>>,
         NoAnswer(out) => NoAnswer(out'), \A c : OutOk(out, c) => OutOk(out', c)
  PROVE  Exchange'
<1>1. IF Ends(fw.level, Level(l, on))
      THEN /\ txQ' = <<>> /\ rd' \in RdType /\ rd'.phase = "off" /\ rd'.cmd = rd.cmd
           /\ torn' = Underway
      ELSE UNCHANGED <<txQ, rd, sess, torn, lost>>
  BY IoCard DEF Base
<1>2. ep'["IN"] = ep["IN"]
  <2>1. PICK r \in Queue("INT") : QueueSet(ep, ep', "INT", r)
    BY IoEp DEF Base
  <2> QED  BY <2>1, QueueSetIs, CarriedIs DEF Base
<1>3. CASE Ends(fw.level, Level(l, on)) /\ Underway
  BY <1>1, <1>3 DEF Exchange
<1>4. CASE Ends(fw.level, Level(l, on)) /\ ~Underway
  <2>1. ~host.busy /\ Empty(ep["IN"].q, ep["IN"].busy, urbs) /\ NoAnswer(out)
    BY <1>4, NotUnderway
  <2>2. Way("none", rd'.cmd, host'.ac, ep'["IN"].q, ep'["IN"].busy, urbs')
    BY <1>2, <2>1, WayEmpty
  <2>3. AtHost("none", rd'.cmd, host')
    BY <2>1 DEF AtHost
  <2>4. Answers("none", rd'.cmd, txQ', out')
    BY <1>1, <1>4, <2>1, NoneAnswered
  <2>5. AtReader("none", rd'.phase)
    BY <1>1, <1>4 DEF AtReader
  <2> QED  BY <2>2, <2>3, <2>4, <2>5 DEF Exchange, Token, Places
<1>5. CASE ~Ends(fw.level, Level(l, on))
  <2>1. UNCHANGED <<txQ, rd, torn>>
    BY <1>1, <1>5
  <2>2. CASE torn
    BY <2>1, <2>2 DEF Exchange
  <2>3. CASE \E w \in Places : Token(w)
    <3>1. PICK w \in Places : Token(w)
      BY <2>3
    <3>2. Answers(w, rd'.cmd, txQ', out')
      BY <2>1, <3>1 DEF Token, Answers
    <3>3. Token(w)'
      BY <1>2, <2>1, <3>1, <3>2 DEF Token
    <3> QED  BY <3>3 DEF Exchange
  <2> QED  BY <2>2, <2>3 DEF Exchange
<1> QED  BY <1>3, <1>4, <1>5

LEMMA LineChangeExchange == ASSUME Base, Exchange, LineChange PROVE Exchange'
<1>1. PICK l : l = line'
  OBVIOUS
<1>2. PICK w \in {"vcc", "rst"} : line' = [line EXCEPT ![w] = ~@]
  BY DEF LineChange
<1>3. l \in LevelType
  BY <1>1, <1>2 DEF Base, LineOk, LevelType
<1>4. IoStateChg(l, fw.enabled) /\ fw.enabled \in BOOLEAN /\ (~fw.irq => ~fw.enabled)
  BY <1>1 DEF LineChange, Base, LineOk, FwType
<1>5. UNCHANGED <<urbs, host, out>>
  BY DEF LineChange
<1>6. (NoAnswer(out) => NoAnswer(out')) /\ (\A c : OutOk(out, c) => OutOk(out', c))
  BY <1>5
<1> QED  BY <1>3, <1>4, <1>5, <1>6, IoExchange

LEMMA SelectExchange == ASSUME Base, Exchange, UsbCommandSimSelect PROVE Exchange'
<1>1. PICK l : l = line
  OBVIOUS
<1>2. PICK on \in BOOLEAN : on = (Head(out)[1].k = "SELECT")
  OBVIOUS
<1>3. l \in LevelType
  BY <1>1 DEF Base, LineOk
<1>4. IoStateChg(l, on)
  BY <1>1, <1>2 DEF UsbCommandSimSelect
<1>5. out \in Seq(Transfer) /\ out # <<>> /\ Head(out) = out[1] /\ out' = Tail(out)
      /\ out[1][1].k \in {"SELECT", "SELECT_LOCAL"}
  BY DEF Base, UsbCommandSimSelect
<1>6. ~fw.irq => ~on
  BY <1>2, <1>5, PrecededTail DEF Base, Unheard
<1>7. UNCHANGED <<urbs, host>>
  BY DEF UsbCommandSimSelect
<1>8. (NoAnswer(out) => NoAnswer(out')) /\ (\A c : OutOk(out, c) => OutOk(out', c))
  BY <1>5, OutTail
<1> QED  BY <1>3, <1>4, <1>6, <1>7, <1>8, IoExchange

\* A step that leaves torn alone, seen in a session that is not torn.
LEMMA NotTorn ==
  ASSUME Exchange, UNCHANGED torn,
         ASSUME NEW w \in Places, Token(w) PROVE \E x \in Places : Token(x)'
  PROVE  Exchange'
BY DEF Exchange

\* The reader may send a command when nothing is left of the one before.
LEMMA AtrExchange == ASSUME Base, Exchange, AtrSent PROVE Exchange'
<1> SUFFICES ASSUME NEW w \in Places, Token(w) PROVE Token(w)'
  BY NotTorn DEF AtrSent
<1>1. UNCHANGED <<txQ, ep, urbs, out, host>>
  BY DEF AtrSent
<1>2. rd.phase = "off"
  BY DEF AtrSent, Base, CardOff
<1>3. rd'.phase = "idle" /\ rd'.cmd = rd.cmd
  BY DEF AtrSent, Base, ReaderOk, RdType
<1>4. AtReader(w, rd'.phase)
  BY <1>2, <1>3 DEF Token, AtReader
<1> QED  BY <1>1, <1>3, <1>4 DEF Token

LEMMA HeaderExchange == ASSUME Base, Exchange, SendTpduHeader PROVE Exchange'
<1>1. PICK cmd \in CmdType :
           /\ rd' = [rd EXCEPT !.phase = "wait", !.cmd = cmd]
           /\ SendIn(Msg("HDR", cmd, {})) /\ Msg("HDR", cmd, {}) \in InMsg
  BY HeaderIs
<1>2. PICK m \in InMsg : m = Msg("HDR", cmd, {}) /\ m.k = "HDR" /\ m.cmd = cmd
  BY <1>1, MsgIs
<1>3. PICK r \in Queue("IN") : QueueSet(ep, ep', "IN", r) /\ Sent(ep["IN"].q, r, m)
  BY <1>1, <1>2, SendInIs DEF Base
<1>4. ep'["IN"].q = r /\ ep'["IN"].busy = ep["IN"].busy
  BY <1>3, QueueSetIs, CarriedIs DEF Base
<1>5. rd'.phase = "wait" /\ rd'.cmd = cmd
  BY <1>1 DEF Base, ReaderOk, RdType
<1>6. UNCHANGED <<txQ, urbs, out, host, torn>> /\ rd.phase = "idle"
  BY DEF SendTpduHeader
<1> SUFFICES ASSUME NEW w \in Places, Token(w) PROVE Token("queue")'
  BY <1>6, NotTorn DEF Places
<1>7. w = "none" /\ ~host.busy /\ txQ = <<>> /\ NoAnswer(out)
  BY <1>6 DEF Token, AtReader, AtHost, Answers
<1>8. Empty(ep["IN"].q, ep["IN"].busy, urbs)
  BY <1>7, WayEmpty DEF Token
<1>9. Way("queue", cmd, host.ac, r, ep["IN"].busy, urbs)
  <2>1. m \in MsgType /\ Good(m, cmd, host.ac)
    BY <1>2 DEF InMsg, Good
  <2>2. Path(r, "queue", "queue", cmd, host.ac)
    BY <1>3, <1>8, <2>1, SentPath, InSlots DEF Empty
  <2> QED  BY <1>8, <2>2, ClearIs DEF Way, Empty
<1>10. AtHost("queue", cmd, host)
  BY <1>7 DEF AtHost
<1>11. Answers("queue", cmd, txQ, out)
  BY <1>7, NoneAnswered
<1>12. AtReader("queue", "wait")
  BY DEF AtReader
<1> QED  BY <1>4, <1>5, <1>6, <1>9, <1>10, <1>11, <1>12 DEF Token

LEMMA BodyExchange == ASSUME Base, Exchange, AddTpduBody PROVE Exchange'
<1>1. PICK c \in CmdType : c = rd.cmd
  BY DEF Base, ReaderOk, RdType
<1>2. PICK m \in InMsg : m = Msg("DATA", c, {}) /\ m.k = "DATA" /\ m.cmd = c
  BY MsgIs, MsgsAre DEF InKind
<1>3. SendIn(m)
  BY <1>1, <1>2 DEF AddTpduBody
<1>4. PICK r \in Queue("IN") : QueueSet(ep, ep', "IN", r) /\ Sent(ep["IN"].q, r, m)
  BY <1>3, SendInIs DEF Base
<1>5. ep'["IN"].q = r /\ ep'["IN"].busy = ep["IN"].busy
  BY <1>4, QueueSetIs, CarriedIs DEF Base
<1>6. rd'.phase = "wait" /\ rd'.cmd = c
  BY <1>1 DEF AddTpduBody, Base, ReaderOk, RdType
<1>7. UNCHANGED <<txQ, urbs, out, host, torn>> /\ rd.phase = "body"
  BY DEF AddTpduBody
<1> SUFFICES ASSUME NEW w \in Places, Token(w) PROVE Token("queue")'
  BY <1>7, NotTorn DEF Places
<1>8. w = "body" /\ ~host.busy /\ txQ = <<>> /\ NoAnswer(out) /\ KnownBy(host.ac, c)
  BY <1>1, <1>7 DEF Token, AtReader, AtHost, Answers
<1>9. Empty(ep["IN"].q, ep["IN"].busy, urbs)
  BY <1>8, WayEmpty DEF Token
<1>10. Way("queue", c, host.ac, r, ep["IN"].busy, urbs)
  <2>1. m \in MsgType /\ Good(m, c, host.ac)
    BY <1>2, <1>8 DEF InMsg, Good
  <2>2. Path(r, "queue", "queue", c, host.ac)
    BY <1>4, <1>9, <2>1, SentPath, InSlots DEF Empty
  <2> QED  BY <1>9, <2>2, ClearIs DEF Way, Empty
<1>11. AtHost("queue", c, host)
  BY <1>8 DEF AtHost
<1>12. Answers("queue", c, txQ, out)
  BY <1>8, NoneAnswered
<1>13. AtReader("queue", "wait")
  BY DEF AtReader
<1> QED  BY <1>5, <1>6, <1>7, <1>10, <1>11, <1>12, <1>13 DEF Token

\* The first of the answers, and what it makes of the reader.
LEMMA TxExchange == ASSUME Base, Exchange, TxTpdu PROVE Exchange'
<1>1. txQ \in Seq(Answer) /\ txQ # <<>> /\ txQ' = Tail(txQ)
      /\ UNCHANGED <<ep, urbs, out, host, torn>>
  BY DEF TxTpdu, Base, ReaderOk
<1>2. PICK m \in Answer : m = txQ[1] /\ Head(txQ) = m
  BY <1>1
<1>3. m.k \in TxKind
  BY DEF Answer
<1>4. \/ m.k = "PB_AND_TX" /\ rd' = rd
      \/ m.k = "PB_AND_RX" /\ (rd' = rd \/ rd' = [rd EXCEPT !.phase = "body"])
      \/ /\ m.k \in {"SW", "SW_6C"}
         /\ \E sw \in {"6Cxx", "9000"} : rd' = [rd EXCEPT !.phase = "idle", !.sw = sw]
  BY <1>2, <1>3 DEF TxTpdu, TxKind
<1>5. rd \in RdType
  BY DEF Base, ReaderOk
<1>6. /\ rd'.cmd = rd.cmd
      /\ \/ m.k = "PB_AND_TX" /\ rd'.phase = rd.phase
         \/ m.k = "PB_AND_RX" /\ rd'.phase \in {rd.phase, "body"}
         \/ m.k \in {"SW", "SW_6C"} /\ rd'.phase = "idle"
  BY <1>4, <1>5 DEF RdType
<1> SUFFICES ASSUME NEW w \in Places, Token(w) PROVE \E x \in Places : Token(x)'
  BY <1>1, NotTorn
<1>7. /\ w = "answer" /\ OutOk(out, rd.cmd) /\ AnswersTo(txQ, rd.cmd) /\ (Final(txQ) => NoAnswer(out))
      /\ rd.phase \notin {"body", "off", "idle"} /\ ~host.busy /\ KnownBy(host.ac, rd.cmd)
  BY <1>1 DEF Token, Answers, AtReader, AtHost
<1>8. Empty(ep["IN"].q, ep["IN"].busy, urbs)
  BY <1>7, WayEmpty DEF Token
<1>9. \A x : Way(x, rd'.cmd, host'.ac, ep'["IN"].q, ep'["IN"].busy, urbs')
  BY <1>1, <1>8, WayEmpty
<1>10. \A x \in {"none", "answer", "body"} : AtHost(x, rd'.cmd, host')
  BY <1>1, <1>6, <1>7 DEF AtHost
<1>11. /\ AnswersTo(Tail(txQ), rd.cmd) /\ (Final(Tail(txQ)) => Final(txQ))
       /\ m.k # "PB_AND_TX" => Tail(txQ) = <<>> /\ Final(txQ)
  BY <1>1, <1>2, <1>7, AnswersTail
<1>12. Answers("answer", rd'.cmd, txQ', out')
  BY <1>1, <1>6, <1>7, <1>11 DEF Answers
<1>13. m.k # "PB_AND_TX" => \A x : Answers(x, rd'.cmd, txQ', out')
  BY <1>1, <1>6, <1>7, <1>11, NoneAnswered
<1>14. CASE rd'.phase = rd.phase
  <2>1. AtReader("answer", rd'.phase)
    BY <1>7, <1>14 DEF AtReader
  <2>2. Token("answer")'
    BY <1>9, <1>10, <1>12, <2>1 DEF Token
  <2> QED  BY <2>2 DEF Places
<1>15. CASE m.k # "PB_AND_TX" /\ rd'.phase = "body"
  <2>1. AtReader("body", rd'.phase)
    BY <1>15 DEF AtReader
  <2>2. Token("body")'
    BY <1>9, <1>10, <1>13, <1>15, <2>1 DEF Token
  <2> QED  BY <2>2 DEF Places
<1>16. CASE m.k # "PB_AND_TX" /\ rd'.phase = "idle"
  <2>1. AtReader("none", rd'.phase)
    BY <1>16 DEF AtReader
  <2>2. Token("none")'
    BY <1>9, <1>10, <1>13, <1>16, <2>1 DEF Token
  <2> QED  BY <2>2 DEF Places
<1> QED  BY <1>6, <1>14, <1>15, <1>16

\* A header or body moves on.
LEMMA Moves ==
  ASSUME NEW w \in {"queue", "busy"}, NEW x \in {"busy", "urb"}, NEW c, NEW h, NEW t, NEW o,
         NEW phase, AtHost(w, c, h), Answers(w, c, t, o), AtReader(w, phase)
  PROVE  AtHost(x, c, h) /\ Answers(x, c, t, o) /\ AtReader(x, phase)
BY DEF AtHost, Answers, AtReader

LEMMA RefillExchange ==
  ASSUME Base, Exchange, NEW e \in Endpoint, UsbRefillToHost(e) PROVE Exchange'
<1>1. PICK q \in Queue(e), m \in Carried(e) :
           /\ ep[e].busy = NoMsg /\ ep[e].q # <<>> /\ m = ep[e].q[1] /\ q = Tail(ep[e].q)
           /\ EpTyped(ep') /\ ep'[e].q = q /\ ep'[e].busy = m
           /\ \A d \in Endpoint : d # e => ep'[d] = ep[d]
  BY RefillIs
<1>2. UNCHANGED <<rd, txQ, urbs, out, host, torn>>
  BY DEF UsbRefillToHost
<1> SUFFICES ASSUME NEW w \in Places, Token(w) PROVE \E x \in Places : Token(x)'
  BY <1>2, NotTorn
<1>3. CASE e = "INT"
  <2>1. ep'["IN"] = ep["IN"]
    BY <1>1, <1>3, CarriedIs
  <2>2. Token(w)'
    BY <1>2, <2>1 DEF Token
  <2> QED  BY <2>2
<1>4. CASE e = "IN"
  <2>1. PICK s \in Seq(MsgType) : s = ep["IN"].q
    BY InSlots
  <2>2. s # <<>> /\ m = s[1] /\ ep'["IN"].q = Tail(s) /\ ep'["IN"].busy = m
    BY <1>1, <1>4, <2>1
  <2>3. /\ Path(s, "queue", w, rd.cmd, host.ac) /\ Path(Arrived(urbs), "urb", w, rd.cmd, host.ac)
        /\ AtHost(w, rd.cmd, host) /\ Answers(w, rd.cmd, txQ, out) /\ AtReader(w, rd.phase)
    BY <2>1 DEF Token, Way
  <2>4. /\ Path(Tail(s), "queue", w, rd.cmd, host.ac)
        /\ Tok(m) => w = "queue" /\ Good(m, rd.cmd, host.ac) /\ Clear(Tail(s))
    BY <2>2, <2>3, PathTail
  <2>5. CASE Tok(m)
    <3>1. Clear(Arrived(urbs))
      BY <2>3, <2>4, <2>5, ClearIs
    <3>2. Way("busy", rd.cmd, host.ac, Tail(s), m, urbs)
      BY <2>4, <2>5, <3>1, ClearIs DEF Way
    <3>3. AtHost("busy", rd.cmd, host) /\ Answers("busy", rd.cmd, txQ, out) /\ AtReader("busy", rd.phase)
      BY <2>3, <2>4, <2>5, Moves
    <3>4. Token("busy")'
      BY <1>2, <2>2, <3>2, <3>3 DEF Token
    <3> QED  BY <3>4 DEF Places
  <2>6. CASE ~Tok(m)
    <3>1. Way(w, rd.cmd, host.ac, Tail(s), m, urbs)
      BY <2>3, <2>4, <2>6 DEF Way
    <3>2. Token(w)'
      BY <1>2, <2>2, <2>3, <3>1 DEF Token
    <3> QED  BY <3>2
  <2> QED  BY <2>5, <2>6
<1> QED  BY <1>3, <1>4, CarriedIs

LEMMA NotTok ==
  /\ \A m \in StatusMsg : ~Tok(m)
  /\ ~Tok(NoMsg)
  /\ \A m \in InMsg : Tok(m) <=> m.k # "CONFIG"
BY NoMsgIs DEF StatusMsg, Tok, InMsg, InKind

LEMMA CompleteExchange ==
  ASSUME Base, Exchange, NEW e \in Endpoint, UsbComplete(e) PROVE Exchange'
<1>1. PICK m \in Carried(e) :
           /\ host.up /\ ep[e].busy = m /\ m # NoMsg /\ Pending(e)
           /\ urbs' = Append(urbs, <<e, m>>)
           /\ EpTyped(ep') /\ ep'[e].q = ep[e].q /\ ep'[e].busy = NoMsg
           /\ \A d \in Endpoint : d # e => ep'[d] = ep[d]
  BY CompleteIs
<1>2. UNCHANGED <<rd, txQ, out, host, torn>>
  BY DEF UsbComplete
<1>3. urbs \in Urbs /\ m \in MsgType /\ Arrived(urbs) \in Seq(MsgType)
  BY InSlots, UrbTyped
<1>4. PICK a \in Seq(MsgType) : a = Arrived(urbs)
  BY <1>3
<1>5. Arrived(urbs') = Append(a, m)
  BY <1>1, <1>3, <1>4, ArrivedIs
<1> SUFFICES ASSUME NEW w \in Places, Token(w) PROVE \E x \in Places : Token(x)'
  BY <1>2, NotTorn
<1>6. /\ Path(ep["IN"].q, "queue", w, rd.cmd, host.ac) /\ Path(a, "urb", w, rd.cmd, host.ac)
      /\ Tok(ep["IN"].busy) => w = "busy" /\ Good(ep["IN"].busy, rd.cmd, host.ac)
      /\ AtHost(w, rd.cmd, host) /\ Answers(w, rd.cmd, txQ, out) /\ AtReader(w, rd.phase)
  BY <1>4 DEF Token, Way
<1>7. CASE ~Tok(m)
  <2>1. Path(Append(a, m), "urb", w, rd.cmd, host.ac)
    BY <1>3, <1>6, <1>7, PathAppend
  <2>2. ep'["IN"].q = ep["IN"].q /\ (ep'["IN"].busy = ep["IN"].busy \/ ep'["IN"].busy = NoMsg)
    BY <1>1, CarriedIs
  <2>3. Way(w, rd.cmd, host.ac, ep'["IN"].q, ep'["IN"].busy, urbs')
    BY <1>5, <1>6, <2>1, <2>2, NotTok DEF Way
  <2>4. Token(w)'
    BY <1>2, <1>6, <2>3 DEF Token
  <2> QED  BY <2>4
<1>8. CASE Tok(m)
  <2>1. e = "IN"
    BY <1>8, NotTok, CarriedIs
  <2>2. ep["IN"].busy = m /\ ep'["IN"].q = ep["IN"].q /\ ep'["IN"].busy = NoMsg
    BY <1>1, <2>1
  <2>3. w = "busy" /\ Good(m, rd.cmd, host.ac)
    BY <1>6, <1>8, <2>2
  <2>4. Clear(ep["IN"].q) /\ Clear(a)
    BY <1>6, <2>3, ClearIs
  <2>5. Path(Append(a, m), "urb", "urb", rd.cmd, host.ac)
    BY <1>3, <2>3, <2>4, PathArrives
  <2>6. Way("urb", rd.cmd, host.ac, ep'["IN"].q, ep'["IN"].busy, urbs')
    BY <1>5, <2>2, <2>4, <2>5, ClearIs, NotTok DEF Way
  <2>7. AtHost("urb", rd.cmd, host) /\ Answers("urb", rd.cmd, txQ, out) /\ AtReader("urb", rd.phase)
    BY <1>6, <2>3, Moves
  <2>8. Token("urb")'
    BY <1>2, <2>6, <2>7 DEF Token
  <2> QED  BY <2>8 DEF Places
<1> QED  BY <1>7, <1>8

LEMMA StatusExchange == ASSUME Base, Exchange, ProcessStatus PROVE Exchange'
<1>1. PICK m \in StatusMsg :
           urbs # <<>> /\ Head(urbs)[2] = m /\ urbs[1] = <<"INT", m>> /\ urbs' = Tail(urbs)
  BY NextUrbIs, CarriedIs DEF ProcessStatus
<1>2. UNCHANGED <<rd, txQ, ep, out, torn>>
  BY DEF ProcessStatus
<1>3. host'.ac = host.ac /\ host'.busy = host.busy
  <2>1. host' = [host EXCEPT !.flags = m.flags]
    BY <1>1 DEF ProcessStatus
  <2> QED  BY <2>1 DEF Base, HostType
<1>4. urbs \in Urbs /\ Arrived(urbs) \in Seq(MsgType)
  BY InSlots
<1>5. PICK a \in Seq(MsgType) : a = Arrived(urbs)
  BY <1>4
<1>6. a # <<>> /\ Arrived(urbs') = Tail(a)
  BY <1>1, <1>4, <1>5, ArrivedIs
<1> SUFFICES ASSUME NEW w \in Places, Token(w) PROVE Token(w)'
  BY <1>2, NotTorn
<1>7. Path(Tail(a), "urb", w, rd.cmd, host.ac)
  BY <1>5, <1>6, PathTail DEF Token, Way
<1>8. Way(w, rd.cmd, host.ac, ep["IN"].q, ep["IN"].busy, urbs')
  BY <1>6, <1>7 DEF Token, Way
<1>9. AtHost(w, rd.cmd, host')
  BY <1>3 DEF Token, AtHost
<1> QED  BY <1>2, <1>3, <1>8, <1>9 DEF Token

\* The host takes up a header or a body: for the body it asks the reader, or it goes to the card.
LEMMA RxDataExchange == ASSUME Base, Exchange, ProcessRxData PROVE Exchange'
<1>1. PICK m \in InMsg :
           /\ ~host.busy /\ urbs # <<>> /\ urbs[1] = <<"IN", m>> /\ urbs' = Tail(urbs)
           /\ \/ m.k = "CONFIG" /\ UNCHANGED <<host, out>>
              \/ \E ac \in AcType :
                   /\ host' = [host EXCEPT !.ac = ac, !.busy = ~ac.more]
                   /\ out' = IF ac.more THEN Append(out, <<Msg("PB_AND_RX", ac.cmd, {})>>) ELSE out
                   /\ \/ m.k = "HDR" /\ ac.cmd = m.cmd
                      \/ /\ m.k = "DATA" /\ host.ac.apduCase # 0 /\ ac.cmd = host.ac.cmd
                         /\ ~ac.more /\ ac.apduCase = host.ac.apduCase
  BY RxDataIs
<1>2. UNCHANGED <<rd, txQ, ep, torn>>
  BY DEF ProcessRxData
<1>3. urbs \in Urbs /\ Arrived(urbs) \in Seq(MsgType)
  BY InSlots
<1>4. PICK a \in Seq(MsgType) : a = Arrived(urbs)
  BY <1>3
<1>5. a # <<>> /\ Arrived(urbs') = Tail(a) /\ a[1] = m
  <2>1. urbs[1][2] = m
    <3>1. urbs[1] = <<"IN", m>>
      BY <1>1
    <3>2. <<"IN", m>>[2] = m
      OBVIOUS
    <3> QED  BY <3>1, <3>2, Zenon
  <2> QED  BY <1>1, <1>3, <1>4, <2>1, ArrivedIs
<1> SUFFICES ASSUME NEW w \in Places, Token(w) PROVE \E x \in Places : Token(x)'
  BY <1>2, NotTorn
<1>6. /\ Path(ep["IN"].q, "queue", w, rd.cmd, host.ac) /\ Path(a, "urb", w, rd.cmd, host.ac)
      /\ Tok(ep["IN"].busy) => w = "busy" /\ Good(ep["IN"].busy, rd.cmd, host.ac)
      /\ AtHost(w, rd.cmd, host) /\ Answers(w, rd.cmd, txQ, out) /\ AtReader(w, rd.phase)
  BY <1>4 DEF Token, Way
<1>7. /\ Path(Tail(a), "urb", w, rd.cmd, host.ac)
      /\ Tok(m) => w = "urb" /\ Good(m, rd.cmd, host.ac) /\ Clear(Tail(a))
  BY <1>5, <1>6, PathTail
<1>8. CASE m.k = "CONFIG" /\ UNCHANGED <<host, out>>
  <2>1. Way(w, rd.cmd, host.ac, ep["IN"].q, ep["IN"].busy, urbs')
    BY <1>5, <1>6, <1>7 DEF Way
  <2>2. Token(w)'
    BY <1>2, <1>6, <1>8, <2>1 DEF Token
  <2> QED  BY <2>2
<1>9. CASE \E ac \in AcType :
             /\ host' = [host EXCEPT !.ac = ac, !.busy = ~ac.more]
             /\ out' = IF ac.more THEN Append(out, <<Msg("PB_AND_RX", ac.cmd, {})>>) ELSE out
             /\ \/ m.k = "HDR" /\ ac.cmd = m.cmd
                \/ /\ m.k = "DATA" /\ host.ac.apduCase # 0 /\ ac.cmd = host.ac.cmd
                   /\ ~ac.more /\ ac.apduCase = host.ac.apduCase
  <2>1. PICK ac \in AcType :
             /\ host' = [host EXCEPT !.ac = ac, !.busy = ~ac.more]
             /\ out' = IF ac.more THEN Append(out, <<Msg("PB_AND_RX", ac.cmd, {})>>) ELSE out
             /\ \/ m.k = "HDR" /\ ac.cmd = m.cmd
                \/ /\ m.k = "DATA" /\ host.ac.apduCase # 0 /\ ac.cmd = host.ac.cmd
                   /\ ~ac.more /\ ac.apduCase = host.ac.apduCase
    BY <1>9
  <2>2. PICK b \in BOOLEAN : b = ~ac.more
    OBVIOUS
  <2>3. host'.ac = ac /\ host'.busy = b
    BY <2>1, <2>2, HostAfter DEF Base
  <2>4. Tok(m)
    BY <2>1 DEF Tok
  <2>5. w = "urb" /\ Good(m, rd.cmd, host.ac) /\ Clear(Tail(a))
    BY <1>7, <2>4
  <2>6. ac.cmd = rd.cmd
    BY <2>1, <2>5 DEF Good, KnownBy
  <2>7. Empty(ep["IN"].q, ep["IN"].busy, urbs')
    BY <1>5, <1>6, <2>5, ClearIs DEF Empty
  <2>8. \A x : Way(x, rd.cmd, ac, ep["IN"].q, ep["IN"].busy, urbs')
    BY <2>7, WayEmpty
  <2>9. txQ = <<>> /\ NoAnswer(out) /\ rd.phase \notin {"body", "off", "idle"}
    BY <1>6, <2>5 DEF Answers, AtReader
  <2>10. CASE b
    <3>1. AtHost("host", rd.cmd, host')
      BY <2>3, <2>6 DEF AtHost, KnownBy
    <3>2. out' = out
      BY <2>1, <2>2, <2>10
    <3>3. Answers("host", rd.cmd, txQ, out')
      BY <2>9, <3>2, NoneAnswered
    <3>4. AtReader("host", rd.phase)
      BY <2>9 DEF AtReader
    <3>5. Token("host")'
      BY <1>2, <2>3, <2>8, <3>1, <3>3, <3>4 DEF Token
    <3> QED  BY <3>5 DEF Places
  <2>11. CASE ~b
    <3>1. AtHost("answer", rd.cmd, host')
      BY <2>3, <2>6, <2>11 DEF AtHost, KnownBy
    <3>2. PICK p \in Answer : p = Msg("PB_AND_RX", ac.cmd, {}) /\ p.cmd = rd.cmd
      BY <2>6, MsgsAre, MsgIs DEF AcType, TxKind
    <3>3. out' = Append(out, <<p>>)
      BY <2>1, <2>2, <2>11, <3>2
    <3>4. <<p>> \in Transfer /\ AnswersTo(<<p>>, rd.cmd)
      BY <3>2, TransfersAre, OneAnswer
    <3>5. OutOk(out', rd.cmd)
      BY <2>9, <3>3, <3>4, AnswersFollow DEF Base
    <3>6. Answers("answer", rd.cmd, txQ, out')
      BY <2>9, <3>5, NoneOk DEF Answers
    <3>7. AtReader("answer", rd.phase)
      BY <2>9 DEF AtReader
    <3>8. Token("answer")'
      BY <1>2, <2>3, <2>8, <3>1, <3>6, <3>7 DEF Token
    <3> QED  BY <3>8 DEF Places
  <2> QED  BY <2>10, <2>11
<1> QED  BY <1>1, <1>8, <1>9

\* The card's answers, of which only the last is final.
LEMMA TransceiveExchange == ASSUME Base, Exchange, Transceive PROVE Exchange'
<1>1. PICK sw \in Answer, data \in Answer, v \in {"6Cxx", "9000"} :
           /\ host.busy
           /\ sw.k \in {"SW", "SW_6C"} /\ sw.cmd = host.ac.cmd
           /\ data.k = "PB_AND_TX" /\ data.cmd = host.ac.cmd
           /\ host' = [host EXCEPT !.busy = FALSE, !.ac.sw = v]
           /\ \/ out' = Append(out, <<sw>>)
              \/ out' = Append(out, <<data, sw>>)
              \/ out' = Append(Append(out, <<data>>), <<sw>>)
  BY TransceiveIs
<1>2. UNCHANGED <<rd, txQ, ep, urbs, torn>>
  BY DEF Transceive
<1>3. /\ host'.busy = FALSE /\ host'.ac.cmd = host.ac.cmd
      /\ host'.ac.apduCase = host.ac.apduCase
  BY <1>1, HostAnswered DEF Base
<1> SUFFICES ASSUME NEW w \in Places, Token(w) PROVE Token("answer")'
  BY <1>2, NotTorn DEF Places
<1>4. w = "host" /\ host.ac.cmd = rd.cmd
  BY <1>1 DEF Token, AtHost
<1>5. txQ = <<>> /\ NoAnswer(out) /\ rd.phase \notin {"body", "off", "idle"}
  BY <1>4 DEF Token, Answers, AtReader
<1>6. Way("answer", rd.cmd, host'.ac, ep["IN"].q, ep["IN"].busy, urbs)
  <2>1. Empty(ep["IN"].q, ep["IN"].busy, urbs)
    BY <1>4, WayEmpty DEF Token
  <2> QED  BY <2>1, WayEmpty
<1>7. AtHost("answer", rd.cmd, host')
  BY <1>3, <1>4 DEF AtHost, KnownBy
<1>8. /\ <<sw>> \in Transfer /\ <<data, sw>> \in Transfer /\ <<data>> \in Transfer
      /\ AnswersTo(<<sw>>, rd.cmd) /\ AnswersTo(<<data>>, rd.cmd)
      /\ AnswersTo(<<data, sw>>, rd.cmd) /\ ~Final(<<data>>)
  BY <1>1, <1>4, TransfersAre, OneAnswer, TwoAnswers
<1>9. OutOk(out', rd.cmd)
  <2>1. CASE out' = Append(out, <<sw>>)
    BY <1>5, <1>8, <2>1, AnswersFollow DEF Base
  <2>2. CASE out' = Append(out, <<data, sw>>)
    BY <1>5, <1>8, <2>2, AnswersFollow DEF Base
  <2>3. CASE out' = Append(Append(out, <<data>>), <<sw>>)
    <3>1. PICK o : o = Append(out, <<data>>)
      OBVIOUS
    <3>2. o \in Seq(Transfer) /\ OutOk(o, rd.cmd)
      BY <1>5, <1>8, <3>1, AnswersFollow DEF Base
    <3>3. \A i \in DOMAIN o : IsAnswers(o[i]) => ~Final(o[i])
      <4> SUFFICES ASSUME NEW i \in DOMAIN o, IsAnswers(o[i]) PROVE ~Final(o[i])
        OBVIOUS
      <4>1. out \in Seq(Transfer)
        BY DEF Base
      <4>2. /\ DOMAIN o = 1..Len(out) + 1 /\ DOMAIN out = 1..Len(out) /\ Len(out) \in Nat
            /\ \A j \in DOMAIN out : o[j] = out[j]
            /\ o[Len(out) + 1] = <<data>>
        BY <1>8, <3>1, <4>1
      <4>3. i \notin DOMAIN out
        BY <1>5, <4>2 DEF NoAnswer
      <4>4. i = Len(out) + 1
        BY <4>2, <4>3
      <4> QED  BY <1>8, <4>2, <4>4
    <3> QED  BY <1>8, <2>3, <3>1, <3>2, <3>3, OutAppend
  <2> QED  BY <1>1, <2>1, <2>2, <2>3
<1>10. Answers("answer", rd.cmd, txQ, out')
  BY <1>5, <1>9, NoneOk DEF Answers
<1>11. AtReader("answer", rd.phase)
  BY <1>5 DEF AtReader
<1> QED  BY <1>2, <1>6, <1>7, <1>10, <1>11 DEF Token

LEMMA FailsExchange == ASSUME Base, Exchange, TransceiveFails PROVE Exchange'
<1>1. host' = [host EXCEPT !.busy = FALSE] /\ UNCHANGED <<rd, txQ, ep, urbs, out, torn>>
  BY DEF TransceiveFails
<1>2. host'.busy = FALSE /\ host'.ac = host.ac
  BY <1>1 DEF Base, HostType
<1> SUFFICES ASSUME NEW w \in Places, Token(w) PROVE Token(w)'
  BY <1>1, NotTorn
<1>3. AtHost(w, rd.cmd, host')
  BY <1>2 DEF Token, AtHost
<1> QED  BY <1>1, <1>2, <1>3 DEF Token

\* The end of the program loses what it had, and keeps the order of the rest.
LEMMA StoppedExchange ==
  ASSUME Base, Exchange, NEW o \in Seq(Transfer), Stopped(o),
         NoAnswer(out) => NoAnswer(o), \A c : OutOk(out, c) => OutOk(o, c),
         UNCHANGED <<rd, txQ, ep, torn>>
  PROVE  Exchange'
<1>1. PICK n \in 0..Len(o) : out' = SubSeq(o, 1, n)
  BY DEF Stopped
<1>2. urbs' = <<>> /\ host' = [host EXCEPT !.up = FALSE, !.busy = FALSE]
  BY DEF Stopped
<1>3. host'.busy = FALSE /\ host'.ac = host.ac
  BY <1>2 DEF Base, HostType
<1>4. (NoAnswer(out) => NoAnswer(out')) /\ (\A c : OutOk(out, c) => OutOk(out', c))
  BY <1>1, OutPrefix
<1> SUFFICES ASSUME NEW w \in Places, Token(w) PROVE Token(w)'
  BY NotTorn
<1>5. Clear(Arrived(urbs'))
  BY <1>2 DEF Clear, Arrived
<1>6. Way(w, rd.cmd, host.ac, ep["IN"].q, ep["IN"].busy, urbs')
  BY <1>5, ClearIs DEF Token, Way
<1>7. AtHost(w, rd.cmd, host')
  BY <1>3 DEF Token, AtHost
<1>8. Answers(w, rd.cmd, txQ, out')
  BY <1>4 DEF Token, Answers
<1> QED  BY <1>3, <1>6, <1>7, <1>8 DEF Token

LEMMA UnknownExchange == ASSUME Base, Exchange, ApduUnknown PROVE Exchange'
<1>1. Stopped(out) /\ UNCHANGED <<rd, txQ, ep, torn>>
  BY DEF ApduUnknown
<1>2. out \in Seq(Transfer)
  BY DEF Base
<1> QED  BY <1>1, <1>2, StoppedExchange

LEMMA SignalExchange == ASSUME Base, Exchange, SignalHandler PROVE Exchange'
<1>1. PICK t \in Transfer : t = <<Plain("SELECT_LOCAL")>> /\ t[1].k = "SELECT_LOCAL"
  BY PlainAre, TransfersAre DEF CmdKind
<1>2. ~IsAnswers(t)
  BY <1>1 DEF IsAnswers, TxKind
<1>3. PICK o : o = Append(out, t)
  OBVIOUS
<1>4. /\ o \in Seq(Transfer) /\ (NoAnswer(out) => NoAnswer(o))
      /\ \A c : OutOk(out, c) => OutOk(o, c)
  BY <1>2, <1>3, OutAppend DEF Base
<1>5. Stopped(o) /\ UNCHANGED <<rd, txQ, ep, torn>>
  BY <1>1, <1>3 DEF SignalHandler
<1> QED  BY <1>4, <1>5, StoppedExchange

LEMMA StartExchange == ASSUME Base, Exchange, HostStart PROVE Exchange'
<1>1. /\ host' = [up |-> TRUE, flags |-> {}, ac |-> NoAc, busy |-> FALSE] /\ out' = Startup
      /\ UNCHANGED <<rd, txQ, ep, urbs, torn>>
  BY DEF HostStart
<1>2. host'.busy = FALSE /\ host'.ac = NoAc
  BY <1>1
<1>3. NoAc.apduCase = 0
  BY DEF NoAc
<1> SUFFICES ASSUME NEW w \in Places, Token(w) PROVE Token(w)'
  BY <1>1, NotTorn
<1>4. KnownBy(NoAc, rd.cmd)
  BY <1>3 DEF KnownBy
<1>5. Way(w, rd.cmd, NoAc, ep["IN"].q, ep["IN"].busy, urbs)
  BY <1>4, WayKnown DEF Token
<1>6. AtHost(w, rd.cmd, host')
  BY <1>2, <1>4 DEF AtHost
<1>7. Answers(w, rd.cmd, txQ, out')
  BY <1>1, StartupOk, NoAnswerOk DEF Token, Answers
<1> QED  BY <1>1, <1>2, <1>5, <1>6, <1>7 DEF Token

\* The card takes over a transfer of answers, or its first commands; none are left behind it
\* when it is final.
LEMMA TxDataExchange == ASSUME Base, Exchange, DispatchTxData PROVE Exchange'
<1>1. PICK a \in Seq(Answer) : \E n \in 0..Len(a) :
           /\ out # <<>> /\ a = out[1] /\ a[1].k \in TxKind /\ out' = Tail(out)
           /\ txQ' = IF Ready THEN txQ \o SubSeq(a, 1, n) ELSE txQ
  BY TxDataIs
<1>2. PICK n \in 0..Len(a) :
           /\ out # <<>> /\ a = out[1] /\ a[1].k \in TxKind /\ out' = Tail(out)
           /\ txQ' = IF Ready THEN txQ \o SubSeq(a, 1, n) ELSE txQ
  BY <1>1
<1>3. UNCHANGED <<rd, ep, urbs, host, torn>>
  BY DEF DispatchTxData
<1> SUFFICES ASSUME NEW w \in Places, Token(w) PROVE Token(w)'
  BY <1>3, NotTorn
<1>4. out \in Seq(Transfer) /\ txQ \in Seq(Answer) /\ DOMAIN out = 1..Len(out) /\ 1 \in DOMAIN out
  BY <1>2 DEF Base, ReaderOk
<1>5. IsAnswers(out[1]) /\ ~NoAnswer(out)
  BY <1>2, <1>4 DEF IsAnswers, NoAnswer
<1>6. /\ OutOk(out, rd.cmd) /\ AnswersTo(txQ, rd.cmd) /\ ~Final(txQ) /\ w = "answer"
  BY <1>5 DEF Token, Answers
<1>7. /\ OutOk(out', rd.cmd) /\ AnswersTo(a, rd.cmd) /\ (Final(a) => NoAnswer(out'))
  BY <1>2, <1>4, <1>5, <1>6, OutTail
<1>8. /\ AnswersTo(txQ \o SubSeq(a, 1, n), rd.cmd)
      /\ Final(txQ \o SubSeq(a, 1, n)) => Final(a)
  BY <1>4, <1>6, <1>7, AnswersJoin
<1>9. Answers(w, rd.cmd, txQ', out')
  <2>1. CASE Ready
    BY <1>2, <1>6, <1>7, <1>8, <2>1 DEF Answers
  <2>2. CASE ~Ready
    BY <1>2, <1>6, <1>7, <2>2 DEF Answers
  <2> QED  BY <2>1, <2>2
<1> QED  BY <1>3, <1>9 DEF Token

LEMMA ConfigExchange == ASSUME Base, Exchange, DispatchConfig PROVE Exchange'
<1>1. PICK r \in Queue("IN") :
           /\ out # <<>> /\ out' = Tail(out)
           /\ ep'["IN"].q = r /\ ep'["IN"].busy = ep["IN"].busy
           /\ r = Submit(ep["IN"].q, Plain("CONFIG"))
  BY ConfigIs
<1>2. UNCHANGED <<rd, txQ, urbs, host, torn>>
  BY DEF DispatchConfig
<1> SUFFICES ASSUME NEW w \in Places, Token(w) PROVE Token(w)'
  BY <1>2, NotTorn
<1>3. Plain("CONFIG") \in MsgType /\ ~Tok(Plain("CONFIG"))
  BY PlainAre, NotTok DEF InMsg
<1>4. Path(r, "queue", w, rd.cmd, host.ac)
  BY <1>1, <1>3, SubmitPath, InSlots DEF Token, Way
<1>5. Way(w, rd.cmd, host.ac, r, ep["IN"].busy, urbs)
  BY <1>4 DEF Token, Way
<1>6. Answers(w, rd.cmd, txQ, out')
  <2>1. out \in Seq(Transfer)
    BY DEF Base
  <2> QED  BY <1>1, <2>1, OutTail DEF Token, Answers
<1> QED  BY <1>1, <1>2, <1>5, <1>6 DEF Token

LEMMA ExchangeNext == ASSUME Base, Exchange, [Next]_vars PROVE Exchange'
<1>1. CASE UNCHANGED vars
  BY <1>1 DEF vars, Exchange, Token
<1>2. CASE \E e \in Endpoint : UsbRefillToHost(e)
  BY <1>2, RefillExchange
<1>3. CASE \E e \in Endpoint : UsbComplete(e)
  BY <1>3, CompleteExchange
<1> QED  BY <1>1, <1>2, <1>3, LineChangeExchange, HeaderExchange, BodyExchange, AtrExchange,
         TxExchange, TxDataExchange, ConfigExchange, SelectExchange, StatusExchange,
         RxDataExchange, TransceiveExchange, FailsExchange, UnknownExchange, SignalExchange,
         StartExchange DEF Next, ReaderStep, FirmwareStep, HostStep

LEMMA ExchangeInit == Init => Exchange
<1> SUFFICES ASSUME Init PROVE Token("none")
  BY DEF Exchange, Places
<1>1. ep["IN"].q = <<>> /\ ep["IN"].busy = NoMsg /\ urbs = <<>> /\ txQ = <<>> /\ out = Startup
      /\ ~host.busy /\ rd.phase = "off"
  BY CarriedIs DEF Init
<1>2. Empty(<<>>, NoMsg, <<>>)
  BY NotTok DEF Empty, Clear, Arrived
<1>3. Way("none", rd.cmd, host.ac, <<>>, NoMsg, <<>>)
  BY <1>2, WayEmpty
<1>4. AtHost("none", rd.cmd, host) /\ AtReader("none", rd.phase)
  BY <1>1 DEF AtHost, AtReader
<1>5. Answers("none", rd.cmd, <<>>, Startup)
  BY StartupOk, NoneAnswered
<1> QED  BY <1>1, <1>3, <1>4, <1>5 DEF Token

\* In a session that began with nothing of the last one under way, every answer on its
\* way to the reader is one to its present command, and the reader is waiting for it:
\* never is more than one thing under way for a command.
THEOREM AnswersDue == Spec => []AnswersAreDue
<1>1. Init => Base /\ Exchange
  BY BaseInit, ExchangeInit
<1>2. Base /\ Exchange /\ [Next]_vars => (Base /\ Exchange)'
  BY BaseNext, ExchangeNext
<1>3. Base /\ Exchange => AnswersAreDue
  <2> SUFFICES ASSUME Base, Exchange, ~torn,
                      NEW m \in ToSet(txQ) \cup UNION {ToSet(t) : t \in ToSet(out)}, m.k \in TxKind
               PROVE  m.cmd = rd.cmd /\ rd.phase \in {"wait", "body"}
    BY DEF AnswersAreDue
  <2>1. PICK w \in Places : Token(w)
    BY DEF Exchange
  <2>2. OutOk(out, rd.cmd) /\ AnswersTo(txQ, rd.cmd) /\ (w = "answer" \/ (txQ = <<>> /\ NoAnswer(out)))
    BY <2>1 DEF Token, Answers
  <2>3. rd.phase \in {"off", "idle", "wait", "body"} /\ (w = "answer" => rd.phase = "wait")
    BY <2>1 DEF Token, AtReader, Base, ReaderOk, RdType
  <2>4. CASE m \in ToSet(txQ)
    <3>1. PICK i \in DOMAIN txQ : m = txQ[i]
      BY <2>4 DEF ToSet
    <3>2. m.cmd = rd.cmd
      BY <2>2, <3>1 DEF AnswersTo
    <3>3. txQ # <<>>
      BY <3>1
    <3> QED  BY <2>2, <2>3, <3>2, <3>3
  <2>5. CASE \E i \in DOMAIN out : m \in ToSet(out[i])
    <3>1. PICK i \in DOMAIN out : m \in ToSet(out[i])
      BY <2>5
    <3>2. PICK j \in DOMAIN out[i] : m = out[i][j]
      BY <3>1 DEF ToSet
    <3>3. PICK t \in Transfer : t = out[i]
      BY DEF Base
    <3>4. IsAnswers(t)
      <4>1. t[1].k \notin TxKind => Len(t) = 1 /\ DOMAIN t = 1..Len(t) /\ t[1] \in Request
        BY TransferIs
      <4>2. t[1].k \notin TxKind => j = 1
        BY <3>2, <3>3, <4>1
      <4> QED  BY <3>2, <3>3, <4>2 DEF IsAnswers
    <3>5. AnswersTo(t, rd.cmd) /\ ~NoAnswer(out)
      BY <2>2, <3>3, <3>4 DEF OutOk, NoAnswer
    <3>6. m.cmd = rd.cmd
      BY <3>2, <3>3, <3>5 DEF AnswersTo
    <3> QED  BY <2>2, <2>3, <3>5, <3>6
  <2> QED  BY <2>4, <2>5 DEF ToSet
<1> QED  BY <1>1, <1>2, <1>3, PTL DEF Spec

=============================================================================
