-------------------------- MODULE Activation_proofs --------------------------
(***************************************************************************)
(* The activation cache, for any workers, number of messages, writes and   *)
(* failures.                                                               *)
(*                                                                         *)
(* As long as no append has slipped into an erased stream, the version of  *)
(* a contents tells the contents: the log never had two of one version.    *)
(* So the guard, which compares versions, compares contents, and an entry  *)
(* of the version a promotion was folded from is what it was folded from.  *)
(***************************************************************************)
EXTENDS Activation, Integers, WellFoundedInduction, TLAPS

Bounded(rows) == \E n \in Nat : \A r \in rows : r[1] <= n
Contents == {rows \in Rows : Bounded(rows)}

\* A delivery folds over rows of a stream, and promotes a row of one.
HandOK(d) ==
  /\ d.fold \in Contents
  /\ d.at \in {"promote", "put"} => d.row \in (Nat \ {0}) \X Nat

TypeInv ==
  /\ ActivationTypeOK
  /\ log \in Contents
  /\ past \subseteq Contents
  /\ held \subseteq Contents
  /\ \A w \in Workers : HandOK(delivery[w])

LogIsNewest ==
  /\ log \in past
  /\ \A x, y \in past : Version(x) = Version(y) => x = y
  /\ log # {} => \A x \in past : Version(x) <= Version(log)
  /\ log \notin obsolete

HeldIsRight ==
  /\ held \subseteq past
  /\ raced \/ held \intersect obsolete = {}

\* What a delivery has in hand, by the step it is at.
InHand(w, d) ==
  /\ d.at \in Deciding => log \in d.seen
  /\ d.at \in {"fill", "guard", "flush"} => d.fold \in past
  /\ d.at \in {"fill", "flush"} \/ (d.at = "guard" /\ ~d.served) => d.fold \in d.seen
  /\ d.at = "fill" /\ w \notin behind => d.fold \notin obsolete
  /\ d.at = "promote" =>
       /\ d.fold \in past
       /\ d.fold # {}
       /\ d.fold \union {d.row} \in past
       /\ Version(d.fold \union {d.row}) = Version(d.fold) + 1
       /\ d.fold \union {d.row} \in obsolete => d.fold \in obsolete
  /\ d.at = "put" =>
       /\ d.fold \union {d.row} \in past
       /\ raced \/ w \in behind \/ d.fold \union {d.row} \notin obsolete

DeliveryIsRight(w) == InHand(w, delivery[w])

Right == LogIsNewest /\ HeldIsRight /\ \A w \in Workers : DeliveryIsRight(w)

Inv == TypeInv /\ (gapped \/ Right)

-----------------------------------------------------------------------------
(***************************************************************************)
(* Least and greatest elements of sets of naturals, from the               *)
(* well-foundedness of < alone.                                            *)
(***************************************************************************)
\* A set of naturals that is not empty has a least element.
LEMMA MinExists ==
  ASSUME NEW T, T \subseteq Nat, T # {}
  PROVE  \E x \in T : \A y \in T : x <= y
<1> DEFINE R == OpToRel(<, Nat)
<1>1. IsWellFoundedOn(R, Nat)
  BY NatLessThanWellFounded
<1> HIDE DEF R
<1>2. PICK x \in T : \A y \in T : ~ (<<y, x>> \in R)
  BY <1>1, WFMin
<1>3. \A y \in T : y < x => <<y, x>> \in R
  BY DEF R, OpToRel
<1>4. \A y \in T : ~ (y < x)
  BY <1>2, <1>3
<1>5. \A y \in T : x <= y
  BY <1>4
<1> QED BY <1>5

\* If it is also bounded, it has a greatest one: the least distance from the
\* bound.
LEMMA MaxExists ==
  ASSUME NEW n \in Nat, NEW T, T \subseteq 0 .. n, T # {}
  PROVE  \E x \in T : \A y \in T : y <= x
<1> DEFINE U == {k \in 0 .. n : n - k \in T}
<1>1. PICK t \in T : TRUE
  OBVIOUS
<1>2. U \subseteq Nat /\ n - t \in U
  OBVIOUS
<1>3. PICK u \in U : \A v \in U : u <= v
  <2> HIDE DEF U
  <2> QED BY <1>2, MinExists
<1>4. \A y \in T : n - y \in U
  OBVIOUS
<1>5. \A y \in T : y <= n - u
  BY <1>3, <1>4
<1> QED BY <1>3, <1>5

-----------------------------------------------------------------------------
(***************************************************************************)
(* Versions.                                                               *)
(***************************************************************************)

\* MAX(version) of the rows of a stream.
LEMMA VersionOf ==
  ASSUME NEW rows \in Contents
  PROVE  /\ Version(rows) \in Nat
         /\ \A r \in rows : r[1] <= Version(rows)
         /\ rows = {} => Version(rows) = 0
         /\ rows # {} => Version(rows) > 0 /\ \E r \in rows : r[1] = Version(rows)
<1> DEFINE T == {r[1] : r \in rows}
<1>1. \A r \in rows : r[1] \in Nat \ {0}
  BY DEF Contents, Rows
<1>2. CASE rows = {}
  BY <1>2 DEF Version
<1>3. CASE rows # {}
  <2>1. PICK n \in Nat : \A r \in rows : r[1] <= n
    BY DEF Contents, Bounded
  <2>2. T \subseteq 0 .. n /\ T # {}
    BY <1>1, <1>3, <2>1
  <2>3. \E x \in T : \A y \in T : y <= x
    <3> HIDE DEF T
    <3> QED BY <2>2, MaxExists
  <2>4. \E x \in T : \A y \in T : x >= y
    BY <2>2, <2>3
  <2>5. Max(T) \in T /\ \A y \in T : Max(T) >= y
    <3> HIDE DEF T
    <3> QED BY <2>4 DEF Max
  <2>6. Version(rows) = Max(T)
    BY <1>3 DEF Version
  <2>7. PICK r \in rows : r[1] = Max(T)
    BY <2>5
  <2>8. Max(T) \in Nat \ {0}
    BY <1>1, <2>7
  <2>9. \A q \in rows : q[1] <= Max(T)
    <3> SUFFICES ASSUME NEW q \in rows PROVE q[1] <= Max(T)
      OBVIOUS
    <3>1. q[1] \in T
      OBVIOUS
    <3>2. Max(T) >= q[1]
      BY <2>5, <3>1
    <3> QED BY <1>1, <2>8, <3>2
  <2> HIDE DEF T
  <2> QED BY <1>3, <2>6, <2>7, <2>8, <2>9
<1> QED BY <1>2, <1>3

\* A row of a higher version makes a contents of that version.
LEMMA Grown ==
  ASSUME NEW rows \in Contents, NEW n \in Nat, n > Version(rows), NEW i \in Nat
  PROVE  /\ rows \union {<<n, i>>} \in Contents
         /\ Version(rows \union {<<n, i>>}) = n
<1> DEFINE grown == rows \union {<<n, i>>}
<1>1. Version(rows) \in Nat /\ \A r \in rows : r[1] <= Version(rows)
  BY VersionOf
<1>2. n \in Nat \ {0} /\ \A r \in grown : r[1] <= n
  <2>1. \A r \in rows : r[1] \in Nat
    BY DEF Contents, Rows
  <2> QED BY <1>1, <2>1
<1>3. grown \in Contents
  BY <1>2 DEF Contents, Bounded, Rows
<1>4. grown # {} /\ <<n, i>> \in grown
  OBVIOUS
<1>5. /\ Version(grown) \in Nat
      /\ n <= Version(grown)
      /\ \E r \in grown : r[1] = Version(grown)
  <2> HIDE DEF grown
  <2>1. <<n, i>>[1] = n
    OBVIOUS
  <2> QED BY <1>3, <1>4, <2>1, VersionOf
<1>6. Version(grown) <= n
  BY <1>2, <1>5
<1> QED BY <1>3, <1>5, <1>6

\* Any row keeps a contents one.
LEMMA WithRow ==
  ASSUME NEW rows \in Contents, NEW r \in (Nat \ {0}) \X Nat
  PROVE  rows \union {r} \in Contents
<1>1. PICK n \in Nat : \A q \in rows : q[1] <= n
  BY DEF Contents, Bounded
<1>2. r[1] \in Nat /\ \A q \in rows : q[1] \in Nat
  BY DEF Contents, Rows
<1>3. \A q \in rows \union {r} : q[1] <= n + r[1]
  BY <1>1, <1>2
<1>4. n + r[1] \in Nat
  BY <1>2
<1>5. rows \union {r} \in Rows
  BY DEF Contents, Rows
<1> QED BY <1>3, <1>4, <1>5 DEF Contents, Bounded

-----------------------------------------------------------------------------
(***************************************************************************)
(* Types.                                                                  *)
(***************************************************************************)
LEMMA IdleOK == IdleDelivery \in Delivery /\ HandOK(IdleDelivery)
<1>1. {} \in Contents
  BY DEF Contents, Bounded, Rows
<1>2. /\ IdleDelivery.fold = {}
      /\ IdleDelivery.at = "idle"
      /\ IdleDelivery \in Delivery
  BY DEF IdleDelivery, Delivery, DeliverySteps, Deciding, NoRow, Rows
<1> QED BY <1>1, <1>2 DEF HandOK

LEMMA InitTypes == ActivationInit => TypeInv
<1> SUFFICES ASSUME ActivationInit PROVE TypeInv
  OBVIOUS
<1>3. {<<1, 1>>} \in Contents
  <2>1. {<<1, 1>>} \in Rows
    BY DEF Rows
  <2>2. \A r \in {<<1, 1>>} : r[1] <= 1
    OBVIOUS
  <2> QED BY <2>1, <2>2 DEF Contents, Bounded
<1>4. IdleDelivery \in Delivery /\ HandOK(IdleDelivery)
  BY IdleOK
<1>5. delivery \in [Workers -> Delivery] /\ \A w \in Workers : HandOK(delivery[w])
  BY <1>4 DEF ActivationInit
<1>6. log \in Contents /\ past = {log} /\ held = {} /\ obsolete = {} /\ behind = {}
  BY <1>3 DEF ActivationInit
<1>7. ActivationTypeOK
  <2>1. log \in Rows /\ past \in SUBSET Rows /\ obsolete \in SUBSET Rows /\ held \in SUBSET Rows
    BY <1>6 DEF Contents
  <2>2. behind \in SUBSET Workers /\ \A x, y \in held : x = y
    BY <1>6
  <2>3. /\ owner \in Workers \union {NoWorker}
        /\ believing \in SUBSET Workers
        /\ answered \in Nat
        /\ {written, troubles} \subseteq Nat
    BY DEF ActivationInit
  <2>4. announcing \in BOOLEAN /\ gapped \in BOOLEAN /\ raced \in BOOLEAN
    BY Zenon DEF ActivationInit
  <2> QED BY <1>5, <2>1, <2>2, <2>3, <2>4 DEF ActivationTypeOK
<1> QED BY <1>3, <1>5, <1>6, <1>7 DEF TypeInv

\* A delivery that takes a step keeps the types of deliveries.
LEMMA BecomeTypes ==
  ASSUME TypeInv, NEW w \in Workers, NEW d \in Delivery, HandOK(d), Become(w, d)
  PROVE  /\ delivery' \in [Workers -> Delivery]
         /\ \A v \in Workers : HandOK(delivery'[v])
  BY DEF TypeInv, ActivationTypeOK, Become

LEMMA GoToTypes ==
  ASSUME TypeInv, NEW w \in Workers, NEW step \in Deciding, GoTo(w, step)
  PROVE  /\ delivery' \in [Workers -> Delivery]
         /\ \A v \in Workers : HandOK(delivery'[v])
<1> DEFINE d == [delivery[w] EXCEPT !.at = step]
<1>1. d \in Delivery /\ d.fold = delivery[w].fold /\ d.at = step
  BY DEF TypeInv, ActivationTypeOK, Delivery, DeliverySteps
<1>2. HandOK(d)
  <2>1. step \notin {"promote", "put"}
    BY DEF Deciding
  <2> QED BY <1>1, <2>1 DEF TypeInv, HandOK
<1>3. Become(w, d)
  BY DEF GoTo
<1> QED BY <1>1, <1>2, <1>3, BecomeTypes

LEMMA AbortTypes ==
  ASSUME TypeInv, NEW w \in Workers, Abort(w)
  PROVE  /\ delivery' \in [Workers -> Delivery]
         /\ \A v \in Workers : HandOK(delivery'[v])
  BY IdleOK, BecomeTypes DEF Abort

LEMMA InvalidateTypes ==
  ASSUME TypeInv, Invalidate, UNCHANGED <<log, past>>
  PROVE  /\ held' = {}
         /\ behind' \in SUBSET Workers
         /\ obsolete' \in SUBSET Rows
         /\ raced' = raced
  BY DEF TypeInv, ActivationTypeOK, Invalidate

\* What others saw of the log does not change what they hold.
LEMMA WitnessTypes ==
  ASSUME NEW rows \in Rows, NEW D \in [Workers -> Delivery], Witness(rows, D),
         \A v \in Workers : HandOK(D[v])
  PROVE  /\ delivery' \in [Workers -> Delivery]
         /\ \A v \in Workers : /\ HandOK(delivery'[v])
                               /\ delivery'[v].fold = D[v].fold
                               /\ delivery'[v].row = D[v].row
                               /\ delivery'[v].at = D[v].at
                               /\ delivery'[v].served = D[v].served
                               /\ delivery'[v].seen
                                    = IF D[v].at \in Deciding THEN D[v].seen \union {rows} ELSE {}
<1> DEFINE S(v) == IF D[v].at \in Deciding THEN D[v].seen \union {rows} ELSE {}
<1>1. \A v \in Workers : S(v) \in SUBSET Rows
  BY DEF Delivery
<1>2. delivery' = [v \in Workers |-> [D[v] EXCEPT !.seen = S(v)]]
  BY DEF Witness
<1>3. \A v \in Workers : delivery'[v] = [D[v] EXCEPT !.seen = S(v)]
  BY <1>2
<1> HIDE DEF S
<1>4. \A v \in Workers :
        /\ [D[v] EXCEPT !.seen = S(v)] \in Delivery
        /\ [D[v] EXCEPT !.seen = S(v)].fold = D[v].fold
        /\ [D[v] EXCEPT !.seen = S(v)].row = D[v].row
        /\ [D[v] EXCEPT !.seen = S(v)].at = D[v].at
        /\ [D[v] EXCEPT !.seen = S(v)].served = D[v].served
        /\ [D[v] EXCEPT !.seen = S(v)].seen = S(v)
  BY <1>1 DEF Delivery
<1>5. delivery' \in [Workers -> Delivery]
  BY <1>2, <1>4
<1>6. \A v \in Workers : HandOK(delivery'[v])
  BY <1>3, <1>4 DEF HandOK
<1> QED BY <1>3, <1>4, <1>5, <1>6 DEF S

\* The types, given those of the variables an action has a say in.
LEMMA TypesFrom ==
  ASSUME TypeInv,
         log' \in Contents,
         past' \subseteq past \union {log'},
         obsolete' \in SUBSET Rows,
         held' \subseteq Contents,
         \A x, y \in held' : x = y,
         behind' \in SUBSET Workers,
         owner' \in Workers \union {NoWorker},
         believing' \in SUBSET Workers,
         delivery' \in [Workers -> Delivery],
         \A w \in Workers : HandOK(delivery'[w]),
         {answered', written', troubles'} \subseteq Nat,
         announcing' \in BOOLEAN, gapped' \in BOOLEAN, raced' \in BOOLEAN
  PROVE  TypeInv'
<1>1. past' \subseteq Contents
  BY DEF TypeInv
<1>2. log' \in Rows /\ past' \in SUBSET Rows /\ held' \in SUBSET Rows
  BY <1>1 DEF Contents
<1>3. Contents' = Contents
  BY DEF Contents, Bounded, Rows
<1> QED BY <1>1, <1>2, <1>3 DEF TypeInv, ActivationTypeOK

\* The same for an action that leaves the log alone.
LEMMA TypesOverLog ==
  ASSUME TypeInv,
         UNCHANGED logVars,
         obsolete' \in SUBSET Rows,
         held' \subseteq Contents,
         \A x, y \in held' : x = y,
         behind' \in SUBSET Workers,
         owner' \in Workers \union {NoWorker},
         believing' \in SUBSET Workers,
         delivery' \in [Workers -> Delivery],
         \A w \in Workers : HandOK(delivery'[w]),
         {answered', troubles'} \subseteq Nat,
         announcing' \in BOOLEAN, raced' \in BOOLEAN
  PROVE  TypeInv'
<1>1. log' \in Contents /\ past' \subseteq past \union {log'}
  BY DEF TypeInv, logVars
<1>2. written' \in Nat /\ gapped' \in BOOLEAN
  BY DEF TypeInv, ActivationTypeOK, logVars
<1> QED BY <1>1, <1>2, TypesFrom

\* The current types, for the actions to pick from.
LEMMA Types ==
  ASSUME TypeInv
  PROVE  /\ log \in Contents /\ past \subseteq Contents /\ held \subseteq Contents
         /\ log \in Rows /\ past \in SUBSET Rows /\ obsolete \in SUBSET Rows
         /\ \A x, y \in held : x = y
         /\ behind \in SUBSET Workers
         /\ owner \in Workers \union {NoWorker}
         /\ believing \in SUBSET Workers
         /\ delivery \in [Workers -> Delivery]
         /\ \A w \in Workers : HandOK(delivery[w])
         /\ answered \in Nat /\ written \in Nat /\ troubles \in Nat
         /\ announcing \in BOOLEAN /\ gapped \in BOOLEAN /\ raced \in BOOLEAN
  BY DEF TypeInv, ActivationTypeOK

\* The lane, the cache and the trouble count of an action that moves one
\* delivery and commits nothing.
LEMMA DeliveryTypes ==
  ASSUME TypeInv, NEW w \in Workers,
         \/ Begin(w) \/ Load(w) \/ ReadLog(w) \/ Fill(w) \/ Guard(w)
         \/ CommitVerdict(w) \/ Conflict(w) \/ CommitRefused(w) \/ Promote(w) \/ Put(w)
  PROVE  TypeInv'
<1> USE Types
<1>1. CASE Begin(w)
  <2> DEFINE d == [IdleDelivery EXCEPT !.at = "load", !.message = answered + 1, !.seen = {log}]
  <2>1. d \in Delivery /\ HandOK(d)
    <3>1. IdleDelivery \in Delivery /\ {log} \in SUBSET Rows /\ answered + 1 \in Nat
      BY IdleOK
    <3>2. d \in Delivery /\ d.fold = IdleDelivery.fold /\ d.at = "load"
      BY <3>1 DEF Delivery, DeliverySteps, Deciding
    <3> HIDE DEF d
    <3> QED BY <3>2, IdleOK DEF HandOK
  <2>2. Become(w, d)
    BY <1>1 DEF Begin
  <2>3. /\ delivery' \in [Workers -> Delivery]
        /\ \A v \in Workers : HandOK(delivery'[v])
    <3> HIDE DEF d
    <3> QED BY <2>1, <2>2, BecomeTypes
  <2> QED BY <1>1, <2>3, TypesOverLog DEF Begin, cacheVars, laneVars
<1>2. CASE Load(w)
  <2>1. /\ delivery' \in [Workers -> Delivery]
        /\ \A v \in Workers : HandOK(delivery'[v])
    <3>1. ASSUME NEW rows \in held,
                 Become(w, [delivery[w] EXCEPT !.at = "guard", !.fold = rows, !.served = TRUE])
          PROVE  /\ delivery' \in [Workers -> Delivery]
                 /\ \A v \in Workers : HandOK(delivery'[v])
      <4> DEFINE d == [delivery[w] EXCEPT !.at = "guard", !.fold = rows, !.served = TRUE]
      <4>1. rows \in Contents /\ rows \in Rows
        BY DEF Contents
      <4>2. d \in Delivery /\ d.fold = rows /\ d.at = "guard"
        BY <4>1 DEF Delivery, DeliverySteps, Deciding
      <4> HIDE DEF d
      <4>3. Become(w, d)
        BY <3>1 DEF d
      <4> QED BY <4>1, <4>2, <4>3, BecomeTypes DEF HandOK
    <3>2. ASSUME GoTo(w, "read")
          PROVE  /\ delivery' \in [Workers -> Delivery]
                 /\ \A v \in Workers : HandOK(delivery'[v])
      BY <3>2, GoToTypes DEF Deciding
    <3> QED BY <1>2, <3>1, <3>2 DEF Load
  <2> QED BY <1>2, <2>1, TypesOverLog DEF Load, cacheVars, laneVars
<1>3. CASE ReadLog(w)
  <2> DEFINE d == [delivery[w] EXCEPT !.at = "fill", !.fold = log]
  <2>1. d \in Delivery /\ HandOK(d)
    <3>1. d \in Delivery /\ d.fold = log /\ d.at = "fill"
      BY DEF Delivery, DeliverySteps, Deciding
    <3> HIDE DEF d
    <3> QED BY <3>1 DEF HandOK
  <2>2. Become(w, d)
    BY <1>3 DEF ReadLog
  <2>3. /\ delivery' \in [Workers -> Delivery]
        /\ \A v \in Workers : HandOK(delivery'[v])
    <3> HIDE DEF d
    <3> QED BY <2>1, <2>2, BecomeTypes
  <2> QED BY <1>3, <2>3, TypesOverLog DEF ReadLog, cacheVars, laneVars
<1>4. CASE Fill(w)
  <2>1. /\ delivery' \in [Workers -> Delivery]
        /\ \A v \in Workers : HandOK(delivery'[v])
    BY <1>4, GoToTypes DEF Fill, Deciding
  <2>2. held' \subseteq Contents /\ \A x, y \in held' : x = y
    BY <1>4 DEF Fill, HandOK
  <2>3. behind' \in SUBSET Workers
    BY <1>4 DEF Fill
  <2> QED BY <1>4, <2>1, <2>2, <2>3, TypesOverLog DEF Fill, laneVars
<1>5. ASSUME Abort(w) /\ Invalidate, UNCHANGED <<logVars, answered, announcing, troubles>>,
             owner' \in Workers \union {NoWorker}, believing' \in SUBSET Workers
      PROVE  TypeInv'
  <2>1. UNCHANGED <<log, past>>
    BY <1>5 DEF logVars
  <2>2. held' = {} /\ behind' \in SUBSET Workers /\ obsolete' \in SUBSET Rows /\ raced' = raced
    BY <1>5, <2>1, InvalidateTypes
  <2>3. held' \subseteq Contents /\ \A x, y \in held' : x = y
    BY <2>2
  <2>4. /\ delivery' \in [Workers -> Delivery]
        /\ \A v \in Workers : HandOK(delivery'[v])
    BY <1>5, AbortTypes
  <2> QED BY <1>5, <2>2, <2>3, <2>4, TypesOverLog
<1>6. CASE Guard(w)
  <2>1. CASE Stale(w)
    BY <1>5, <1>6, <2>1 DEF Guard, laneVars
  <2>2. CASE ~Stale(w)
    <3>1. /\ delivery' \in [Workers -> Delivery]
          /\ \A v \in Workers : HandOK(delivery'[v])
      BY <1>6, <2>2, GoToTypes DEF Guard, Deciding
    <3> QED BY <1>6, <2>2, <3>1, TypesOverLog DEF Guard, cacheVars, laneVars
  <2> QED BY <2>1, <2>2
<1>7. CASE CommitVerdict(w)
  <2>1. /\ delivery' \in [Workers -> Delivery]
        /\ \A v \in Workers : HandOK(delivery'[v])
    BY <1>7, AbortTypes DEF CommitVerdict
  <2> QED BY <1>7, <2>1, TypesOverLog DEF CommitVerdict, cacheVars, laneVars
<1>8. CASE Conflict(w)
  BY <1>5, <1>8 DEF Conflict, laneVars
<1>9. CASE CommitRefused(w)
  BY <1>5, <1>9 DEF CommitRefused, DropLane
<1>10. CASE Promote(w)
  <2>1. CASE Abort(w) /\ UNCHANGED <<cacheVars, obsolete>>
    <3>1. /\ delivery' \in [Workers -> Delivery]
          /\ \A v \in Workers : HandOK(delivery'[v])
      BY <2>1, AbortTypes
    <3> QED BY <1>10, <2>1, <3>1, TypesOverLog DEF Promote, cacheVars, laneVars
  <2>2. CASE Abort(w) /\ Invalidate
    BY <1>5, <1>10, <2>2 DEF Promote, laneVars
  <2>3. ASSUME NEW rows \in held, Extend(w, rows), UNCHANGED <<cacheVars, obsolete>>
        PROVE  TypeInv'
    <3> DEFINE d == [delivery[w] EXCEPT !.at = "put", !.fold = rows]
    <3>1. rows \in Contents /\ rows \in Rows
      BY DEF Contents
    <3>2. d \in Delivery /\ HandOK(d)
      <4>1. d \in Delivery /\ d.fold = rows /\ d.row = delivery[w].row
        BY <3>1 DEF Delivery, DeliverySteps, Deciding
      <4>2. delivery[w].row \in (Nat \ {0}) \X Nat
        BY <1>10 DEF Promote, At, HandOK
      <4> HIDE DEF d
      <4> QED BY <3>1, <4>1, <4>2 DEF HandOK
    <3>3. Become(w, d)
      BY <2>3 DEF Extend
    <3>4. /\ delivery' \in [Workers -> Delivery]
          /\ \A v \in Workers : HandOK(delivery'[v])
      <4> HIDE DEF d
      <4> QED BY <3>1, <3>2, <3>3, BecomeTypes
    <3> QED BY <1>10, <2>3, <3>4, TypesOverLog DEF Promote, cacheVars, laneVars
  <2> QED BY <1>10, <2>1, <2>2, <2>3 DEF Promote
<1>11. CASE Put(w)
  <2>1. delivery[w].fold \union {delivery[w].row} \in Contents
    BY <1>11, WithRow DEF Put, At, HandOK
  <2>2. held' \subseteq Contents /\ \A x, y \in held' : x = y
    BY <1>11, <2>1 DEF Put
  <2>3. /\ delivery' \in [Workers -> Delivery]
        /\ \A v \in Workers : HandOK(delivery'[v])
    BY <1>11, AbortTypes DEF Put
  <2> QED BY <1>11, <2>2, <2>3, TypesOverLog DEF Put, laneVars
<1> QED BY <1>1, <1>2, <1>3, <1>4, <1>6, <1>7, <1>8, <1>9, <1>10, <1>11

\* What is written to the log are rows of streams.
LEMMA StoreTypes ==
  ASSUME TypeInv, NEW rows \in Contents, Store(rows)
  PROVE  /\ log' \in Contents
         /\ past' \subseteq past \union {log'}
         /\ obsolete' \in SUBSET Rows
  BY Types DEF Store

LEMMA LogTypes ==
  ASSUME TypeInv, OutsideAppend \/ Erase
  PROVE  TypeInv'
<1> USE Types
<1>1. ASSUME NEW rows \in Contents, Store(rows), Witness(rows, delivery),
             UNCHANGED <<gapped, cacheVars, laneVars, answered>>,
             {written', troubles'} \subseteq Nat, announcing' \in BOOLEAN
      PROVE  TypeInv'
  <2>1. /\ log' \in Contents
        /\ past' \subseteq past \union {log'}
        /\ obsolete' \in SUBSET Rows
    BY <1>1, StoreTypes
  <2>2. rows \in Rows
    BY DEF Contents
  <2>3. /\ delivery' \in [Workers -> Delivery]
        /\ \A v \in Workers : HandOK(delivery'[v])
    BY <1>1, <2>2, WitnessTypes
  <2> QED BY <1>1, <2>1, <2>3, TypesFrom DEF cacheVars, laneVars
<1>2. CASE OutsideAppend
  <2> DEFINE rows == log \union {NewRow(Version(log) + 1)}
  <2>1. Version(log) \in Nat /\ Version(log) + 1 > Version(log) /\ written + 1 \in Nat
    BY VersionOf
  <2>2. rows \in Contents
    <3>1. NewRow(Version(log) + 1) \in (Nat \ {0}) \X Nat
      BY <2>1 DEF NewRow
    <3>2. log \in Contents
      BY DEF TypeInv
    <3> QED BY <3>1, <3>2, WithRow
  <2>3. Store(rows) /\ log' = rows /\ Witness(rows, delivery)
    BY <1>2 DEF OutsideAppend, Store
  <2>4. announcing' \in BOOLEAN
    BY <1>2 DEF OutsideAppend
  <2>5. {written', troubles'} \subseteq Nat
    BY <1>2 DEF OutsideAppend
  <2> HIDE DEF rows
  <2> QED BY <1>1, <1>2, <2>2, <2>3, <2>4, <2>5 DEF OutsideAppend
<1>3. CASE Erase
  <2>1. {} \in Contents
    BY DEF Contents, Bounded, Rows
  <2>2. announcing' \in BOOLEAN
    BY <1>3 DEF Erase
  <2>3. {written', troubles'} \subseteq Nat
    BY <1>3 DEF Erase, Trouble
  <2> QED BY <1>1, <1>3, <2>1, <2>2, <2>3 DEF Erase
<1> QED BY <1>2, <1>3

\* The delivery of a commit, which goes on to promote the row it wrote.
Committed(w) ==
  [IdleDelivery EXCEPT !.at = "promote", !.fold = delivery[w].fold, !.row = NewRow(NextVersion(w))]

LEMMA CommittedOK ==
  ASSUME TypeInv, NEW w \in Workers
  PROVE  /\ Committed(w) \in Delivery
         /\ HandOK(Committed(w))
         /\ Committed(w).at = "promote"
         /\ Committed(w).fold = delivery[w].fold
         /\ Committed(w).row = <<Version(delivery[w].fold) + 1, written + 1>>
<1>1. delivery[w].fold \in Contents /\ delivery[w].fold \in Rows
  BY DEF TypeInv, HandOK, Contents
<1>2. Version(delivery[w].fold) \in Nat
  BY <1>1, VersionOf
<1>3. NewRow(NextVersion(w)) = <<Version(delivery[w].fold) + 1, written + 1>>
  BY DEF NewRow, NextVersion
<1>4. NewRow(NextVersion(w)) \in (Nat \ {0}) \X Nat
  BY <1>2, <1>3, Types
<1>5. NewRow(NextVersion(w)) \in Nat \X Nat
  BY <1>4
<1>6. /\ Committed(w) \in Delivery
      /\ Committed(w).at = "promote"
      /\ Committed(w).fold = delivery[w].fold
      /\ Committed(w).row = NewRow(NextVersion(w))
  BY <1>1, <1>5, IdleOK DEF Committed, Delivery, DeliverySteps
<1>7. HandOK(Committed(w))
  BY <1>1, <1>4, <1>6 DEF HandOK
<1> QED BY <1>3, <1>6, <1>7

LEMMA CommitEventTypes ==
  ASSUME TypeInv, NEW w \in Workers, CommitEvent(w)
  PROVE  TypeInv'
<1> DEFINE rows == log \union {NewRow(NextVersion(w))}
           D == [delivery EXCEPT ![w] = Committed(w)]
<1> USE Types
<1>1. Store(rows) /\ log' = rows /\ Witness(rows, D)
  BY DEF CommitEvent, Store, Committed
<1>2. NewRow(NextVersion(w)) \in (Nat \ {0}) \X Nat
  BY CommittedOK DEF HandOK, Committed, NewRow, NextVersion
<1>3. rows \in Contents /\ rows \in Rows
  BY <1>2, WithRow DEF Contents
<1>4. D \in [Workers -> Delivery] /\ \A v \in Workers : HandOK(D[v])
  BY CommittedOK
<1>5. /\ delivery' \in [Workers -> Delivery]
      /\ \A v \in Workers : HandOK(delivery'[v])
  <2> HIDE DEF rows, D
  <2> QED BY <1>1, <1>3, <1>4, WitnessTypes
<1>6. /\ log' \in Contents
      /\ past' \subseteq past \union {log'}
      /\ obsolete' \in SUBSET Rows
  <2> HIDE DEF rows
  <2> QED BY <1>1, <1>3, StoreTypes
<1>7. gapped' \in BOOLEAN
  BY DEF CommitEvent
<1>8. {answered', written', troubles'} \subseteq Nat
  BY DEF CommitEvent
<1> HIDE DEF rows, D
<1> QED BY <1>5, <1>6, <1>7, <1>8, TypesFrom DEF CommitEvent, cacheVars, laneVars

LEMMA LaneTypes ==
  ASSUME TypeInv,
         \/ \E w \in Workers : Claim(w) \/ Notice(w) \/ Fault(w)
         \/ Announce \/ PeerClaims \/ PeerDelivers \/ Passivate
  PROVE  TypeInv'
<1> USE Types
<1>1. ASSUME NEW w \in Workers, Claim(w)
      PROVE  TypeInv'
  <2>1. troubles' \in Nat
    BY <1>1 DEF Claim, Take, Trouble
  <2> QED BY <1>1, <2>1, TypesOverLog DEF Claim, cacheVars
<1>2. ASSUME Invalidate, UNCHANGED <<logVars, owner, answered, delivery, troubles>>,
             believing' \in SUBSET Workers, announcing' \in BOOLEAN
      PROVE  TypeInv'
  <2>1. UNCHANGED <<log, past>>
    BY <1>2 DEF logVars
  <2>2. held' = {} /\ behind' \in SUBSET Workers /\ obsolete' \in SUBSET Rows /\ raced' = raced
    BY <1>2, <2>1, InvalidateTypes
  <2>3. held' \subseteq Contents /\ \A x, y \in held' : x = y
    BY <2>2
  <2> QED BY <1>2, <2>2, <2>3, TypesOverLog
<1>3. ASSUME NEW w \in Workers, Notice(w)
      PROVE  TypeInv'
  BY <1>2, <1>3 DEF Notice, DropLane
<1>4. CASE Announce
  BY <1>2, <1>4 DEF Announce, laneVars
<1>5. ASSUME NEW w \in Workers, Fault(w)
      PROVE  TypeInv'
  <2>1. /\ delivery' \in [Workers -> Delivery]
        /\ \A v \in Workers : HandOK(delivery'[v])
    BY <1>5, AbortTypes DEF Fault
  <2>2. troubles' \in Nat /\ believing' \in SUBSET Workers /\ behind' \in SUBSET Workers
    BY <1>5 DEF Fault, Trouble
  <2> QED BY <1>5, <2>1, <2>2, TypesOverLog DEF Fault
<1>6. CASE PeerClaims
  BY <1>6, TypesOverLog DEF PeerClaims, Trouble, cacheVars
<1>7. CASE PeerDelivers
  BY <1>7, TypesOverLog DEF PeerDelivers, cacheVars, laneVars
<1>8. CASE Passivate
  BY <1>8, TypesOverLog DEF Passivate, laneVars
<1> QED BY <1>1, <1>3, <1>4, <1>5, <1>6, <1>7, <1>8

LEMMA TypeStep ==
  ASSUME TypeInv, ActivationNext
  PROVE  TypeInv'
<1>1. ASSUME NEW w \in Workers, Deliver(w)
      PROVE  TypeInv'
  BY <1>1, DeliveryTypes, CommitEventTypes DEF Deliver
<1> QED BY <1>1, LaneTypes, LogTypes DEF ActivationNext

-----------------------------------------------------------------------------
(***************************************************************************)
(* Steps that neither write the log nor invalidate.                        *)
(***************************************************************************)

\* What the log and the other deliveries keep when one delivery moves on.
LEMMA OneDelivery ==
  ASSUME TypeInv, Right, NEW w \in Workers, NEW d, Become(w, d),
         UNCHANGED <<log, past, obsolete>>, raced => raced',
         \A v \in Workers : v # w /\ v \in behind => v \in behind'
  PROVE  /\ LogIsNewest'
         /\ \A v \in Workers : v # w => DeliveryIsRight(v)'
         /\ delivery'[w] = d
<1>1. delivery \in [Workers -> Delivery]
  BY DEF TypeInv, ActivationTypeOK
<1>2. delivery'[w] = d /\ \A v \in Workers : v # w => delivery'[v] = delivery[v]
  BY <1>1 DEF Become
<1>3. LogIsNewest'
  BY DEF Right, LogIsNewest
<1>4. ASSUME NEW v \in Workers, v # w
      PROVE  DeliveryIsRight(v)'
  <2>1. InHand(v, delivery[v])
    BY DEF Right, DeliveryIsRight
  <2>2. delivery'[v] = delivery[v] /\ (v \in behind => v \in behind')
    BY <1>2, <1>4
  <2> QED BY <2>1, <2>2 DEF InHand, DeliveryIsRight
<1> QED BY <1>2, <1>3, <1>4

LEMMA IdleIsRight ==
  ASSUME NEW w \in Workers, delivery'[w].at = "idle"
  PROVE  DeliveryIsRight(w)'
  BY DEF DeliveryIsRight, InHand, Deciding

LEMMA AbortIsRight ==
  ASSUME TypeInv, NEW w \in Workers, Abort(w)
  PROVE  /\ DeliveryIsRight(w)'
         /\ \A v \in Workers : v # w => delivery'[v] = delivery[v]
<1>1. delivery'[w] = IdleDelivery /\ \A v \in Workers : v # w => delivery'[v] = delivery[v]
  BY DEF TypeInv, ActivationTypeOK, Abort, Become
<1>2. IdleDelivery.at = "idle"
  BY DEF IdleDelivery
<1> QED BY <1>1, <1>2, IdleIsRight

\* A delivery of another step, of which nothing else changes.
LEMMA StepOf ==
  ASSUME TypeInv, NEW w \in Workers, NEW step \in DeliverySteps
  PROVE  LET d == [delivery[w] EXCEPT !.at = step]
         IN  /\ d.at = step
             /\ d.fold = delivery[w].fold
             /\ d.served = delivery[w].served
             /\ d.row = delivery[w].row
             /\ d.seen = delivery[w].seen
  BY DEF TypeInv, ActivationTypeOK, Delivery

\* The guard compares versions, and so contents.
LEMMA VersionsTell ==
  ASSUME LogIsNewest, NEW rows \in past, Version(rows) = Version(log)
  PROVE  rows = log
  BY DEF LogIsNewest

LEMMA FoldingIsRight ==
  ASSUME TypeInv, Right, NEW w \in Workers,
         Begin(w) \/ Load(w) \/ ReadLog(w) \/ Fill(w)
  PROVE  Right'
<1>1. InHand(w, delivery[w]) /\ LogIsNewest /\ HeldIsRight
  BY DEF Right, DeliveryIsRight
<1>2. delivery[w] \in Delivery
  BY DEF TypeInv, ActivationTypeOK
<1>3. CASE Begin(w)
  <2> DEFINE d == [IdleDelivery EXCEPT !.at = "load", !.message = answered + 1, !.seen = {log}]
  <2>1. Become(w, d) /\ UNCHANGED <<log, past, obsolete, raced, behind, held>>
    BY <1>3 DEF Begin, logVars, cacheVars
  <2>2. d.at = "load" /\ d.seen = {log}
    BY DEF IdleDelivery
  <2> HIDE DEF d
  <2>3. LogIsNewest' /\ (\A v \in Workers : v # w => DeliveryIsRight(v)') /\ delivery'[w] = d
    BY <2>1, OneDelivery
  <2>4. DeliveryIsRight(w)'
    BY <2>1, <2>2, <2>3 DEF DeliveryIsRight, InHand
  <2> QED BY <1>1, <2>1, <2>3, <2>4 DEF Right, HeldIsRight
<1>4. CASE Load(w)
  <2>1. UNCHANGED <<log, past, obsolete, raced, behind, held>>
    BY <1>4 DEF Load, logVars, cacheVars
  <2>2. ASSUME NEW rows \in held,
               Become(w, [delivery[w] EXCEPT !.at = "guard", !.fold = rows, !.served = TRUE])
        PROVE  Right'
    <3> DEFINE d == [delivery[w] EXCEPT !.at = "guard", !.fold = rows, !.served = TRUE]
    <3>1. d.at = "guard" /\ d.fold = rows /\ d.served /\ d.seen = delivery[w].seen
      BY <1>2 DEF Delivery
    <3>2. log \in delivery[w].seen
      BY <1>1, <1>4 DEF InHand, Load, At, Deciding
    <3> HIDE DEF d
    <3>3. LogIsNewest' /\ (\A v \in Workers : v # w => DeliveryIsRight(v)') /\ delivery'[w] = d
      BY <2>1, <2>2, OneDelivery DEF d
    <3>4. DeliveryIsRight(w)'
      BY <1>1, <2>1, <3>1, <3>2, <3>3 DEF DeliveryIsRight, InHand, HeldIsRight
    <3> QED BY <1>1, <2>1, <3>3, <3>4 DEF Right, HeldIsRight
  <2>3. ASSUME GoTo(w, "read")
        PROVE  Right'
    <3> DEFINE d == [delivery[w] EXCEPT !.at = "read"]
    <3>1. d.at = "read" /\ d.seen = delivery[w].seen
      BY StepOf DEF DeliverySteps, Deciding
    <3>2. log \in delivery[w].seen
      BY <1>1, <1>4 DEF InHand, Load, At, Deciding
    <3>3. Become(w, d)
      BY <2>3 DEF GoTo
    <3> HIDE DEF d
    <3>4. LogIsNewest' /\ (\A v \in Workers : v # w => DeliveryIsRight(v)') /\ delivery'[w] = d
      BY <2>1, <3>3, OneDelivery
    <3>5. DeliveryIsRight(w)'
      BY <2>1, <3>1, <3>2, <3>4 DEF DeliveryIsRight, InHand
    <3> QED BY <1>1, <2>1, <3>4, <3>5 DEF Right, HeldIsRight
  <2> QED BY <1>4, <2>2, <2>3 DEF Load
<1>5. CASE ReadLog(w)
  <2> DEFINE d == [delivery[w] EXCEPT !.at = "fill", !.fold = log]
  <2>1. Become(w, d) /\ UNCHANGED <<log, past, obsolete, raced, behind, held>>
    BY <1>5 DEF ReadLog, logVars, cacheVars
  <2>2. d.at = "fill" /\ d.fold = log /\ d.seen = delivery[w].seen
    BY <1>2 DEF Delivery
  <2>3. log \in delivery[w].seen
    BY <1>1, <1>5 DEF InHand, ReadLog, At, Deciding
  <2> HIDE DEF d
  <2>4. LogIsNewest' /\ (\A v \in Workers : v # w => DeliveryIsRight(v)') /\ delivery'[w] = d
    BY <2>1, OneDelivery
  <2>5. DeliveryIsRight(w)'
    BY <1>1, <2>1, <2>2, <2>3, <2>4 DEF DeliveryIsRight, InHand, LogIsNewest
  <2> QED BY <1>1, <2>1, <2>4, <2>5 DEF Right, HeldIsRight
<1>6. CASE Fill(w)
  <2> DEFINE d == [delivery[w] EXCEPT !.at = "guard"]
  <2>1. /\ Become(w, d)
        /\ UNCHANGED <<log, past, obsolete, raced>>
        /\ behind' = behind \ {w}
        /\ held' = IF w \in behind THEN held ELSE {delivery[w].fold}
    BY <1>6 DEF Fill, GoTo, logVars
  <2>2. d.at = "guard" /\ d.fold = delivery[w].fold /\ d.seen = delivery[w].seen
    BY StepOf DEF DeliverySteps, Deciding
  <2>3. /\ log \in delivery[w].seen
        /\ delivery[w].fold \in past
        /\ delivery[w].fold \in delivery[w].seen
        /\ w \notin behind => delivery[w].fold \notin obsolete
    BY <1>1, <1>6 DEF InHand, Fill, At, Deciding
  <2> HIDE DEF d
  <2>4. LogIsNewest' /\ (\A v \in Workers : v # w => DeliveryIsRight(v)') /\ delivery'[w] = d
    BY <2>1, OneDelivery
  <2>5. DeliveryIsRight(w)'
    BY <2>1, <2>2, <2>3, <2>4 DEF DeliveryIsRight, InHand
  <2>6. HeldIsRight'
    BY <1>1, <2>1, <2>3 DEF HeldIsRight
  <2> QED BY <2>4, <2>5, <2>6 DEF Right
<1> QED BY <1>3, <1>4, <1>5, <1>6

-----------------------------------------------------------------------------
(***************************************************************************)
(* Invalidation.                                                           *)
(***************************************************************************)

\* A promotion's result is never of an old contents unless what it extends is
\* one, and an invalidation leaves every reader and every put behind.
LEMMA InvalidationIsRight ==
  ASSUME TypeInv, Right, Invalidate, UNCHANGED <<log, past>>,
         NEW W \in SUBSET Workers,
         \A v \in Workers \ W : delivery'[v] = delivery[v],
         \A v \in W : DeliveryIsRight(v)'
  PROVE  Right'
<1>1. /\ held' = {}
      /\ obsolete' = past \ {log}
      /\ raced' = raced
      /\ behind' = {v \in Workers : delivery[v].at \in Capturing}
  BY DEF Invalidate
<1>2. LogIsNewest' /\ HeldIsRight'
  BY <1>1 DEF Right, LogIsNewest, HeldIsRight
<1>3. ASSUME NEW v \in Workers \ W
      PROVE  DeliveryIsRight(v)'
  <2>1. InHand(v, delivery[v]) /\ delivery'[v] = delivery[v]
    BY <1>3 DEF Right, DeliveryIsRight
  <2>2. delivery[v].at \in {"fill", "put"} => v \in behind'
    BY <1>1 DEF Capturing
  <2>3. ASSUME delivery[v].at = "promote"
        PROVE  delivery[v].fold \union {delivery[v].row} \in obsolete' => delivery[v].fold \in obsolete'
    <3> DEFINE fold == delivery[v].fold
               next == delivery[v].fold \union {delivery[v].row}
    <3>1. fold \in past /\ fold # {} /\ next \in past /\ Version(next) = Version(fold) + 1
      BY <2>1, <2>3 DEF InHand
    <3>2. fold # log
      <4>1. SUFFICES ASSUME fold = log PROVE FALSE
        OBVIOUS
      <4>2. Version(next) <= Version(log)
        BY <3>1, <4>1 DEF Right, LogIsNewest
      <4>3. Version(log) \in Nat
        BY VersionOf DEF TypeInv
      <4> HIDE DEF next
      <4> QED BY <3>1, <4>1, <4>2, <4>3
    <3> QED BY <1>1, <3>1, <3>2
  <2> QED BY <2>1, <2>2, <2>3 DEF InHand, DeliveryIsRight
<1> QED BY <1>2, <1>3 DEF Right

\* Announcements and lanes lost invalidate, and change no delivery.
LEMMA NoticesAreRight ==
  ASSUME TypeInv, Right, Announce \/ \E w \in Workers : Notice(w)
  PROVE  Right'
<1>1. Invalidate /\ UNCHANGED <<log, past, delivery>>
  BY DEF Announce, Notice, DropLane, logVars
<1>2. {} \in SUBSET Workers
  OBVIOUS
<1>3. \A v \in Workers \ {} : delivery'[v] = delivery[v]
  BY <1>1
<1> QED BY <1>1, <1>2, <1>3, InvalidationIsRight

\* A delivery that gives up, with an invalidation or without.
LEMMA GivingUpIsRight ==
  ASSUME TypeInv, Right, NEW w \in Workers, Abort(w), UNCHANGED <<log, past>>
  PROVE  /\ Invalidate => Right'
         /\ UNCHANGED <<held, raced, obsolete>> /\ behind' \in {behind, behind \ {w}} => Right'
<1>1. DeliveryIsRight(w)' /\ \A v \in Workers : v # w => delivery'[v] = delivery[v]
  BY AbortIsRight
<1>2. ASSUME Invalidate
      PROVE  Right'
  <2>1. {w} \in SUBSET Workers /\ \A v \in Workers \ {w} : delivery'[v] = delivery[v]
    BY <1>1
  <2>2. \A v \in {w} : DeliveryIsRight(v)'
    <3>1. TAKE v \in {w}
    <3>2. v = w
      OBVIOUS
    <3> QED BY <1>1, <3>2 DEF DeliveryIsRight
  <2> QED BY <1>2, <2>1, <2>2, InvalidationIsRight
<1>3. ASSUME UNCHANGED <<held, raced, obsolete>>, behind' \in {behind, behind \ {w}}
      PROVE  Right'
  <2>1. LogIsNewest' /\ \A v \in Workers : v # w => DeliveryIsRight(v)'
    BY <1>3, OneDelivery DEF Abort
  <2>2. HeldIsRight'
    BY <1>3 DEF Right, HeldIsRight
  <2> QED BY <1>1, <2>1, <2>2 DEF Right
<1> QED BY <1>2, <1>3

LEMMA GuardIsRight ==
  ASSUME TypeInv, Right, NEW w \in Workers, Guard(w)
  PROVE  Right'
<1>1. UNCHANGED <<log, past>>
  BY DEF Guard, logVars
<1>2. CASE Stale(w)
  BY <1>1, <1>2, GivingUpIsRight DEF Guard
<1>3. CASE ~Stale(w)
  <2> DEFINE d == [delivery[w] EXCEPT !.at = "flush"]
  <2>1. Become(w, d) /\ UNCHANGED <<log, past, obsolete, raced, behind, held>>
    BY <1>3 DEF Guard, GoTo, logVars, cacheVars
  <2>2. d.at = "flush" /\ d.fold = delivery[w].fold /\ d.seen = delivery[w].seen
    BY StepOf DEF DeliverySteps, Deciding
  <2>3. InHand(w, delivery[w]) /\ delivery[w].at = "guard"
    BY DEF Right, DeliveryIsRight, Guard, At
  <2>4. log \in delivery[w].seen /\ delivery[w].fold \in past
    BY <2>3 DEF InHand, Deciding
  <2>5. delivery[w].fold \in delivery[w].seen
    <3>1. CASE delivery[w].served
      <4>1. Version(delivery[w].fold) = Version(log)
        BY <1>3, <3>1 DEF Stale
      <4>2. delivery[w].fold = log
        BY <2>4, <4>1, VersionsTell DEF Right
      <4> QED BY <2>4, <4>2
    <3>2. CASE ~delivery[w].served
      BY <2>3, <3>2 DEF InHand
    <3> QED BY <3>1, <3>2
  <2> HIDE DEF d
  <2>6. LogIsNewest' /\ (\A v \in Workers : v # w => DeliveryIsRight(v)') /\ delivery'[w] = d
    BY <2>1, OneDelivery
  <2>7. DeliveryIsRight(w)'
    BY <2>1, <2>2, <2>4, <2>5, <2>6 DEF DeliveryIsRight, InHand, Deciding
  <2> QED BY <2>1, <2>6, <2>7 DEF Right, HeldIsRight
<1> QED BY <1>2, <1>3

\* A promotion extends exactly what it was folded from: of the contents the
\* log had, one has that version.
LEMMA PromotionIsRight ==
  ASSUME TypeInv, Right, NEW w \in Workers, Promote(w) \/ Put(w)
  PROVE  Right'
<1>1. InHand(w, delivery[w]) /\ LogIsNewest /\ HeldIsRight
  BY DEF Right, DeliveryIsRight
<1>2. UNCHANGED <<log, past>>
  BY DEF Promote, Put, logVars
<1>3. ASSUME Abort(w), Invalidate \/ UNCHANGED <<cacheVars, obsolete>>
      PROVE  Right'
  BY <1>2, <1>3, GivingUpIsRight DEF cacheVars
<1>4. ASSUME At(w, "promote"), NEW rows \in held, Version(rows) = Version(delivery[w].fold),
             Extend(w, rows), UNCHANGED <<cacheVars, obsolete>>
      PROVE  Right'
  <2> DEFINE d == [delivery[w] EXCEPT !.at = "put", !.fold = rows]
             next == delivery[w].fold \union {delivery[w].row}
  <2>1. Become(w, d) /\ UNCHANGED <<log, past, obsolete, raced, behind, held>>
    BY <1>2, <1>4 DEF Extend, cacheVars
  <2>2. d.at = "put" /\ d.fold = rows /\ d.row = delivery[w].row
    BY DEF TypeInv, ActivationTypeOK, Delivery
  <2>3. delivery[w].fold \in past /\ next \in past /\ (next \in obsolete => delivery[w].fold \in obsolete)
    BY <1>1, <1>4 DEF InHand, At
  <2>4. rows = delivery[w].fold
    BY <1>1, <1>4, <2>3 DEF LogIsNewest, HeldIsRight
  <2>5. raced \/ next \notin obsolete
    BY <1>1, <1>4, <2>3, <2>4 DEF HeldIsRight
  <2>6. d.fold \union {d.row} = next
    BY <2>2, <2>4
  <2> HIDE DEF d, next
  <2>7. LogIsNewest' /\ (\A v \in Workers : v # w => DeliveryIsRight(v)') /\ delivery'[w] = d
    BY <2>1, OneDelivery
  <2>8. DeliveryIsRight(w)'
    <3>1. next \in past' /\ (raced' \/ next \notin obsolete')
      BY <2>1, <2>3, <2>5
    <3>2. delivery'[w].at = "put" /\ delivery'[w].fold \union {delivery'[w].row} = next
      BY <2>2, <2>6, <2>7
    <3> QED BY <3>1, <3>2 DEF DeliveryIsRight, InHand, Deciding
  <2> QED BY <1>1, <2>1, <2>7, <2>8 DEF Right, HeldIsRight
<1>5. CASE Promote(w)
  BY <1>3, <1>4, <1>5 DEF Promote
<1>6. CASE Put(w)
  <2> DEFINE next == delivery[w].fold \union {delivery[w].row}
  <2>1. /\ held' = {next}
        /\ raced' = (raced \/ w \in behind)
        /\ behind' = behind \ {w}
        /\ Abort(w)
        /\ UNCHANGED <<log, past, obsolete>>
    BY <1>6 DEF Put, logVars
  <2>2. next \in past /\ (raced \/ w \in behind \/ next \notin obsolete)
    BY <1>1, <1>6 DEF InHand, Put, At
  <2> HIDE DEF next
  <2>3. LogIsNewest' /\ \A v \in Workers : v # w => DeliveryIsRight(v)'
    BY <2>1, OneDelivery DEF Abort
  <2>4. HeldIsRight'
    BY <2>1, <2>2 DEF HeldIsRight
  <2> QED BY <2>1, <2>3, <2>4, AbortIsRight DEF Right
<1> QED BY <1>5, <1>6

-----------------------------------------------------------------------------
(***************************************************************************)
(* Writes.                                                                 *)
(***************************************************************************)

\* A stream that grows by a version, or is erased, stays told by its version.
LEMMA StoringIsRight ==
  ASSUME TypeInv, Right, NEW rows \in Contents, NEW D, Store(rows), Witness(rows, D),
         UNCHANGED cacheVars,
         rows = {} \/ (log # {} /\ Version(rows) = Version(log) + 1)
  PROVE  /\ LogIsNewest'
         /\ HeldIsRight'
         /\ \A v \in Workers : D[v] = delivery[v] => DeliveryIsRight(v)'
<1>1. log' = rows /\ past' = past \union {rows} /\ obsolete' = obsolete \ {rows}
  BY DEF Store
<1>2. /\ log \in past
      /\ \A x, y \in past : Version(x) = Version(y) => x = y
      /\ log # {} => \A x \in past : Version(x) <= Version(log)
      /\ log \notin obsolete
  BY DEF Right, LogIsNewest
<1>3. past \subseteq Contents /\ \A x \in past : Version(x) \in Nat /\ (x # {} => Version(x) > 0)
  BY VersionOf DEF TypeInv
<1>4. Version(rows) \in Nat /\ (rows = {} => Version(rows) = 0)
  BY VersionOf
<1>5. rows # {} => \A x \in past : Version(x) < Version(rows)
  <2> SUFFICES ASSUME rows # {}, NEW x \in past PROVE Version(x) < Version(rows)
    OBVIOUS
  <2>1. Version(x) <= Version(log) /\ Version(rows) = Version(log) + 1
    BY <1>2
  <2>2. Version(x) \in Nat /\ Version(log) \in Nat
    BY <1>2, <1>3
  <2> QED BY <2>1, <2>2
<1>6. \A x \in past : Version(x) = Version(rows) => x = rows
  <2> SUFFICES ASSUME NEW x \in past, Version(x) = Version(rows) PROVE x = rows
    OBVIOUS
  <2>1. Version(x) \in Nat /\ (x # {} => Version(x) > 0)
    BY <1>3
  <2>2. rows = {}
    BY <1>4, <1>5, <2>1
  <2>3. x = {}
    BY <1>4, <2>1, <2>2
  <2> QED BY <2>2, <2>3
<1>7. LogIsNewest'
  <2>1. rows # {} => \A x \in past' : Version(x) <= Version(rows)
    <3> SUFFICES ASSUME rows # {}, NEW x \in past' PROVE Version(x) <= Version(rows)
      OBVIOUS
    <3>1. CASE x = rows
      BY <1>4, <3>1
    <3>2. CASE x \in past
      <4>1. Version(x) < Version(rows) /\ Version(x) \in Nat
        BY <1>3, <1>5, <3>2
      <4> QED BY <1>4, <4>1
    <3> QED BY <1>1, <3>1, <3>2
  <2>2. \A x, y \in past' : Version(x) = Version(y) => x = y
    BY <1>1, <1>2, <1>6
  <2> QED BY <1>1, <2>1, <2>2 DEF LogIsNewest, Version
<1>8. HeldIsRight'
  BY <1>1 DEF Right, HeldIsRight, cacheVars
<1>9. ASSUME NEW v \in Workers, D[v] = delivery[v]
      PROVE  DeliveryIsRight(v)'
  <2>1. delivery'[v] = [delivery[v] EXCEPT !.seen = IF delivery[v].at \in Deciding THEN @ \union {rows} ELSE {}]
    BY <1>9 DEF Witness
  <2>2. /\ delivery'[v].at = delivery[v].at
        /\ delivery'[v].fold = delivery[v].fold
        /\ delivery'[v].row = delivery[v].row
        /\ delivery'[v].served = delivery[v].served
        /\ delivery[v].at \in Deciding => delivery'[v].seen = delivery[v].seen \union {rows}
    BY <2>1 DEF TypeInv, ActivationTypeOK, Delivery
  <2>3. InHand(v, delivery[v])
    BY DEF Right, DeliveryIsRight
  <2>4. UNCHANGED <<behind, raced>>
    BY DEF cacheVars
  <2>5. delivery[v].at = "promote" => delivery[v].fold # rows
    <3> SUFFICES ASSUME delivery[v].at = "promote", delivery[v].fold = rows PROVE FALSE
      OBVIOUS
    <3>1. delivery[v].fold \in past /\ delivery[v].fold # {}
      BY <2>3 DEF InHand
    <3>2. Version(rows) < Version(rows)
      BY <1>5, <3>1
    <3> QED BY <1>4, <3>2
  <2> QED BY <1>1, <2>2, <2>3, <2>4, <2>5 DEF DeliveryIsRight, InHand, Deciding
<1> QED BY <1>7, <1>8, <1>9

LEMMA LogStaysRight ==
  ASSUME TypeInv, Right, OutsideAppend \/ Erase
  PROVE  Right'
<1>1. ASSUME NEW rows \in Contents, Store(rows), Witness(rows, delivery), UNCHANGED cacheVars,
             rows = {} \/ (log # {} /\ Version(rows) = Version(log) + 1)
      PROVE  Right'
  <2>1. /\ LogIsNewest'
        /\ HeldIsRight'
        /\ \A v \in Workers : DeliveryIsRight(v)'
    BY <1>1, StoringIsRight
  <2> QED BY <2>1 DEF Right
<1>2. CASE OutsideAppend
  <2> DEFINE rows == log \union {NewRow(Version(log) + 1)}
  <2>1. log \in Contents /\ written \in Nat
    BY Types DEF TypeInv
  <2>2. Version(log) \in Nat /\ Version(log) + 1 > Version(log) /\ written + 1 \in Nat
    BY <2>1, VersionOf
  <2>3. rows \in Contents /\ Version(rows) = Version(log) + 1
    <3> DEFINE n == Version(log) + 1
               i == written + 1
    <3>1. n \in Nat /\ i \in Nat /\ n > Version(log)
      BY <2>2
    <3>2. rows = log \union {<<n, i>>}
      BY DEF NewRow
    <3> HIDE DEF n, i, rows
    <3>3. rows \in Contents /\ Version(rows) = n
      BY <2>1, <3>1, <3>2, Grown
    <3> QED BY <3>3 DEF n
  <2>4. Store(rows) /\ Witness(rows, delivery) /\ UNCHANGED cacheVars /\ log # {}
    BY <1>2 DEF OutsideAppend, Store
  <2> HIDE DEF rows
  <2> QED BY <1>1, <2>3, <2>4
<1>3. CASE Erase
  <2>1. {} \in Contents
    BY DEF Contents, Bounded, Rows
  <2> QED BY <1>1, <1>3, <2>1 DEF Erase
<1> QED BY <1>2, <1>3

\* A commit appends to what it folded over, unless the stream was erased
\* under it: the next version was free.
LEMMA CommitIsRight ==
  ASSUME TypeInv, Right, NEW w \in Workers, CommitEvent(w), ~gapped'
  PROVE  Right'
<1> DEFINE rows == log \union {NewRow(NextVersion(w))}
           D == [delivery EXCEPT ![w] = Committed(w)]
<1>1. /\ Store(rows)
      /\ log' = rows
      /\ Witness(rows, D)
      /\ UNCHANGED cacheVars
      /\ delivery[w].at = "flush"
      /\ delivery[w].fold # {}
      /\ Version(delivery[w].fold) = Version(log)
  BY DEF CommitEvent, Store, Committed, At
<1>2. delivery[w].fold \in past /\ log \in past
  BY <1>1 DEF Right, DeliveryIsRight, InHand, LogIsNewest
<1>3. delivery[w].fold = log
  BY <1>1, <1>2, VersionsTell DEF Right
<1>4. NewRow(NextVersion(w)) = <<Version(log) + 1, written + 1>>
  BY <1>3 DEF NewRow, NextVersion
<1>5. rows \in Contents /\ Version(rows) = Version(log) + 1
  <2>1. log \in Contents /\ written + 1 \in Nat
    BY Types DEF TypeInv
  <2> DEFINE n == Version(log) + 1
             i == written + 1
  <2>2. n \in Nat /\ i \in Nat /\ n > Version(log)
    BY <2>1, VersionOf
  <2>3. rows = log \union {<<n, i>>}
    BY <1>4
  <2> HIDE DEF n, i, rows
  <2>4. rows \in Contents /\ Version(rows) = n
    BY <2>1, <2>2, <2>3, Grown
  <2> QED BY <2>4 DEF n
<1>6. /\ Committed(w) \in Delivery
      /\ Committed(w).at = "promote"
      /\ Committed(w).fold = log
      /\ Committed(w).row = NewRow(NextVersion(w))
  BY <1>3, <1>4, CommittedOK
<1>7. D[w] = Committed(w) /\ \A v \in Workers : v # w => D[v] = delivery[v]
  BY DEF TypeInv, ActivationTypeOK
<1>8. delivery'[w] = [Committed(w) EXCEPT !.seen = IF Committed(w).at \in Deciding THEN @ \union {rows} ELSE {}]
  <2> HIDE DEF rows, D
  <2> QED BY <1>1, <1>7 DEF Witness
<1>9. /\ delivery'[w].at = "promote"
      /\ delivery'[w].fold = log
      /\ delivery'[w].fold \union {delivery'[w].row} = rows
  BY <1>6, <1>8 DEF Delivery
<1> HIDE DEF rows, D
<1>10. /\ LogIsNewest'
       /\ HeldIsRight'
       /\ \A v \in Workers : v # w => DeliveryIsRight(v)'
  BY <1>1, <1>3, <1>5, <1>7, StoringIsRight
<1>11. DeliveryIsRight(w)'
  <2>1. log \in past' /\ rows \in past' /\ rows \notin obsolete'
    BY <1>1, <1>2 DEF Store
  <2> QED BY <1>1, <1>3, <1>5, <1>9, <2>1 DEF DeliveryIsRight, InHand, Deciding
<1> QED BY <1>10, <1>11 DEF Right

-----------------------------------------------------------------------------
(***************************************************************************)
(* The invariant.                                                          *)
(***************************************************************************)
LEMMA RightStep ==
  ASSUME TypeInv, Right, ActivationNext, ~gapped'
  PROVE  Right'
<1>1. ASSUME NEW w \in Workers, Deliver(w)
      PROVE  Right'
  <2>1. CASE Begin(w) \/ Load(w) \/ ReadLog(w) \/ Fill(w)
    BY <2>1, FoldingIsRight
  <2>2. CASE Guard(w)
    BY <2>2, GuardIsRight
  <2>3. CASE CommitVerdict(w)
    BY <2>3, GivingUpIsRight DEF CommitVerdict, logVars, cacheVars
  <2>4. CASE Conflict(w)
    BY <2>4, GivingUpIsRight DEF Conflict, logVars
  <2>5. CASE CommitRefused(w)
    BY <2>5, GivingUpIsRight DEF CommitRefused, DropLane, logVars
  <2>6. CASE Promote(w) \/ Put(w)
    BY <2>6, PromotionIsRight
  <2>7. CASE CommitEvent(w)
    BY <2>7, CommitIsRight
  <2> QED BY <1>1, <2>1, <2>2, <2>3, <2>4, <2>5, <2>6, <2>7 DEF Deliver
<1>2. ASSUME UNCHANGED <<log, past, obsolete, delivery, behind, raced>>, held' \subseteq held
      PROVE  Right'
  BY <1>2 DEF Right, LogIsNewest, HeldIsRight, DeliveryIsRight, InHand
<1>3. ASSUME NEW w \in Workers, Claim(w)
      PROVE  Right'
  BY <1>2, <1>3 DEF Claim, logVars, cacheVars
<1>4. CASE PeerClaims \/ PeerDelivers \/ Passivate
  BY <1>2, <1>4 DEF PeerClaims, PeerDelivers, Passivate, logVars, cacheVars
<1>5. ASSUME NEW w \in Workers, Fault(w)
      PROVE  Right'
  BY <1>5, GivingUpIsRight DEF Fault, logVars
<1>6. CASE OutsideAppend \/ Erase
  BY <1>6, LogStaysRight
<1>7. CASE Announce \/ \E w \in Workers : Notice(w)
  BY <1>7, NoticesAreRight
<1> QED BY <1>1, <1>3, <1>4, <1>5, <1>6, <1>7 DEF ActivationNext

\* That an append slipped into an erased stream is never forgotten.
LEMMA GapsAreKept ==
  ASSUME ActivationNext, gapped
  PROVE  gapped'
<1>1. CASE OutsideAppend \/ Erase \/ Announce \/ PeerClaims \/ PeerDelivers \/ Passivate
  BY <1>1 DEF OutsideAppend, Erase, Announce, PeerClaims, PeerDelivers, Passivate, logVars
<1>2. ASSUME NEW w \in Workers, Claim(w) \/ Notice(w) \/ Fault(w)
      PROVE  gapped'
  BY <1>2 DEF Claim, Notice, Fault, logVars
<1>3. ASSUME NEW w \in Workers, Deliver(w)
      PROVE  gapped'
  <2>1. CASE CommitEvent(w)
    BY <2>1 DEF CommitEvent
  <2>2. CASE Begin(w) \/ Load(w) \/ ReadLog(w) \/ Fill(w) \/ Guard(w)
    BY <2>2 DEF Begin, Load, ReadLog, Fill, Guard, logVars
  <2>3. CASE CommitVerdict(w) \/ Conflict(w) \/ CommitRefused(w) \/ Promote(w) \/ Put(w)
    BY <2>3 DEF CommitVerdict, Conflict, CommitRefused, Promote, Put, logVars
  <2> QED BY <1>3, <2>1, <2>2, <2>3 DEF Deliver
<1> QED BY <1>1, <1>2, <1>3 DEF ActivationNext

LEMMA RightFirst == ActivationInit => Right
<1> SUFFICES ASSUME ActivationInit PROVE Right
  OBVIOUS
<1>1. past = {log} /\ obsolete = {} /\ held = {}
  BY DEF ActivationInit
<1>2. LogIsNewest
  <2>1. Version(log) \in Nat
    BY InitTypes, VersionOf DEF TypeInv
  <2> QED BY <1>1, <2>1 DEF LogIsNewest
<1>3. \A w \in Workers : delivery[w].at = "idle"
  BY DEF ActivationInit, IdleDelivery
<1>4. \A w \in Workers : DeliveryIsRight(w)
  BY <1>3 DEF DeliveryIsRight, InHand, Deciding
<1> QED BY <1>1, <1>2, <1>4 DEF Right, HeldIsRight

LEMMA InvInit == ActivationInit => Inv
  BY InitTypes, RightFirst DEF Inv

LEMMA InvStep == Inv /\ [ActivationNext]_vars => Inv'
<1> SUFFICES ASSUME Inv, [ActivationNext]_vars PROVE Inv'
  OBVIOUS
<1>1. CASE ActivationNext
  <2>1. TypeInv'
    BY <1>1, TypeStep DEF Inv
  <2>2. ~gapped' => Right'
    BY <1>1, RightStep, GapsAreKept DEF Inv
  <2> QED BY <2>1, <2>2 DEF Inv
<1>2. CASE UNCHANGED vars
  <2>1. TypeInv'
    BY <1>2 DEF vars, logVars, cacheVars, laneVars, Inv, TypeInv, ActivationTypeOK, HandOK
  <2>2. gapped' = gapped /\ (Right => Right')
    BY <1>2 DEF vars, logVars, cacheVars, Right, LogIsNewest, HeldIsRight, DeliveryIsRight, InHand
  <2> QED BY <2>1, <2>2 DEF Inv
<1> QED BY <1>1, <1>2

THEOREM ActivationInvariant == ActivationSpec => []Inv
  BY InvInit, InvStep, PTL DEF ActivationSpec

-----------------------------------------------------------------------------
(***************************************************************************)
(* Theorems.                                                               *)
(***************************************************************************)

\* The cache, the log and the deliveries keep their types; the cache holds
\* one set of rows for the actor, or none.
THEOREM CacheTypesHold == ActivationSpec => []ActivationTypeOK
<1>1. Inv => ActivationTypeOK
  BY DEF Inv, TypeInv
<1> QED BY <1>1, ActivationInvariant, PTL

\* What the cache holds is a contents that the log had, unless an append
\* slipped into an erased stream: put_at_epoch fills with what it read,
\* promote_after_commit extends what its delivery folded over.
THEOREM CacheHoldsLog == ActivationSpec => []HeldWasLog
<1>1. Inv => HeldWasLog
  BY DEF Inv, Right, HeldIsRight, HeldWasLog
<1> QED BY <1>1, ActivationInvariant, PTL

\* What an invalidation dropped as out of date is not held again, save by a
\* put that came after an invalidation which its lookup had not seen.
THEOREM ObsoleteNeverReturns == ActivationSpec => []ObsoleteStaysOut
<1>1. Inv => ObsoleteStaysOut
  BY DEF Inv, Right, HeldIsRight, ObsoleteStaysOut
<1> QED BY <1>1, ActivationInvariant, PTL

\* A verdict, one with events or without, rests on what the log was at some
\* moment of its own delivery: guard_freshness_in_tx lets no older hit pass.
THEOREM VerdictsAreFresh == ActivationSpec => VerdictIsFresh
<1>1. Inv => \A w \in Workers : At(w, "flush") => gapped \/ delivery[w].fold \in delivery[w].seen
  BY DEF Inv, Right, DeliveryIsRight, InHand, At
<1>2. Inv /\ [ActivationNext]_vars =>
        [\A w \in Workers :
           At(w, "flush") /\ answered' # answered /\ owner = w
             => gapped \/ delivery[w].fold \in delivery[w].seen]_vars
  BY <1>1
<1> QED BY <1>2, ActivationInvariant, PTL DEF ActivationSpec, VerdictIsFresh
=============================================================================
