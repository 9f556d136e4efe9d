---------------------------- MODULE ManageProofs ----------------------------
(***************************************************************************)
(* Proofs about Manage, for any hosts, relying parties, credentials, PINs  *)
(* and limit, and any number of commands, deletions, fingers given         *)
(* elsewhere and power cuts.                                               *)
(*                                                                         *)
(* HostsKeptApart is not inductive: that a protected credential was listed *)
(* without a finger is seen when the next one is asked for, and depends on *)
(* what the list held when its command ended (ListHeld).                   *)
(*                                                                         *)
(* Nor is WalksComplete: what a host has been told must be tied to the one *)
(* list and its cursor (RpFollows, CredFollows), the list to the snapshot  *)
(* (Listed), and, while the command goes over the file, the part collected *)
(* to the part of the file it has passed (InFileOrder).                    *)
(***************************************************************************)
EXTENDS Manage, SequenceTheorems, FiniteSetTheorems, WellFoundedInduction, TLAPS

NoneProtected == \A i \in 1..Len(enumCredList) : enumCredList[i] \notin Protected

\* The record of an enumeration command.
Enumeration(t) ==
  t \in [on : {"collect", "verify"}, host : {t.host}, rp : {t.rp}, todo : {t.todo}, guarded : BOOLEAN]

\* The list is a sequence, the cursor a number.
Shapes ==
  /\ enumCredList \in Seq(ToSet(enumCredList)) /\ enumCredIdx \in Nat
  /\ task = NoTask \/ Enumeration(task)

\* A list with a protected credential is guarded while it is collected; after its command a
\* finger was given for it, or the command was refused.
ListHeld ==
  /\ task.on = "collect" /\ ~task.guarded => NoneProtected
  /\ task.on = "none" /\ ~released /\ ~refused => NoneProtected

\* A list was announced to somebody only if a finger was given for it or nothing in it needs one.
IInv == Shapes /\ ListHeld /\ FingerBeforeProtected

-----------------------------------------------------------------------------
(* list[idx++].                                                            *)

\* The smaller of two numbers.
LEMMA MinOfTwo ==
  ASSUME NEW a \in Nat, NEW b \in Nat
  PROVE  Min({a, b}) = IF a <= b THEN a ELSE b
<1> DEFINE m == IF a <= b THEN a ELSE b
<1>1. m \in {a, b} /\ \A y \in {a, b} : m <= y
    OBVIOUS
<1>2. \A x \in {a, b} : (\A y \in {a, b} : x <= y) => x = m
    OBVIOUS
<1> HIDE DEF m
<1>3. (CHOOSE x \in {a, b} : \A y \in {a, b} : x <= y) = m
    BY <1>1, <1>2
<1> QED BY <1>3 DEF Min, m

\* "No more" is not an answer with an item.
LEMMA NothingIsNoItem ==
  ASSUME NEW t, Len(t) = 0
  PROVE  \A x : t # <<x>>
<1> SUFFICES ASSUME NEW x, t = <<x>> PROVE FALSE
    OBVIOUS
<1>1. Len(<<x>>) = 1
    OBVIOUS
<1> QED BY <1>1

\* ItemAt is an element of the sequence, or nothing behind its end.
LEMMA ItemOf ==
  ASSUME NEW S, NEW s \in Seq(S), NEW i \in Nat
  PROVE  /\ Len(ItemAt(s, i + 1)) \in Nat
         /\ \A x : ItemAt(s, i + 1) = <<x>> => i + 1 \in 1..Len(s) /\ s[i + 1] = x
<1>1. Len(s) \in Nat /\ i + 1 \in Nat
    OBVIOUS
<1>2. Min({i + 1, Len(s)}) = IF i + 1 <= Len(s) THEN i + 1 ELSE Len(s)
    BY <1>1, MinOfTwo
<1>3. CASE i + 1 <= Len(s)
    <2>1. ItemAt(s, i + 1) = SubSeq(s, i + 1, i + 1)
        BY <1>2, <1>3 DEF ItemAt
    <2>2. i + 1 \in 1..Len(s) /\ i + 1 \in 1..Len(s) + 1 /\ i + 1 \in i + 1 - 1..Len(s)
        BY <1>1, <1>3
    <2>3. Len(ItemAt(s, i + 1)) = 1 /\ ItemAt(s, i + 1)[1] = s[i + 1]
        BY <1>1, <2>1, <2>2, SubSeqProperties
    <2> QED BY <2>2, <2>3
<1>4. CASE i + 1 > Len(s)
    <2>1. ItemAt(s, i + 1) = <<>>
        BY <1>1, <1>2, <1>4, SubSeqEmpty DEF ItemAt
    <2>2. Len(ItemAt(s, i + 1)) = 0
        BY <2>1
    <2> QED BY <2>2, NothingIsNoItem
<1> QED BY <1>1, <1>3, <1>4

-----------------------------------------------------------------------------
(* The invariant.                                                          *)

\* A device after power-up: no list, no command, nothing listed.
LEMMA Initially == Init => IInv /\ StaleKeyHarmless
<1> SUFFICES ASSUME Init PROVE IInv /\ StaleKeyHarmless
    OBVIOUS
<1>1. Shapes
    BY DEF Init, Shapes, NoTask
<1>2. ListHeld
    BY DEF Init, ListHeld, NoneProtected
<1>3. FingerBeforeProtected
    BY DEF Init, FingerBeforeProtected
<1>4. StaleKeyHarmless
    BY ManageAssumption DEF Init, StaleKeyHarmless, NoPin, Garbage
<1> QED BY <1>1, <1>2, <1>3, <1>4 DEF IInv

\* A list's elements are among themselves, also after one more.
LEMMA AppendShape ==
  ASSUME NEW s, s \in Seq(ToSet(s)), NEW c
  PROVE  /\ Append(s, c) \in Seq(ToSet(Append(s, c)))
         /\ Len(Append(s, c)) = Len(s) + 1
         /\ \A i \in 1..Len(s) + 1 : Append(s, c)[i] = IF i <= Len(s) THEN s[i] ELSE c
<1> DEFINE t == Append(s, c)
<1>1. s \in Seq(ToSet(s) \cup {c}) /\ Len(s) \in Nat
    OBVIOUS
<1>2. /\ t \in Seq(ToSet(s) \cup {c}) /\ Len(t) = Len(s) + 1
      /\ \A i \in 1..Len(s) : t[i] = s[i]
      /\ t[Len(s) + 1] = c
    BY <1>1, AppendProperties
<1> HIDE DEF t
<1>3. \A i \in 1..Len(t) : t[i] \in ToSet(t)
    BY DEF ToSet
<1>4. t \in Seq(ToSet(t))
    BY <1>2, <1>3
<1>5. \A i \in 1..Len(s) + 1 : t[i] = IF i <= Len(s) THEN s[i] ELSE c
    BY <1>1, <1>2
<1> QED BY <1>2, <1>4, <1>5 DEF t

\* The enumeration command goes on: to the next record, or to the wait for a finger.
LEMMA GoesOn ==
  ASSUME Enumeration(task), NEW o \in {"collect", "verify"}, NEW d, NEW g \in BOOLEAN
  PROVE  /\ task' = [task EXCEPT !.todo = d, !.guarded = g] =>
               Enumeration(task') /\ task'.on = task.on /\ task'.guarded = g
         /\ task' = [task EXCEPT !.on = o] =>
               Enumeration(task') /\ task'.on = o /\ task'.guarded = task.guarded
<1> DEFINE H == {task.host}
           R == {task.rp}
           D == {task.todo, d}
           Tasks == [on : {"collect", "verify"}, host : H, rp : R, todo : D, guarded : BOOLEAN]
<1>1. task \in Tasks /\ d \in D
    BY DEF Enumeration
<1> HIDE DEF H, R, D
<1>2. \A u \in Tasks : Enumeration(u)
    BY DEF Enumeration
<1>3. ASSUME NEW u, u = [task EXCEPT !.todo = d, !.guarded = g]
      PROVE  u \in Tasks /\ u.on = task.on /\ u.guarded = g
    BY <1>1, <1>3
<1>4. ASSUME NEW u, u = [task EXCEPT !.on = o]
      PROVE  u \in Tasks /\ u.on = o /\ u.guarded = task.guarded
    BY <1>1, <1>4
<1> HIDE DEF Tasks
<1> QED BY <1>2, <1>3, <1>4, Zenon

\* A record of the list is collected, or passed over.
LEMMA CollectOutcome ==
  ASSUME Shapes, Collect
  PROVE  /\ task.on = "collect" /\ Enumeration(task)
         /\ UNCHANGED <<enumCredIdx, released, refused, bare>>
         /\ \E c, match, g :
              /\ task' = [task EXCEPT !.todo = Tail(task.todo), !.guarded = g]
              /\ g = (IF match THEN task.guarded \/ c \in Protected ELSE task.guarded)
              /\ enumCredList' = IF match THEN Append(enumCredList, c) ELSE enumCredList
<1> DEFINE c == Head(task.todo)
           match == RpOf[c] = task.rp /\ c \in ToSet(records)
           g == IF match THEN task.guarded \/ c \in Protected ELSE task.guarded
<1>1. task.on = "collect" /\ Enumeration(task) /\ UNCHANGED <<enumCredIdx, released, refused, bare>>
    BY DEF Collect, Shapes, NoTask, walkVars
<1>2. /\ task' = [task EXCEPT !.todo = Tail(task.todo), !.guarded = g]
      /\ enumCredList' = IF match THEN Append(enumCredList, c) ELSE enumCredList
    BY Zenon DEF Collect, RpHasProtected
<1> HIDE DEF c, match
<1> QED BY <1>1, <1>2, Zenon

\* Every step keeps the shapes, what the list held, and that nothing protected was listed.
LEMMA Inductive == IInv /\ [Next]_vars => IInv'
<1> SUFFICES ASSUME Shapes, ListHeld, FingerBeforeProtected, [Next]_vars PROVE IInv'
    BY DEF IInv
<1> USE DEF IInv, Shapes, ListHeld, NoneProtected, FingerBeforeProtected, cursorVars, pinVars, walkVars
<1>1. CASE Collect
    <2>1. task.on = "collect" /\ Enumeration(task) /\ UNCHANGED <<enumCredIdx, released, refused, bare>>
        BY <1>1, CollectOutcome
    <2>2. PICK c, match, g :
            /\ task' = [task EXCEPT !.todo = Tail(task.todo), !.guarded = g]
            /\ g = (IF match THEN task.guarded \/ c \in Protected ELSE task.guarded)
            /\ enumCredList' = IF match THEN Append(enumCredList, c) ELSE enumCredList
        BY <1>1, CollectOutcome, Zenon
    <2>3. g \in BOOLEAN
        BY <2>1, <2>2 DEF Enumeration
    <2>4. Enumeration(task') /\ task'.on = "collect" /\ task'.guarded = g
        BY <2>1, <2>2, <2>3, GoesOn
    <2>5. CASE ~match
        BY <2>1, <2>2, <2>4, <2>5
    <2>6. CASE match
        <3>1. /\ enumCredList' \in Seq(ToSet(enumCredList'))
              /\ Len(enumCredList') = Len(enumCredList) + 1 /\ Len(enumCredList) \in Nat
              /\ \A i \in 1..Len(enumCredList) + 1 :
                   enumCredList'[i] = IF i <= Len(enumCredList) THEN enumCredList[i] ELSE c
            BY <2>2, <2>6, AppendShape
        <3>2. ~task'.guarded => ~task.guarded /\ c \notin Protected
            BY <2>2, <2>4, <2>6
        <3>3. ~task'.guarded => NoneProtected'
            BY <2>1, <3>1, <3>2
        <3> QED BY <2>1, <2>4, <3>1, <3>3 DEF NoTask
    <2> QED BY <2>5, <2>6
<1>2. CASE Collected
    <2>1. task.on = "collect" /\ Enumeration(task) /\ UNCHANGED <<enumCredList, refused>>
        BY <1>2 DEF Collected, NoTask
    <2>2. CASE enumCredList = <<>>
        BY <1>2, <2>1, <2>2 DEF Collected, NoTask
    <2>3. CASE enumCredList # <<>> /\ task.guarded /\ ~verified
        <3>1. task' = [task EXCEPT !.on = "verify"] /\ UNCHANGED <<enumCredIdx, bare, released>>
            BY <1>2, <2>3, Zenon DEF Collected
        <3> QED BY <2>1, <3>1, GoesOn
    <2>4. CASE enumCredList # <<>> /\ ~(task.guarded /\ ~verified)
        <3>1. /\ released' = verified /\ enumCredIdx' = 1 /\ task' = NoTask
              /\ bare' = (bare \/ (enumCredList[1] \in Protected /\ ~released'))
            BY <1>2, <2>4, Zenon DEF Collected, AnswerFirst
        <3>2. ~released' => NoneProtected /\ enumCredList[1] \notin Protected
            BY <2>1, <2>4, <3>1
        <3>3. ~bare'
            BY <3>1, <3>2, Zenon
        <3> QED BY <2>1, <3>1, <3>2, <3>3 DEF NoTask
    <2> QED BY <2>2, <2>3, <2>4
<1>3. CASE FingerOk
    BY <1>3 DEF FingerOk, AnswerFirst, NoTask
<1>4. CASE NotVerified
    BY <1>4 DEF NotVerified, NoTask
<1>5. ASSUME NEW h \in Hosts, EnumerateRPsBegin(h) PROVE IInv'
    BY <1>5 DEF EnumerateRPsBegin, Command
<1>6. ASSUME NEW h \in Hosts, EnumerateRPsGetNext(h) PROVE IInv'
    BY <1>6 DEF EnumerateRPsGetNext, Command
<1>7. ASSUME NEW h \in Hosts, EnumerateCredentialsGetNext(h) PROVE IInv'
    <2>1. /\ Len(NextCredential) \in Nat
          /\ \A x : NextCredential = <<x>> =>
               enumCredIdx + 1 \in 1..Len(enumCredList) /\ enumCredList[enumCredIdx + 1] = x
        BY ItemOf DEF NextCredential
    <2>2. task = NoTask /\ enumCredIdx' = enumCredIdx + Len(NextCredential)
          /\ UNCHANGED <<enumCredList, released, refused, task>>
          /\ bare' = (bare \/ (~released /\ ~refused /\ \E c \in Protected : NextCredential = <<c>>))
        BY <1>7 DEF EnumerateCredentialsGetNext, Command
    <2>3. ~released /\ ~refused => ~ \E c \in Protected : NextCredential = <<c>>
        BY <2>1, <2>2 DEF NoTask
    <2>4. ~bare'
        BY <2>2, <2>3, Zenon
    <2> QED BY <2>1, <2>2, <2>4
<1>8. ASSUME NEW h \in Hosts, NEW rp \in Rps, EnumerateCredentialsBegin(h, rp) PROVE IInv'
    <2>1. /\ enumCredList' = <<>> /\ enumCredIdx' = 0 /\ bare' = bare
          /\ task' = [on |-> "collect", host |-> h, rp |-> rp, todo |-> records, guarded |-> FALSE]
        BY <1>8 DEF EnumerateCredentialsBegin, Command
    <2>2. Enumeration(task')
        BY <2>1 DEF Enumeration
    <2>3. NoneProtected'
        BY <2>1
    <2> HIDE DEF NoneProtected
    <2> QED BY <2>1, <2>2, <2>3
<1>9. ASSUME NEW h \in Hosts, NEW c \in Creds, DeleteCredential(h, c) PROVE IInv'
    BY <1>9 DEF DeleteCredential
<1>10. ASSUME NEW h \in Hosts, GetKeyAgreement(h) PROVE IInv'
    BY <1>10 DEF GetKeyAgreement, Command
<1>11. ASSUME NEW h \in Hosts, GetPinToken(h) PROVE IInv'
    BY <1>11 DEF GetPinToken, Command
<1>12. ASSUME NEW h \in Hosts, NEW q \in Pins \cup ShortPins, SetPin(h, q) PROVE IInv'
    BY <1>12 DEF SetPin, Command
<1>13. ASSUME NEW h \in Hosts, NEW p \in Pins, NEW q \in Pins \cup ShortPins, ChangePin(h, p, q)
       PROVE  IInv'
    BY <1>13 DEF ChangePin, Command
<1>14. ASSUME NEW rp \in Rps, CliDelete(rp) PROVE IInv'
    BY <1>14 DEF CliDelete, Other
<1>15. ASSUME NEW c \in Creds, MakeCredential(c) PROVE IInv'
    BY <1>15 DEF MakeCredential, Other
<1>16. CASE FingerElsewhere
    BY <1>16 DEF FingerElsewhere, Other
<1>17. CASE FiveSecondsPass
    BY <1>17 DEF FiveSecondsPass
<1>18. CASE Crash
    BY <1>18 DEF Crash, Other, NoTask
<1>19. CASE UNCHANGED vars
    BY <1>19 DEF vars
<1> QED BY <1>1, <1>2, <1>3, <1>4, <1>5, <1>6, <1>7, <1>8, <1>9, <1>10, <1>11, <1>12, <1>13,
        <1>14, <1>15, <1>16, <1>17, <1>18, <1>19 DEF Next

\* A key agreement between a host's two commands makes its next command fail and nothing else.
LEMMA KeysKept == StaleKeyHarmless /\ [Next]_vars => StaleKeyHarmless'
<1> SUFFICES ASSUME StaleKeyHarmless, [Next]_vars PROVE StaleKeyHarmless'
    OBVIOUS
<1> USE DEF StaleKeyHarmless
<1>1. ASSUME NEW h \in Hosts, NEW q \in Pins \cup ShortPins, SetPin(h, q) PROVE StaleKeyHarmless'
    BY <1>1, ManageAssumption DEF SetPin, PinAuthOk, Decrypted, CreatePin
<1>2. ASSUME NEW h \in Hosts, NEW p \in Pins, NEW q \in Pins \cup ShortPins, ChangePin(h, p, q)
      PROVE  StaleKeyHarmless'
    BY <1>2, ManageAssumption DEF ChangePin, PinAuthOk, Decrypted, CreatePin
<1>3. CASE UNCHANGED <<pin, fails, wrong>>
    BY <1>3
<1>4. (\E h \in Hosts, q \in Pins \cup ShortPins : SetPin(h, q) \/ \E p \in Pins : ChangePin(h, p, q))
      \/ UNCHANGED <<pin, fails, wrong>>
    BY DEF Next, vars, pinVars, Collect, Collected, FingerOk, NotVerified, EnumerateRPsBegin,
        EnumerateRPsGetNext, EnumerateCredentialsGetNext, EnumerateCredentialsBegin,
        DeleteCredential, GetKeyAgreement, GetPinToken, CliDelete, MakeCredential,
        FingerElsewhere, FiveSecondsPass, Crash
<1> QED BY <1>1, <1>2, <1>3, <1>4

-----------------------------------------------------------------------------
\* authenticatorCredentialManagement and ClientPIN, whatever the hosts ask for and in whatever
\* order: nothing protected is listed to anybody without a finger, unless its command was
\* refused; no PIN is set that nobody meant, and no right PIN counts as wrong.
THEOREM HostsKeptApartAlways == Spec => []HostsKeptApart
<1>1. IInv /\ StaleKeyHarmless /\ [Next]_vars => (IInv /\ StaleKeyHarmless)'
    BY Inductive, KeysKept
<1>2. IInv /\ StaleKeyHarmless => HostsKeptApart
    BY DEF IInv, HostsKeptApart
<1> QED BY Initially, <1>1, <1>2, PTL DEF Spec

-----------------------------------------------------------------------------
(* Induction, and what is chosen of a sequence.                           *)

\* Induction: a property of numbers that fails somewhere has a first number where it fails.
LEMMA FirstFailure ==
  ASSUME NEW T, T \subseteq Nat, T # {}
  PROVE  \E n \in T : \A m \in T : n <= m
<1>1. PICK R : IsWellFoundedOn(R, Nat) /\ \A m, n \in Nat : m < n => <<m, n>> \in R
  <2>1. \A m, n \in Nat : m < n => <<m, n>> \in OpToRel(<, Nat)
    BY DEF OpToRel
  <2> HIDE DEF OpToRel
  <2> QED  BY <2>1, NatLessThanWellFounded, Zenon
<1>2. IsWellFoundedOn(R, Nat) => \E n \in T : \A m \in T : ~(<<m, n>> \in R)
  BY WFMin, Zenon
<1>3. PICK n \in T : \A m \in T : ~(<<m, n>> \in R)
  BY <1>1, <1>2, Zenon
<1>4. \A m \in Nat : m < n => <<m, n>> \in R
  BY <1>1
<1>5. \A m \in T : ~(m < n)
  BY <1>3, <1>4
<1> QED  BY <1>5

\* What Chosen defines, among the first n elements.
ChosenBy(f, s, I, n) ==
  f = [i \in 0..n |-> IF i = 0 THEN <<>> ELSE IF i \in I THEN Append(f[i - 1], s[i]) ELSE f[i - 1]]

\* There is such a function.
LEMMA ChosenExists ==
  ASSUME NEW s, NEW I, NEW n \in Nat
  PROVE  \E f : ChosenBy(f, s, I, n)
<1> DEFINE Val(f, i) == IF i = 0 THEN <<>> ELSE IF i \in I THEN Append(f[i - 1], s[i]) ELSE f[i - 1]
           Upto(m) == \E f : f = [i \in 0..m |-> Val(f, i)]
<1>1. Upto(0)
  <2> DEFINE g == [i \in 0..0 |-> <<>>]
  <2>1. g = [i \in 0..0 |-> Val(g, i)]
    OBVIOUS
  <2> QED  BY <2>1
<1>2. ASSUME NEW m \in Nat, Upto(m)
      PROVE  Upto(m + 1)
  <2>1. PICK f : f = [i \in 0..m |-> Val(f, i)]
    BY <1>2
  <2> DEFINE x == Val(f, m + 1)
             g == [i \in 0..m + 1 |-> IF i = m + 1 THEN x ELSE f[i]]
  <2>2. \A i \in 0..m + 1 : g[i] = Val(g, i)
    <3> HIDE DEF x
    <3>1. \A i \in 0..m + 1 : g[i] = IF i = m + 1 THEN x ELSE f[i]
      OBVIOUS
    <3>2. \A i \in 0..m : f[i] = Val(f, i)
      BY <2>1
    <3> HIDE DEF g
    <3> QED  BY <3>1, <3>2 DEF x
  <2>3. g = [i \in 0..m + 1 |-> g[i]]
    <3> HIDE DEF x
    <3> QED  OBVIOUS
  <2> HIDE DEF g
  <2>4. g = [i \in 0..m + 1 |-> Val(g, i)]
    BY <2>2, <2>3
  <2> QED  BY <2>4
<1> HIDE DEF Upto
<1>3. ASSUME ~Upto(n)
      PROVE  FALSE
  <2>1. PICK k \in {m \in Nat : ~Upto(m)} : \A m \in {m \in Nat : ~Upto(m)} : k <= m
    BY <1>3, FirstFailure
  <2>2. k # 0 /\ k - 1 \in Nat /\ (k - 1) + 1 = k
    BY <1>1, <2>1
  <2> QED  BY <1>2, <2>1, <2>2
<1> QED  BY <1>3 DEF Upto, ChosenBy

\* The equation that defines Chosen.
LEMMA ChosenStep ==
  ASSUME NEW S, NEW s \in Seq(S), NEW I
  PROVE  /\ Chosen(s, I)[0] = <<>>
         /\ \A n \in 1..Len(s) :
              Chosen(s, I)[n] = IF n \in I THEN Append(Chosen(s, I)[n - 1], s[n]) ELSE Chosen(s, I)[n - 1]
<1>1. \E f : ChosenBy(f, s, I, Len(s))
  <2>1. Len(s) \in Nat
    OBVIOUS
  <2> QED  BY <2>1, ChosenExists, Zenon
<1>2. Chosen(s, I) = CHOOSE f : ChosenBy(f, s, I, Len(s))
  BY DEF Chosen, ChosenBy
<1>3. ChosenBy(Chosen(s, I), s, I, Len(s))
  BY <1>1, <1>2, Zenon
<1>4. Len(s) \in Nat
  OBVIOUS
<1> DEFINE c == Chosen(s, I)
<1> HIDE DEF c
<1>5. c = [n \in 0..Len(s) |-> IF n = 0 THEN <<>> ELSE IF n \in I THEN Append(c[n - 1], s[n]) ELSE c[n - 1]]
  BY <1>3 DEF c, ChosenBy
<1>6. \A n \in 0..Len(s) : c[n] = IF n = 0 THEN <<>> ELSE IF n \in I THEN Append(c[n - 1], s[n]) ELSE c[n - 1]
  BY <1>5, Zenon
<1>7. /\ c[0] = <<>>
      /\ \A n \in 1..Len(s) : c[n] = IF n \in I THEN Append(c[n - 1], s[n]) ELSE c[n - 1]
  BY <1>4, <1>6
<1> QED  BY <1>7 DEF c

Distinct(s) == \A i, j \in 1..Len(s) : s[i] = s[j] => i = j

\* What is chosen among the first n elements: those at the indices in I, and each once if they differ.
ChosenRight(s, I, S, n) ==
  LET c == Chosen(s, I)[n]
  IN  /\ c \in Seq(S)
      /\ \A x : (\E k \in 1..Len(c) : c[k] = x) <=> (\E i \in 1..n : i \in I /\ s[i] = x)
      /\ (\A i, j \in 1..n : i \in I /\ j \in I /\ s[i] = s[j] => i = j) => Distinct(c)

\* By induction on the number of elements looked at.
LEMMA ChosenIs ==
  ASSUME NEW S, NEW s \in Seq(S), NEW I, NEW n \in 0..Len(s)
  PROVE  ChosenRight(s, I, S, n)
<1> DEFINE Bad == {m \in Nat : m <= Len(s) /\ ~ChosenRight(s, I, S, m)}
<1>1. ChosenRight(s, I, S, 0)
  <2>1. Chosen(s, I)[0] = <<>>
    BY ChosenStep
  <2> QED  BY <2>1 DEF ChosenRight, Distinct
<1>2. ASSUME NEW m \in 1..Len(s), ChosenRight(s, I, S, m - 1)
      PROVE  ChosenRight(s, I, S, m)
  <2> DEFINE b == Chosen(s, I)[m - 1]
             c == Chosen(s, I)[m]
  <2>1. c = IF m \in I THEN Append(b, s[m]) ELSE b
    BY ChosenStep
  <2>2. /\ b \in Seq(S)
        /\ \A x : (\E k \in 1..Len(b) : b[k] = x) <=> (\E i \in 1..m - 1 : i \in I /\ s[i] = x)
        /\ (\A i, j \in 1..m - 1 : i \in I /\ j \in I /\ s[i] = s[j] => i = j) => Distinct(b)
    BY <1>2 DEF ChosenRight
  <2> HIDE DEF b, c
  <2>3. /\ c \in Seq(S)
        /\ \A x : (\E k \in 1..Len(c) : c[k] = x) <=> (\E i \in 1..m : i \in I /\ s[i] = x)
        /\ (\A i, j \in 1..m : i \in I /\ j \in I /\ s[i] = s[j] => i = j) => Distinct(c)
    <3>1. \A i \in 1..m : i \in 1..m - 1 \/ i = m
      OBVIOUS
    <3>2. \A i \in 1..m - 1 : i \in 1..m /\ i # m
      OBVIOUS
    <3>3. CASE m \notin I
      BY <2>1, <2>2, <3>1, <3>2, <3>3
    <3>4. CASE m \in I
      <4>1. s[m] \in S /\ Len(b) \in Nat
        BY <2>2
      <4>2. /\ c \in Seq(S) /\ Len(c) = Len(b) + 1 /\ c[Len(b) + 1] = s[m]
            /\ \A k \in 1..Len(b) : c[k] = b[k]
        BY <2>1, <2>2, <3>4, <4>1, AppendProperties
      <4>3. \A x : (\E k \in 1..Len(c) : c[k] = x) <=> x = s[m] \/ (\E k \in 1..Len(b) : b[k] = x)
        BY <4>1, <4>2
      <4>4. \A x : (\E i \in 1..m : i \in I /\ s[i] = x) <=> x = s[m] \/ (\E i \in 1..m - 1 : i \in I /\ s[i] = x)
        BY <3>1, <3>2, <3>4
      <4>5. ASSUME \A i, j \in 1..m : i \in I /\ j \in I /\ s[i] = s[j] => i = j
            PROVE  Distinct(c)
        <5>1. Distinct(b)
          BY <2>2, <3>2, <4>5
        <5>2. \A k \in 1..Len(b) : b[k] # s[m]
          <6> SUFFICES ASSUME NEW k \in 1..Len(b), b[k] = s[m]
                       PROVE  FALSE
            OBVIOUS
          <6>1. PICK i \in 1..m - 1 : i \in I /\ s[i] = s[m]
            BY <2>2
          <6> QED  BY <3>2, <3>4, <4>5, <6>1
        <5> QED  BY <4>1, <4>2, <5>1, <5>2 DEF Distinct
      <4> QED  BY <2>2, <4>2, <4>3, <4>4, <4>5
    <3> QED  BY <3>3, <3>4
  <2> QED  BY <2>3 DEF ChosenRight, b, c
<1>3. ASSUME NEW k \in Bad, \A m \in Bad : k <= m
      PROVE  FALSE
  <2>1. k # 0 /\ k \in 1..Len(s) /\ k - 1 \in Nat /\ k - 1 <= Len(s)
    BY <1>1, <1>3
  <2>2. k - 1 \notin Bad
    BY <1>3, <2>1
  <2> QED  BY <1>2, <1>3, <2>1, <2>2
<1>4. Bad = {}
  BY <1>3, FirstFailure
<1> QED  BY <1>4

-----------------------------------------------------------------------------
(* Sequences without repetition, and what a walk has taken of one.         *)

\* The elements of a sequence are what it has at its indices.
LEMMA Elements ==
  ASSUME NEW S, NEW s \in Seq(S)
  PROVE  /\ \A x : x \in ToSet(s) <=> \E i \in 1..Len(s) : s[i] = x
         /\ IsInjective(s) <=> Distinct(s)
         /\ ToSet(s) \subseteq S
<1>1. DOMAIN s = 1..Len(s) /\ \A i \in 1..Len(s) : s[i] \in S
  OBVIOUS
<1> QED  BY <1>1 DEF ToSet, IsInjective, Distinct

\* A sequence without repetition has as many elements as its set.
LEMMA DistinctCount ==
  ASSUME NEW S, NEW s \in Seq(S), Distinct(s)
  PROVE  Cardinality(ToSet(s)) = Len(s)
<1>1. Len(s) \in Nat /\ s \in [1..Len(s) -> S] /\ DOMAIN s = 1..Len(s)
  OBVIOUS
<1>2. s \in [1..Len(s) -> ToSet(s)] /\ \A x \in ToSet(s) : \E i \in 1..Len(s) : s[i] = x
  BY <1>1 DEF ToSet
<1>3. s \in Bijection(1..Len(s), ToSet(s))
  BY <1>1, <1>2 DEF Distinct, Bijection, Injection, Surjection, IsInjective
<1>4. ExistsBijection(1..Len(s), ToSet(s))
  BY <1>3 DEF ExistsBijection
<1>5. IsFiniteSet(1..Len(s)) /\ Cardinality(1..Len(s)) = Len(s)
  BY <1>1, FS_Interval
<1> QED  BY <1>4, <1>5, FS_Bijection, Zenon

\* got is the first idx elements of list.
Taken(got, list, idx) ==
  /\ idx \in 0..Len(list) /\ Len(got) = idx /\ got \in Seq(ToSet(list))
  /\ \A i \in 1..idx : got[i] = list[i]

\* list[idx++]: one more is taken, until there are no more.
LEMMA TakeNext ==
  ASSUME NEW S, NEW list \in Seq(S), NEW got, NEW idx, Taken(got, list, idx)
  PROVE  LET more == ItemAt(list, idx + 1)
         IN  /\ Len(more) \in Nat
             /\ Taken(got \o more, list, idx + Len(more))
             /\ more = <<>> => idx = Len(list)
             /\ idx = Len(list) => more = <<>>
<1> DEFINE more == ItemAt(list, idx + 1)
<1>1. Len(list) \in Nat /\ idx \in Nat /\ idx + 1 \in Nat /\ idx <= Len(list) /\ list \in Seq(ToSet(list))
  <2>1. DOMAIN list = 1..Len(list) /\ list \in Seq(ToSet(list))
    BY DEF ToSet
  <2> QED  BY <2>1 DEF Taken
<1>2. Min({idx + 1, Len(list)}) = IF idx + 1 <= Len(list) THEN idx + 1 ELSE Len(list)
  BY <1>1, MinOfTwo
<1>3. CASE idx + 1 <= Len(list)
  <2>1. more = SubSeq(list, idx + 1, idx + 1)
    BY <1>2, <1>3 DEF ItemAt
  <2>2. /\ more \in Seq(ToSet(list)) /\ Len(more) = 1 /\ more[1] = list[idx + 1]
    <3>1. \A i \in idx + 1..idx + 1 : list[i] \in ToSet(list)
      BY <1>1, <1>3
    <3> QED  BY <1>1, <2>1, <3>1, SubSeqProperties, SMTT(60)
  <2> HIDE DEF more
  <2>3. /\ got \o more \in Seq(ToSet(list)) /\ Len(got \o more) = idx + 1
        /\ \A i \in 1..idx + 1 : (got \o more)[i] = IF i <= idx THEN got[i] ELSE list[idx + 1]
    <3>1. got \in Seq(ToSet(list)) /\ Len(got) = idx
      BY DEF Taken
    <3>2. /\ got \o more \in Seq(ToSet(list)) /\ Len(got \o more) = Len(got) + Len(more)
          /\ \A i \in 1..Len(got) + Len(more) : (got \o more)[i] = IF i <= Len(got) THEN got[i] ELSE more[i - Len(got)]
      BY <2>2, <3>1, ConcatProperties
    <3>3. \A i \in 1..idx + 1 : ~(i <= idx) => i - idx = 1
      BY <1>1
    <3> QED  BY <1>1, <2>2, <3>1, <3>2, <3>3
  <2>4. Taken(got \o more, list, idx + Len(more))
    BY <1>1, <1>3, <2>2, <2>3 DEF Taken
  <2>5. more # <<>>
    <3> SUFFICES ASSUME more = <<>>
                 PROVE  FALSE
      OBVIOUS
    <3>1. Len(more) = 0
      OBVIOUS
    <3> QED  BY <2>2, <3>1
  <2> QED  BY <1>1, <1>3, <2>2, <2>4, <2>5 DEF more
<1>4. CASE ~(idx + 1 <= Len(list))
  <2>1. more = <<>>
    BY <1>1, <1>2, <1>4, SubSeqEmpty DEF ItemAt
  <2>2. idx = Len(list)
    BY <1>1, <1>4
  <2>3. got \o <<>> = got /\ Len(<<>>) = 0 /\ idx + 0 = idx
    BY <1>1 DEF Taken
  <2>4. Taken(got \o more, list, idx + Len(more)) /\ Len(more) \in Nat
    BY <2>1, <2>3
  <2> HIDE DEF more
  <2> QED  BY <2>1, <2>2, <2>4 DEF more
<1> QED  BY <1>3, <1>4

\* The first element, if there is one.
LEMMA TakeFirst ==
  ASSUME NEW S, NEW list \in Seq(S)
  PROVE  /\ Taken(ItemAt(list, 1), list, Min({1, Len(list)}))
         /\ ItemAt(list, 1) = <<>> => Min({1, Len(list)}) = Len(list)
<1>1. Len(list) \in Nat
  OBVIOUS
<1>2. Taken(<<>>, list, 0)
  BY <1>1 DEF Taken
<1> DEFINE more == ItemAt(list, 0 + 1)
<1>3. /\ Len(more) \in Nat /\ Taken(<<>> \o more, list, 0 + Len(more)) /\ (more = <<>> => 0 = Len(list))
      /\ (0 = Len(list) => more = <<>>)
  BY <1>2, TakeNext, Zenon
<1>4. Min({1, Len(list)}) = IF 1 <= Len(list) THEN 1 ELSE Len(list)
  BY <1>1, MinOfTwo
<1>5. more = SubSeq(list, 1, Min({1, Len(list)}))
  BY DEF ItemAt
<1>6. Len(more) = Min({1, Len(list)}) /\ <<>> \o more = more
  <2>1. \A i \in 1..Min({1, Len(list)}) : list[i] \in S
    BY <1>1, <1>4
  <2> QED  BY <1>1, <1>4, <1>5, <2>1, SubSeqProperties
<1> QED  BY <1>1, <1>3, <1>6

\* What is taken of a list without repetition.
LEMMA TakenDistinct ==
  ASSUME NEW S, NEW list \in Seq(S), NEW got, NEW idx, Taken(got, list, idx), Distinct(list)
  PROVE  /\ IsInjective(got) /\ ToSet(got) \subseteq ToSet(list) /\ IsPrefix(got, list)
         /\ idx = Len(list) => got = list
<1>1. /\ Len(list) \in Nat /\ idx \in Nat /\ idx <= Len(list) /\ Len(got) = idx /\ got \in Seq(ToSet(list))
      /\ \A i \in 1..idx : got[i] = list[i]
  BY DEF Taken
<1>2. IsInjective(got)
  BY <1>1, Elements DEF Distinct
<1>3. ToSet(got) \subseteq ToSet(list)
  BY <1>1, Elements
<1>4. got \in Seq(S) /\ list \in Seq(S)
  BY <1>1, Elements
<1>5. idx = Len(list) => got = list
  BY <1>1, <1>4, SeqEqual
<1>6. SubSeq(got, 1, Len(got)) = SubSeq(list, 1, Len(got))
  <2>1. /\ SubSeq(got, 1, idx) \in Seq(S) /\ Len(SubSeq(got, 1, idx)) = idx
        /\ \A i \in 1..idx : SubSeq(got, 1, idx)[i] = got[i]
    BY <1>1, <1>4, SubSeqProperties
  <2>2. /\ SubSeq(list, 1, idx) \in Seq(S) /\ Len(SubSeq(list, 1, idx)) = idx
        /\ \A i \in 1..idx : SubSeq(list, 1, idx)[i] = list[i]
    <3>1. \A i \in 1..idx : list[i] \in S
      BY <1>1, <1>4
    <3> QED  BY <1>1, <3>1, SubSeqProperties
  <2>3. \A i \in 1..idx : SubSeq(got, 1, idx)[i] = SubSeq(list, 1, idx)[i]
    BY <1>1, <2>1, <2>2
  <2> QED  BY <1>1, <2>1, <2>2, <2>3, SeqEqual
<1> QED  BY <1>1, <1>2, <1>3, <1>5, <1>6 DEF IsPrefix

-----------------------------------------------------------------------------
(* The lists of the storage.                                               *)

\* The file without some credentials.
LEMMA WithoutRight ==
  ASSUME NEW s \in Seq(Creds), Distinct(s), NEW S
  PROVE  Without(s, S) \in Seq(Creds) /\ Distinct(Without(s, S)) /\ ToSet(Without(s, S)) \subseteq ToSet(s)
<1> DEFINE I == {i \in 1..Len(s) : s[i] \notin S}
<1>1. Len(s) \in Nat /\ Len(s) \in 0..Len(s)
  OBVIOUS
<1>2. ChosenRight(s, I, Creds, Len(s))
  BY <1>1, ChosenIs
<1>3. Without(s, S) = Chosen(s, I)[Len(s)]
  BY DEF Without
<1> HIDE DEF I
<1>4. Without(s, S) \in Seq(Creds) /\ Distinct(Without(s, S))
      /\ \A x : (\E k \in 1..Len(Without(s, S)) : Without(s, S)[k] = x) => (\E i \in 1..Len(s) : s[i] = x)
  BY <1>2, <1>3 DEF ChosenRight, Distinct
<1> QED  BY <1>4, Elements

\* Those of a relying party.
LEMMA OfRpRight ==
  ASSUME NEW s \in Seq(Creds), Distinct(s), NEW rp
  PROVE  /\ OfRp(s, rp) \in Seq(Creds) /\ Distinct(OfRp(s, rp))
         /\ \A c : c \in ToSet(OfRp(s, rp)) <=> c \in ToSet(s) /\ RpOf[c] = rp
<1> DEFINE I == {i \in 1..Len(s) : RpOf[s[i]] = rp}
<1>1. Len(s) \in Nat /\ Len(s) \in 0..Len(s)
  OBVIOUS
<1>2. ChosenRight(s, I, Creds, Len(s))
  BY <1>1, ChosenIs
<1>3. OfRp(s, rp) = Chosen(s, I)[Len(s)]
  BY DEF OfRp
<1>4. \A i \in 1..Len(s) : i \in I <=> RpOf[s[i]] = rp
  OBVIOUS
<1> HIDE DEF I
<1>5. OfRp(s, rp) \in Seq(Creds) /\ Distinct(OfRp(s, rp))
      /\ \A x : (\E k \in 1..Len(OfRp(s, rp)) : OfRp(s, rp)[k] = x) <=> (\E i \in 1..Len(s) : i \in I /\ s[i] = x)
  BY <1>2, <1>3 DEF ChosenRight, Distinct
<1>6. \A c : c \in ToSet(s) <=> \E i \in 1..Len(s) : s[i] = c
  BY Elements
<1>7. \A c : c \in ToSet(OfRp(s, rp)) <=> \E k \in 1..Len(OfRp(s, rp)) : OfRp(s, rp)[k] = c
  BY <1>5, Elements
<1>8. \A c : (\E i \in 1..Len(s) : i \in I /\ s[i] = c) <=> c \in ToSet(s) /\ RpOf[c] = rp
  BY <1>4, <1>6
<1> QED  BY <1>5, <1>7, <1>8

\* getAllStoredRpIds: every relying party with a record, once.
LEMMA StoredRpIdsRight ==
  ASSUME records \in Seq(Creds)
  PROVE  /\ StoredRpIds \in Seq(Rps) /\ Distinct(StoredRpIds)
         /\ ToSet(StoredRpIds) = {RpOf[c] : c \in ToSet(records)}
<1> DEFINE rps == [i \in 1..Len(records) |-> RpOf[records[i]]]
           I == {i \in 1..Len(rps) : \A j \in 1..i - 1 : rps[j] # rps[i]}
<1>1. Len(records) \in Nat /\ \A i \in 1..Len(records) : records[i] \in Creds /\ RpOf[records[i]] \in Rps
  BY ManageAssumption
<1>2. rps \in Seq(Rps) /\ Len(rps) = Len(records) /\ \A i \in 1..Len(records) : rps[i] = RpOf[records[i]]
  BY <1>1
<1>3. StoredRpIds = Chosen(rps, I)[Len(rps)]
  BY DEF StoredRpIds
<1> HIDE DEF rps
<1>4. Len(rps) \in 0..Len(rps)
  BY <1>1, <1>2
<1>5. ChosenRight(rps, I, Rps, Len(rps))
  BY <1>2, <1>4, ChosenIs
<1>6. \A i, j \in 1..Len(rps) : i \in I /\ j \in I /\ rps[i] = rps[j] => i = j
  <2> SUFFICES ASSUME NEW i \in 1..Len(rps), NEW j \in 1..Len(rps), i \in I, j \in I, rps[i] = rps[j]
               PROVE  i = j
    OBVIOUS
  <2>1. ~(i < j) /\ ~(j < i)
    BY <1>1, <1>2
  <2> QED  BY <1>1, <1>2, <2>1
<1>7. ASSUME NEW n \in 1..Len(rps)
      PROVE  \E i \in 1..Len(rps) : i \in I /\ rps[i] = rps[n]
  <2> DEFINE Same == {i \in 1..Len(rps) : rps[i] = rps[n]}
  <2>1. Same \subseteq Nat /\ Same # {}
    BY <1>1, <1>2
  <2>2. PICK i \in Same : \A m \in Same : i <= m
    BY <2>1, FirstFailure
  <2>3. i \in I
    <3> SUFFICES ASSUME NEW j \in 1..i - 1, rps[j] = rps[i]
                 PROVE  FALSE
      BY <2>2
    <3>1. j \in Same /\ ~(i <= j)
      BY <1>1, <1>2, <2>2
    <3> QED  BY <2>2, <3>1
  <2> QED  BY <2>2, <2>3
<1> HIDE DEF I
<1>8. /\ StoredRpIds \in Seq(Rps) /\ Distinct(StoredRpIds)
      /\ \A x : (\E k \in 1..Len(StoredRpIds) : StoredRpIds[k] = x) <=> (\E i \in 1..Len(rps) : i \in I /\ rps[i] = x)
  BY <1>3, <1>5, <1>6 DEF ChosenRight
<1>9. \A x : x \in ToSet(StoredRpIds) <=> \E n \in 1..Len(rps) : rps[n] = x
  <2>1. \A x : x \in ToSet(StoredRpIds) <=> \E k \in 1..Len(StoredRpIds) : StoredRpIds[k] = x
    BY <1>8, Elements
  <2> QED  BY <1>7, <1>8, <2>1
<1>10. \A c : c \in ToSet(records) <=> \E i \in 1..Len(records) : records[i] = c
  BY Elements
<1>11. \A x : x \in ToSet(StoredRpIds) <=> \E c \in ToSet(records) : x = RpOf[c]
  BY <1>2, <1>9, <1>10
<1> QED  BY <1>8, <1>11

-----------------------------------------------------------------------------
(* Walks.                                                                  *)

IsWalk(w) == w = NoWalk \/ DOMAIN w = {"active", "snap", "total", "got", "clean", "intact", "ended"}

AreWalks(walk) == DOMAIN walk = Hosts /\ \A h \in Hosts : IsWalk(walk[h])

\* The hosts but h are on their own no longer.
Alone(walk, h) == \A g \in Hosts : g # h /\ walk[g].active => ~walk[g].clean

\* A host disturbs the walks of the others, not its own.
LEMMA Disturbed ==
  ASSUME NEW walk, AreWalks(walk), NEW h \in Hosts
  PROVE  AreWalks(Disturb(walk, h)) /\ Alone(Disturb(walk, h), h) /\ Disturb(walk, h)[h] = walk[h]
<1>1. DOMAIN Disturb(walk, h) = Hosts
  BY DEF Disturb
<1>2. \A g \in Hosts : Disturb(walk, h)[g] = IF g # h /\ walk[g].active THEN [walk[g] EXCEPT !.clean = FALSE] ELSE walk[g]
  BY DEF Disturb
<1>3. ASSUME NEW g \in Hosts
      PROVE  /\ IsWalk(Disturb(walk, h)[g])
             /\ g # h /\ Disturb(walk, h)[g].active => ~Disturb(walk, h)[g].clean
  <2>1. CASE g # h /\ walk[g].active
    <3>1. Disturb(walk, h)[g] = [walk[g] EXCEPT !.clean = FALSE]
      BY <1>2, <2>1
    <3>2. DOMAIN walk[g] = {"active", "snap", "total", "got", "clean", "intact", "ended"}
      BY <2>1 DEF AreWalks, IsWalk, NoWalk
    <3> QED  BY <3>1, <3>2 DEF IsWalk
  <2>2. CASE ~(g # h /\ walk[g].active)
    BY <1>2, <2>2 DEF AreWalks
  <2> QED  BY <2>1, <2>2
<1> QED  BY <1>1, <1>2, <1>3 DEF AreWalks, Alone

\* A host that begins has the snapshot, the number and the first element.
LEMMA Begins ==
  ASSUME NEW walk, AreWalks(walk), NEW h \in Hosts, NEW snap, NEW total, NEW first
  PROVE  LET b == Begun(walk, h, snap, total, first)
         IN  /\ AreWalks(b) /\ Alone(b, h)
             /\ b[h].active /\ b[h].snap = snap /\ b[h].total = total /\ b[h].got = first /\ b[h].intact
             /\ b[h].ended <=> first = <<>>
<1> DEFINE w == [active |-> TRUE, snap |-> snap, total |-> total, got |-> first,
                 clean |-> TRUE, intact |-> TRUE, ended |-> first = <<>>]
           d == Disturb(walk, h)
           b == Begun(walk, h, snap, total, first)
<1>1. AreWalks(d) /\ Alone(d, h)
  BY Disturbed
<1>2. b = [d EXCEPT ![h] = w]
  BY DEF Begun
<1>3. /\ IsWalk(w) /\ w.active /\ w.snap = snap /\ w.total = total /\ w.got = first /\ w.intact
      /\ w.ended <=> first = <<>>
  BY DEF IsWalk
<1> HIDE DEF w, d, b
<1>4. DOMAIN b = Hosts /\ b[h] = w /\ \A g \in Hosts : g # h => b[g] = d[g]
  BY <1>1, <1>2 DEF AreWalks
<1>5. AreWalks(b) /\ Alone(b, h)
  BY <1>1, <1>3, <1>4 DEF AreWalks, Alone
<1>6. /\ b[h].active /\ b[h].snap = snap /\ b[h].total = total /\ b[h].got = first /\ b[h].intact
      /\ b[h].ended <=> first = <<>>
  BY <1>3, <1>4
<1> QED  BY <1>5, <1>6 DEF b

\* A host that goes on has one element more, or is told that there are no more.
LEMMA Goes ==
  ASSUME NEW walk, AreWalks(walk), NEW h \in Hosts, NEW more
  PROVE  LET b == Went(walk, h, more)
         IN  /\ AreWalks(b) /\ Alone(b, h)
             /\ b[h].active <=> walk[h].active
             /\ walk[h].active =>
                  /\ b[h].got = walk[h].got \o more /\ b[h].snap = walk[h].snap /\ b[h].total = walk[h].total
                  /\ b[h].clean <=> walk[h].clean
                  /\ b[h].intact <=> walk[h].intact
                  /\ b[h].ended <=> walk[h].ended \/ more = <<>>
<1> DEFINE d == Disturb(walk, h)
           b == Went(walk, h, more)
<1>1. AreWalks(d) /\ Alone(d, h) /\ d[h] = walk[h]
  BY Disturbed
<1>2. CASE ~walk[h].active
  <2>1. b = d
    BY <1>2 DEF Went
  <2> HIDE DEF b, d
  <2> QED  BY <1>1, <1>2, <2>1 DEF b
<1>3. CASE walk[h].active
  <2> DEFINE w == [walk[h] EXCEPT !.got = @ \o more, !.ended = @ \/ more = <<>>]
  <2>1. DOMAIN walk[h] = {"active", "snap", "total", "got", "clean", "intact", "ended"}
    BY <1>3 DEF AreWalks, IsWalk, NoWalk
  <2>2. b = [d EXCEPT ![h] = w]
    <3> HIDE DEF d
    <3>1. b = [d EXCEPT ![h].got = @ \o more, ![h].ended = @ \/ more = <<>>]
      BY <1>3 DEF Went, d
    <3> HIDE DEF b
    <3>2. DOMAIN d = Hosts
      BY <1>1 DEF AreWalks
    <3> QED  BY <1>1, <3>1, <3>2
  <2>3. /\ DOMAIN w = DOMAIN walk[h] /\ w.got = walk[h].got \o more /\ w.snap = walk[h].snap /\ w.total = walk[h].total
        /\ (w.ended <=> walk[h].ended \/ more = <<>>)
        /\ (w.active <=> walk[h].active) /\ (w.clean <=> walk[h].clean) /\ (w.intact <=> walk[h].intact)
    BY <2>1
  <2> HIDE DEF w, d, b
  <2>4. DOMAIN b = Hosts /\ b[h] = w /\ \A g \in Hosts : g # h => b[g] = d[g]
    BY <1>1, <2>2 DEF AreWalks
  <2>5. AreWalks(b) /\ Alone(b, h)
    BY <1>1, <2>1, <2>3, <2>4 DEF AreWalks, Alone, IsWalk
  <2> QED  BY <2>3, <2>4, <2>5 DEF b
<1> QED  BY <1>2, <1>3

-----------------------------------------------------------------------------
(* The walk through the relying parties.                                   *)

FileHeld == records \in Seq(Creds) /\ Distinct(records) /\ ToSet(records) \subseteq used

RpListHeld == enumRpList \in Seq(Rps) /\ Distinct(enumRpList) /\ enumRpIdx \in 0..Len(enumRpList)

\* An undisturbed walk is a beginning of the list, up to the cursor.
RpFollows(w) ==
  w.active /\ w.clean =>
    /\ ToSet(enumRpList) = w.snap /\ w.total = Len(enumRpList)
    /\ Taken(w.got, enumRpList, enumRpIdx)
    /\ w.ended => enumRpIdx = Len(enumRpList)

RpInv == RpListHeld /\ AreWalks(rpWalk) /\ \A h \in Hosts : RpFollows(rpWalk[h])

\* deletePasskeyRecord, deleteFidoWebsite and MakeCredential keep each record once.
LEMMA FileKept == FileHeld /\ [Next]_vars => FileHeld'
<1> SUFFICES ASSUME FileHeld, [Next]_vars PROVE FileHeld'
  OBVIOUS
<1>1. ASSUME NEW S, records' = Without(records, S), UNCHANGED used
      PROVE  FileHeld'
  BY <1>1, WithoutRight DEF FileHeld
<1>2. ASSUME NEW c \in Creds, c \notin used, records' = Append(records, c), used' = used \cup {c}
      PROVE  FileHeld'
  <2>1. Len(records) \in Nat /\ \A i \in 1..Len(records) : records[i] # c
    <3>1. \A x : x \in ToSet(records) <=> \E i \in 1..Len(records) : records[i] = x
      BY Elements DEF FileHeld
    <3> QED  BY <1>2, <3>1 DEF FileHeld
  <2>2. /\ records' \in Seq(Creds) /\ Len(records') = Len(records) + 1 /\ records'[Len(records) + 1] = c
        /\ \A i \in 1..Len(records) : records'[i] = records[i]
    BY <1>2, AppendProperties DEF FileHeld
  <2>3. Distinct(records')
    BY <2>1, <2>2 DEF FileHeld, Distinct
  <2>4. ToSet(records') \subseteq used'
    <3>1. \A x : x \in ToSet(records') <=> \E i \in 1..Len(records') : records'[i] = x
      BY <2>2, Elements
    <3>2. \A x : x \in ToSet(records) <=> \E i \in 1..Len(records) : records[i] = x
      BY Elements DEF FileHeld
    <3> QED  BY <1>2, <2>1, <2>2, <3>1, <3>2 DEF FileHeld
  <2> QED  BY <2>2, <2>3, <2>4 DEF FileHeld
<1>3. CASE UNCHANGED <<records, used>>
  BY <1>3 DEF FileHeld
<1>4. \/ \E S : records' = Without(records, S) /\ UNCHANGED used
      \/ \E c \in Creds : c \notin used /\ records' = Append(records, c) /\ used' = used \cup {c}
      \/ UNCHANGED <<records, used>>
  BY Zenon DEF Next, vars, Command, Other, Collect, Collected, FingerOk, NotVerified, EnumerateRPsBegin,
    EnumerateRPsGetNext, EnumerateCredentialsGetNext, EnumerateCredentialsBegin,
    DeleteCredential, GetKeyAgreement, GetPinToken, SetPin, ChangePin, CliDelete, MakeCredential,
    FingerElsewhere, FiveSecondsPass, Crash
<1> QED  BY <1>1, <1>2, <1>3, <1>4

\* getAllStoredRpIds: the cursor is behind the first relying party.
LEMMA RpBegins ==
  ASSUME FileHeld, RpInv, NEW h \in Hosts, EnumerateRPsBegin(h)
  PROVE  RpInv'
<1>1. /\ enumRpList' = StoredRpIds /\ enumRpIdx' = Min({1, Len(StoredRpIds)})
      /\ rpWalk' = Begun(rpWalk, h, {RpOf[c] : c \in ToSet(records)}, Len(StoredRpIds), ItemAt(StoredRpIds, 1))
  BY DEF EnumerateRPsBegin
<1>2. /\ StoredRpIds \in Seq(Rps) /\ Distinct(StoredRpIds)
      /\ ToSet(StoredRpIds) = {RpOf[c] : c \in ToSet(records)}
  BY StoredRpIdsRight DEF FileHeld
<1>3. /\ Taken(ItemAt(StoredRpIds, 1), StoredRpIds, Min({1, Len(StoredRpIds)}))
      /\ ItemAt(StoredRpIds, 1) = <<>> => Min({1, Len(StoredRpIds)}) = Len(StoredRpIds)
  BY <1>2, TakeFirst
<1>4. /\ AreWalks(rpWalk') /\ Alone(rpWalk', h)
      /\ rpWalk'[h].snap = {RpOf[c] : c \in ToSet(records)} /\ rpWalk'[h].total = Len(StoredRpIds)
      /\ rpWalk'[h].got = ItemAt(StoredRpIds, 1)
      /\ rpWalk'[h].ended <=> ItemAt(StoredRpIds, 1) = <<>>
  <2> DEFINE snap == {RpOf[c] : c \in ToSet(records)}
  <2> HIDE DEF snap
  <2>1. rpWalk' = Begun(rpWalk, h, snap, Len(StoredRpIds), ItemAt(StoredRpIds, 1))
    BY <1>1 DEF snap
  <2>2. /\ AreWalks(rpWalk') /\ Alone(rpWalk', h)
        /\ rpWalk'[h].snap = snap /\ rpWalk'[h].total = Len(StoredRpIds) /\ rpWalk'[h].got = ItemAt(StoredRpIds, 1)
        /\ rpWalk'[h].ended <=> ItemAt(StoredRpIds, 1) = <<>>
    BY <2>1, Begins DEF RpInv
  <2> QED  BY <2>2 DEF snap
<1>5. RpListHeld'
  BY <1>1, <1>2, <1>3 DEF RpListHeld, Taken
<1>6. \A g \in Hosts : RpFollows(rpWalk[g])'
  <2>1. ASSUME NEW g \in Hosts, g # h
        PROVE  RpFollows(rpWalk[g])'
    BY <1>4, <2>1 DEF Alone, RpFollows
  <2>2. RpFollows(rpWalk[h])'
    BY <1>1, <1>2, <1>3, <1>4 DEF RpFollows
  <2> QED  BY <2>1, <2>2
<1> QED  BY <1>4, <1>5, <1>6 DEF RpInv

\* The next relying party of the list, for whoever asks.
LEMMA RpGoesOn ==
  ASSUME RpInv, NEW h \in Hosts, EnumerateRPsGetNext(h)
  PROVE  RpInv'
<1> DEFINE more == ItemAt(enumRpList, enumRpIdx + 1)
<1>1. /\ enumRpIdx' = enumRpIdx + Len(more) /\ rpWalk' = Went(rpWalk, h, more) /\ enumRpList' = enumRpList
  BY DEF EnumerateRPsGetNext
<1>2. enumRpList \in Seq(Rps) /\ Distinct(enumRpList) /\ enumRpIdx \in 0..Len(enumRpList)
  BY DEF RpInv, RpListHeld
<1>3. \A got : Taken(got, enumRpList, enumRpIdx) =>
        Taken(got \o more, enumRpList, enumRpIdx + Len(more)) /\ (more = <<>> => enumRpIdx = Len(enumRpList))
        /\ (enumRpIdx = Len(enumRpList) => more = <<>>) /\ Len(more) \in Nat
  BY <1>2, TakeNext
<1> HIDE DEF more
<1>4. enumRpIdx' \in 0..Len(enumRpList)
  <2>1. \E got : Taken(got, enumRpList, enumRpIdx)
    <3> DEFINE got == SubSeq(enumRpList, 1, enumRpIdx)
    <3>1. \A i \in 1..enumRpIdx : enumRpList[i] \in ToSet(enumRpList)
      BY <1>2, Elements
    <3>2. Taken(got, enumRpList, enumRpIdx)
      BY <1>2, <3>1, SubSeqProperties DEF Taken
    <3> QED  BY <3>2
  <2> QED  BY <1>1, <1>3, <2>1 DEF Taken
<1>5. AreWalks(rpWalk) /\ \A g \in Hosts : RpFollows(rpWalk[g])
  BY DEF RpInv
<1>6. /\ AreWalks(rpWalk') /\ Alone(rpWalk', h)
      /\ rpWalk'[h].active <=> rpWalk[h].active
      /\ rpWalk[h].active =>
           /\ rpWalk'[h].got = rpWalk[h].got \o more /\ rpWalk'[h].snap = rpWalk[h].snap
           /\ rpWalk'[h].total = rpWalk[h].total
           /\ rpWalk'[h].clean <=> rpWalk[h].clean
           /\ rpWalk'[h].ended <=> rpWalk[h].ended \/ more = <<>>
  <2> DEFINE b == Went(rpWalk, h, more)
  <2>1. /\ AreWalks(b) /\ Alone(b, h)
        /\ b[h].active <=> rpWalk[h].active
        /\ rpWalk[h].active =>
             /\ b[h].got = rpWalk[h].got \o more /\ b[h].snap = rpWalk[h].snap /\ b[h].total = rpWalk[h].total
             /\ b[h].clean <=> rpWalk[h].clean
             /\ b[h].intact <=> rpWalk[h].intact
             /\ b[h].ended <=> rpWalk[h].ended \/ more = <<>>
    BY <1>5, Goes, Zenon
  <2>2. rpWalk' = b
    BY <1>1
  <2> HIDE DEF b
  <2> QED  BY <2>1, <2>2
<1>7. \A g \in Hosts : RpFollows(rpWalk[g])'
  <2>1. ASSUME NEW g \in Hosts, g # h
        PROVE  RpFollows(rpWalk[g])'
    BY <1>6, <2>1 DEF Alone, RpFollows
  <2>2. ASSUME rpWalk[h].active, rpWalk[h].clean
        PROVE  /\ ToSet(enumRpList) = rpWalk[h].snap /\ rpWalk[h].total = Len(enumRpList)
               /\ Taken(rpWalk[h].got \o more, enumRpList, enumRpIdx')
               /\ rpWalk[h].ended \/ more = <<>> => enumRpIdx' = Len(enumRpList)
    <3>1. /\ ToSet(enumRpList) = rpWalk[h].snap /\ rpWalk[h].total = Len(enumRpList)
          /\ Taken(rpWalk[h].got, enumRpList, enumRpIdx)
          /\ rpWalk[h].ended => enumRpIdx = Len(enumRpList)
      BY <1>5, <2>2 DEF RpFollows
    <3>2. more = <<>> => Len(more) = 0
      OBVIOUS
    <3> QED  BY <1>1, <1>2, <1>3, <3>1, <3>2
  <2>3. RpFollows(rpWalk[h])'
    BY <1>1, <1>6, <2>2 DEF RpFollows
  <2> QED  BY <2>1, <2>3
<1> QED  BY <1>1, <1>2, <1>4, <1>6, <1>7 DEF RpInv, RpListHeld

\* Every step keeps the walks along the list of relying parties.
LEMMA RpKept == FileHeld /\ RpInv /\ [Next]_vars => RpInv'
<1> SUFFICES ASSUME FileHeld, RpInv, [Next]_vars PROVE RpInv'
  OBVIOUS
<1>1. CASE UNCHANGED <<enumRpList, enumRpIdx, rpWalk>>
  BY <1>1 DEF RpInv, RpListHeld, RpFollows
<1>2. CASE Crash
  <2>1. enumRpList' = <<>> /\ enumRpIdx' = 0 /\ rpWalk' = [h \in Hosts |-> NoWalk]
    BY <1>2 DEF Crash
  <2>2. RpListHeld'
    BY <2>1 DEF RpListHeld, Distinct
  <2>3. AreWalks(rpWalk') /\ \A h \in Hosts : ~rpWalk'[h].active
    BY <2>1 DEF AreWalks, IsWalk, NoWalk
  <2> QED  BY <2>2, <2>3 DEF RpInv, RpFollows
<1>3. \/ \E h \in Hosts : EnumerateRPsBegin(h) \/ EnumerateRPsGetNext(h)
      \/ Crash
      \/ UNCHANGED <<enumRpList, enumRpIdx, rpWalk>>
  BY Zenon DEF Next, vars, cursorVars, walkVars, Command, Other, Collect, Collected, FingerOk, NotVerified,
    EnumerateCredentialsGetNext, EnumerateCredentialsBegin,
    DeleteCredential, GetKeyAgreement, GetPinToken, SetPin, ChangePin, CliDelete, MakeCredential,
    FingerElsewhere, FiveSecondsPass
<1> QED  BY <1>1, <1>2, <1>3, RpBegins, RpGoesOn

-----------------------------------------------------------------------------
(* The walk through the credentials of a relying party.                    *)

CredListHeld == enumCredList \in Seq(Creds) /\ Distinct(enumCredList) /\ enumCredIdx \in 0..Len(enumCredList)

\* The list has credentials of the snapshot; all of them, in the order of the file, unless a deletion came
\* while they were collected.
Listed(w) ==
  /\ ToSet(enumCredList) \subseteq ToSet(w.snap)
  /\ w.intact => enumCredList = w.snap

\* An undisturbed walk is a beginning of the list, up to the cursor.
CredFollows(w) ==
  w.active /\ w.clean /\ task = NoTask =>
    /\ Listed(w) /\ Taken(w.got, enumCredList, enumCredIdx) /\ w.total = Len(enumCredList)
    /\ w.ended => enumCredIdx = Len(enumCredList)

\* A command under way has disturbed the others, and told its host nothing yet.
Beginning ==
  task # NoTask =>
    /\ task.host \in Hosts /\ Alone(credWalk, task.host)
    /\ credWalk[task.host].active /\ credWalk[task.host].got = <<>> /\ credWalk[task.host].total = 0
    /\ enumCredIdx = 0

\* What is collected is of the snapshot; without a deletion it is what the file has of the relying party as far
\* as it has been looked at.
InFileOrder ==
  LET done == Len(records) - Len(task.todo)
  IN  /\ done \in 0..Len(records) /\ \A i \in 1..Len(task.todo) : task.todo[i] = records[done + i]
      /\ enumCredList = Chosen(records, {i \in 1..Len(records) : RpOf[records[i]] = task.rp})[done]
      /\ credWalk[task.host].snap = OfRp(records, task.rp)

Collecting ==
  task.on = "collect" =>
    /\ task.todo \in Seq(Creds) /\ Distinct(task.todo)
    /\ \A c \in ToSet(task.todo) :
         c \notin ToSet(enumCredList) /\ (RpOf[c] = task.rp => c \in ToSet(credWalk[task.host].snap))
    /\ ToSet(enumCredList) \subseteq ToSet(credWalk[task.host].snap)
    /\ credWalk[task.host].intact => InFileOrder

Verifying == task.on = "verify" => enumCredList # <<>> /\ Listed(credWalk[task.host])

CredInv ==
  /\ CredListHeld /\ AreWalks(credWalk)
  /\ \A h \in Hosts : CredFollows(credWalk[h])
  /\ Beginning /\ Collecting /\ Verifying

\* The command reads the list of identifiers.
LEMMA CredBegins ==
  ASSUME FileHeld, CredInv, NEW h \in Hosts, NEW rp \in Rps, EnumerateCredentialsBegin(h, rp)
  PROVE  CredInv'
<1> DEFINE snap == OfRp(records, rp)
<1>1. /\ enumCredList' = <<>> /\ enumCredIdx' = 0 /\ records' = records
      /\ task' = [on |-> "collect", host |-> h, rp |-> rp, todo |-> records, guarded |-> FALSE]
      /\ credWalk' = Begun(credWalk, h, snap, 0, <<>>)
  BY DEF EnumerateCredentialsBegin, Command
<1>2. /\ snap \in Seq(Creds) /\ Distinct(snap)
      /\ \A c : c \in ToSet(snap) <=> c \in ToSet(records) /\ RpOf[c] = rp
  BY OfRpRight DEF FileHeld
<1>3. /\ task'.on = "collect" /\ task'.host = h /\ task'.rp = rp /\ task'.todo = records /\ task' # NoTask
  BY <1>1 DEF NoTask
<1>4. snap = OfRp(records', task'.rp)
  BY <1>1, <1>3
<1> HIDE DEF snap
<1>5. /\ AreWalks(credWalk') /\ Alone(credWalk', h)
      /\ credWalk'[h].active /\ credWalk'[h].snap = snap /\ credWalk'[h].total = 0 /\ credWalk'[h].got = <<>>
      /\ credWalk'[h].intact
  <2> DEFINE b == Begun(credWalk, h, snap, 0, <<>>)
  <2>1. /\ AreWalks(b) /\ Alone(b, h)
        /\ b[h].active /\ b[h].snap = snap /\ b[h].total = 0 /\ b[h].got = <<>> /\ b[h].intact
        /\ b[h].ended <=> <<>> = <<>>
    <3>1. AreWalks(credWalk)
      BY DEF CredInv
    <3> QED  BY <3>1, Begins
  <2> HIDE DEF b
  <2>2. credWalk' = b
    BY <1>1 DEF b
  <2> QED  BY <2>1, <2>2
<1>6. CredListHeld'
  BY <1>1 DEF CredListHeld, Distinct
<1>7. ToSet(<<>>) = {}
  BY DEF ToSet
<1>8. Beginning'
  BY <1>1, <1>3, <1>5 DEF Beginning
<1>9. Collecting'
  <2>1. InFileOrder'
    <3>1. Len(records) \in Nat /\ Len(records) - Len(records) = 0
      BY DEF FileHeld
    <3>2. Chosen(records, {i \in 1..Len(records) : RpOf[records[i]] = rp})[0] = <<>>
      BY ChosenStep DEF FileHeld
    <3> QED  BY <1>1, <1>3, <1>4, <1>5, <3>1, <3>2 DEF InFileOrder
  <2> QED  BY <1>1, <1>2, <1>3, <1>5, <1>7, <2>1 DEF Collecting, FileHeld
<1>10. Verifying' /\ \A g \in Hosts : CredFollows(credWalk[g])'
  BY <1>1, <1>3 DEF Verifying, CredFollows
<1> QED  BY <1>5, <1>6, <1>8, <1>9, <1>10 DEF CredInv

\* The rest of the command's record stays as it is.
LEMMA RestOfTask ==
  ASSUME Enumeration(task), NEW o, NEW d, NEW g
  PROVE  /\ task' = [task EXCEPT !.todo = d, !.guarded = g] =>
              task'.on = task.on /\ task'.host = task.host /\ task'.rp = task.rp /\ task'.todo = d
         /\ task' = [task EXCEPT !.on = o] =>
              task'.on = o /\ task'.host = task.host /\ task'.rp = task.rp /\ task'.todo = task.todo
<1> DEFINE H == {task.host}
           R == {task.rp}
           D == {task.todo}
<1>1. task \in [on : {"collect", "verify"}, host : H, rp : R, todo : D, guarded : BOOLEAN]
  BY DEF Enumeration
<1> HIDE DEF H, R, D
<1> QED  BY <1>1

\* One record of the list.
LEMMA CredCollects ==
  ASSUME FileHeld, Shapes, CredInv, Collect
  PROVE  CredInv'
<1> DEFINE c == Head(task.todo)
           match == RpOf[c] = task.rp /\ c \in ToSet(records)
           w == credWalk[task.host]
<1>1. /\ task.on = "collect" /\ task.todo # <<>> /\ Enumeration(task) /\ task # NoTask
      /\ UNCHANGED <<records, enumCredIdx, credWalk>>
      /\ enumCredList' = IF match THEN Append(enumCredList, c) ELSE enumCredList
  BY DEF Collect, Shapes, NoTask, walkVars
<1>2. /\ task'.on = "collect" /\ task'.host = task.host /\ task'.rp = task.rp /\ task'.todo = Tail(task.todo)
  <2>1. PICK g : task' = [task EXCEPT !.todo = Tail(task.todo), !.guarded = g]
    BY Zenon DEF Collect
  <2> QED  BY <1>1, <2>1, RestOfTask
<1>3. task' # NoTask
  BY <1>2 DEF NoTask
<1>4. /\ task.todo \in Seq(Creds) /\ Distinct(task.todo)
      /\ \A x \in ToSet(task.todo) : x \notin ToSet(enumCredList) /\ (RpOf[x] = task.rp => x \in ToSet(w.snap))
      /\ ToSet(enumCredList) \subseteq ToSet(w.snap)
      /\ w.intact => InFileOrder
  BY <1>1 DEF CredInv, Collecting
<1>5. /\ Len(task.todo) \in Nat /\ Len(task.todo) # 0 /\ c = task.todo[1] /\ c \in Creds
      /\ Tail(task.todo) \in Seq(Creds) /\ Len(Tail(task.todo)) = Len(task.todo) - 1
      /\ \A i \in 1..Len(task.todo) - 1 : Tail(task.todo)[i] = task.todo[i + 1]
  <2>1. Len(task.todo) \in Nat /\ Len(task.todo) # 0
    BY <1>1, <1>4, EmptySeq
  <2> QED  BY <1>1, <1>4, <2>1, HeadTailProperties
<1>6. c \in ToSet(task.todo)
  BY <1>4, <1>5, Elements
<1>7. \A x \in ToSet(Tail(task.todo)) : x \in ToSet(task.todo) /\ x # c
  <2> SUFFICES ASSUME NEW x \in ToSet(Tail(task.todo))
               PROVE  x \in ToSet(task.todo) /\ x # c
    OBVIOUS
  <2>1. PICK i \in 1..Len(Tail(task.todo)) : Tail(task.todo)[i] = x
    BY <1>5, Elements, ZenonT(60)
  <2>2. i + 1 \in 1..Len(task.todo) /\ task.todo[i + 1] = x /\ i + 1 # 1 /\ 1 \in 1..Len(task.todo)
    BY <1>5, <2>1
  <2>3. x \in ToSet(task.todo)
    BY <1>4, <2>2, Elements
  <2> QED  BY <1>4, <1>5, <2>2, <2>3 DEF Distinct
<1>8. Distinct(Tail(task.todo))
  <2> SUFFICES ASSUME NEW i \in 1..Len(Tail(task.todo)), NEW j \in 1..Len(Tail(task.todo)),
                      Tail(task.todo)[i] = Tail(task.todo)[j]
               PROVE  i = j
    BY DEF Distinct
  <2>1. i + 1 \in 1..Len(task.todo) /\ j + 1 \in 1..Len(task.todo) /\ task.todo[i + 1] = task.todo[j + 1]
    BY <1>5
  <2> QED  BY <1>4, <1>5, <2>1 DEF Distinct
<1> DEFINE l == enumCredList
<1>9. l \in Seq(Creds) /\ Distinct(l) /\ Len(l) \in Nat
  BY DEF CredInv, CredListHeld
<1>10. /\ l' \in Seq(Creds) /\ Distinct(l')
       /\ \A x : x \in ToSet(l') <=> x \in ToSet(l) \/ (match /\ x = c)
       /\ Len(l') >= Len(l)
  <2>1. CASE ~match
    BY <1>1, <1>9, <2>1
  <2>2. CASE match
    <3>1. /\ l' \in Seq(Creds) /\ Len(l') = Len(l) + 1 /\ l'[Len(l) + 1] = c
          /\ \A i \in 1..Len(l) : l'[i] = l[i]
      BY <1>1, <1>5, <1>9, <2>2, AppendProperties
    <3>2. \A x : x \in ToSet(l) <=> \E i \in 1..Len(l) : l[i] = x
      BY <1>9, Elements
    <3>3. \A x : x \in ToSet(l') <=> \E i \in 1..Len(l') : l'[i] = x
      BY <3>1, Elements
    <3>4. \A i \in 1..Len(l) : l[i] # c
      BY <1>4, <1>6, <3>2
    <3>5. Distinct(l')
      BY <1>9, <3>1, <3>4 DEF Distinct
    <3>6. \A x : x \in ToSet(l') <=> x \in ToSet(l) \/ x = c
      BY <1>9, <3>1, <3>2, <3>3
    <3> QED  BY <1>9, <2>2, <3>1, <3>5, <3>6
  <2> QED  BY <2>1, <2>2
<1>11. CredListHeld' /\ AreWalks(credWalk')
  BY <1>1, <1>9, <1>10 DEF CredInv, CredListHeld
<1>12. Beginning'
  BY <1>1, <1>2, <1>3 DEF CredInv, Beginning
<1>13. w.intact => InFileOrder'
  <2> SUFFICES ASSUME w.intact PROVE InFileOrder'
    OBVIOUS
  <2> DEFINE I == {i \in 1..Len(records) : RpOf[records[i]] = task.rp}
  <2>0. PICK done : done = Len(records) - Len(task.todo)
    OBVIOUS
  <2>1. /\ done \in 0..Len(records) /\ \A i \in 1..Len(task.todo) : task.todo[i] = records[done + i]
        /\ l = Chosen(records, I)[done] /\ w.snap = OfRp(records, task.rp)
    BY <1>4, <2>0 DEF InFileOrder
  <2>2. Len(records) \in Nat /\ records \in Seq(Creds)
    BY DEF FileHeld
  <2> HIDE DEF w, l, match, c
  <2>3. /\ done + 1 \in 1..Len(records) /\ Len(records) - (Len(task.todo) - 1) = done + 1
        /\ (done + 1) - 1 = done /\ 1 \in 1..Len(task.todo) /\ done \in Nat
    BY <1>5, <2>0, <2>1, <2>2
  <2>4. c = records[done + 1]
    BY <1>5, <2>1, <2>3
  <2>5. match <=> done + 1 \in I
    <3>1. c \in ToSet(records)
      BY <2>2, <2>3, <2>4, Elements
    <3> QED  BY <2>3, <2>4, <3>1 DEF match
  <2>6. l' = Chosen(records, I)[done + 1]
    <3> HIDE DEF I
    <3>1. \A n \in 1..Len(records) :
            Chosen(records, I)[n] = IF n \in I THEN Append(Chosen(records, I)[n - 1], records[n])
                                    ELSE Chosen(records, I)[n - 1]
      BY <2>2, ChosenStep
    <3>2. Chosen(records, I)[done + 1] = IF done + 1 \in I THEN Append(Chosen(records, I)[(done + 1) - 1], records[done + 1])
                                         ELSE Chosen(records, I)[(done + 1) - 1]
      BY <2>3, <3>1
    <3>3. l' = IF match THEN Append(l, c) ELSE l
      BY <1>1 DEF l
    <3> QED  BY <2>1, <2>3, <2>4, <2>5, <3>2, <3>3
  <2>7. \A i \in 1..Len(task.todo) - 1 : Tail(task.todo)[i] = records[(done + 1) + i]
    <3> SUFFICES ASSUME NEW i \in 1..Len(task.todo) - 1
                 PROVE  Tail(task.todo)[i] = records[(done + 1) + i]
      OBVIOUS
    <3>1. Tail(task.todo)[i] = task.todo[i + 1] /\ i + 1 \in 1..Len(task.todo)
      BY <1>5
    <3>2. (done + 1) + i = done + (i + 1)
      BY <2>3
    <3> QED  BY <2>1, <3>1, <3>2
  <2>8. /\ records' = records /\ task'.todo = Tail(task.todo) /\ Len(task'.todo) = Len(task.todo) - 1
        /\ task'.rp = task.rp
    BY <1>1, <1>2, <1>5
  <2>9. Len(records') - Len(task'.todo) = done + 1
    BY <2>3, <2>8
  <2>10. done + 1 \in 0..Len(records') /\ \A i \in 1..Len(task'.todo) : task'.todo[i] = records'[(done + 1) + i]
    BY <2>2, <2>3, <2>7, <2>8
  <2>11. l' = Chosen(records', {i \in 1..Len(records') : RpOf[records'[i]] = task'.rp})[done + 1]
    BY <2>6, <2>8
  <2>12. credWalk'[task'.host].snap = OfRp(records', task'.rp)
    BY <1>1, <1>2, <2>1 DEF w
  <2> HIDE DEF I
  <2> QED  BY <2>9, <2>10, <2>11, <2>12 DEF InFileOrder, l
<1>14. Collecting'
  <2> HIDE DEF c, match
  <2>1. credWalk'[task'.host] = w
    BY <1>1, <1>2
  <2>2. ToSet(l') \subseteq ToSet(w.snap)
    BY <1>4, <1>6, <1>10 DEF match
  <2>3. \A x \in ToSet(Tail(task.todo)) : x \notin ToSet(l') /\ (RpOf[x] = task.rp => x \in ToSet(w.snap))
    BY <1>4, <1>7, <1>10
  <2> QED  BY <1>2, <1>5, <1>8, <1>13, <2>1, <2>2, <2>3 DEF Collecting
<1>15. Verifying' /\ \A g \in Hosts : CredFollows(credWalk[g])'
  BY <1>2, <1>3 DEF Verifying, CredFollows
<1> QED  BY <1>11, <1>12, <1>14, <1>15 DEF CredInv

\* A walk under way has all its fields, also when some are changed.
LEMMA WalkChanged ==
  ASSUME AreWalks(credWalk), NEW h \in Hosts, credWalk[h].active, NEW got, NEW total
  PROVE  /\ credWalk' = [credWalk EXCEPT ![h].got = got, ![h].total = total, ![h].ended = FALSE] =>
              /\ AreWalks(credWalk') /\ \A g \in Hosts : g # h => credWalk'[g] = credWalk[g]
              /\ credWalk'[h].snap = credWalk[h].snap /\ (credWalk'[h].intact <=> credWalk[h].intact)
              /\ credWalk'[h].got = got /\ credWalk'[h].total = total /\ ~credWalk'[h].ended
         /\ credWalk' = [credWalk EXCEPT ![h].intact = FALSE] =>
              /\ AreWalks(credWalk') /\ \A g \in Hosts : g # h => credWalk'[g] = credWalk[g]
              /\ credWalk'[h].snap = credWalk[h].snap /\ ~credWalk'[h].intact /\ credWalk'[h].active
              /\ credWalk'[h].got = credWalk[h].got /\ credWalk'[h].total = credWalk[h].total
<1>1. /\ DOMAIN credWalk = Hosts /\ \A g \in Hosts : IsWalk(credWalk[g])
      /\ DOMAIN credWalk[h] = {"active", "snap", "total", "got", "clean", "intact", "ended"}
  BY DEF AreWalks, IsWalk, NoWalk
<1>2. ASSUME NEW v, DOMAIN v = DOMAIN credWalk[h], credWalk' = [credWalk EXCEPT ![h] = v]
      PROVE  AreWalks(credWalk') /\ credWalk'[h] = v /\ \A g \in Hosts : g # h => credWalk'[g] = credWalk[g]
  BY <1>1, <1>2 DEF AreWalks, IsWalk
<1>3. ASSUME credWalk' = [credWalk EXCEPT ![h].got = got, ![h].total = total, ![h].ended = FALSE]
      PROVE  /\ AreWalks(credWalk') /\ \A g \in Hosts : g # h => credWalk'[g] = credWalk[g]
             /\ credWalk'[h].snap = credWalk[h].snap /\ (credWalk'[h].intact <=> credWalk[h].intact)
             /\ credWalk'[h].got = got /\ credWalk'[h].total = total /\ ~credWalk'[h].ended
  <2> DEFINE v == [credWalk[h] EXCEPT !.got = got, !.total = total, !.ended = FALSE]
  <2>1. credWalk' = [credWalk EXCEPT ![h] = v]
    BY <1>1, <1>3
  <2>2. /\ DOMAIN v = DOMAIN credWalk[h] /\ v.snap = credWalk[h].snap /\ (v.intact <=> credWalk[h].intact)
        /\ v.got = got /\ v.total = total /\ ~v.ended
    BY <1>1
  <2> HIDE DEF v
  <2> QED  BY <1>2, <2>1, <2>2
<1>4. ASSUME credWalk' = [credWalk EXCEPT ![h].intact = FALSE]
      PROVE  /\ AreWalks(credWalk') /\ \A g \in Hosts : g # h => credWalk'[g] = credWalk[g]
             /\ credWalk'[h].snap = credWalk[h].snap /\ ~credWalk'[h].intact /\ credWalk'[h].active
             /\ credWalk'[h].got = credWalk[h].got /\ credWalk'[h].total = credWalk[h].total
  <2> DEFINE v == [credWalk[h] EXCEPT !.intact = FALSE]
  <2>1. credWalk' = [credWalk EXCEPT ![h] = v]
    BY <1>1, <1>4
  <2>2. /\ DOMAIN v = DOMAIN credWalk[h] /\ v.snap = credWalk[h].snap /\ ~v.intact /\ v.active
        /\ v.got = credWalk[h].got /\ v.total = credWalk[h].total
    BY <1>1
  <2> HIDE DEF v
  <2> QED  BY <1>2, <2>1, <2>2
<1> QED  BY <1>3, <1>4

\* No command is under way.
LEMMA Idle == task = NoTask => task.on = "none"
  BY DEF NoTask

\* The answer begins the walk with the first credential of the list.
LEMMA CredAnswered ==
  ASSUME CredInv, task # NoTask, enumCredList # <<>>, Listed(credWalk[task.host]),
         AnswerFirst, UNCHANGED enumCredList
  PROVE  CredInv'
<1> DEFINE l == enumCredList
<1>0. PICK h : h = task.host
  OBVIOUS
<1>1. /\ enumCredIdx' = 1 /\ task' = NoTask /\ l' = l
      /\ credWalk' = [credWalk EXCEPT ![h].got = <<l[1]>>, ![h].total = Len(l), ![h].ended = FALSE]
  BY <1>0 DEF AnswerFirst
<1>2. /\ CredListHeld /\ AreWalks(credWalk)
      /\ h \in Hosts /\ Alone(credWalk, h) /\ credWalk[h].active
  BY <1>0 DEF CredInv, Beginning
<1>3. l \in Seq(Creds) /\ Distinct(l) /\ Len(l) \in Nat /\ Len(l) # 0
  BY <1>2, EmptySeq DEF CredListHeld
<1>4. /\ AreWalks(credWalk') /\ \A g \in Hosts : g # h => credWalk'[g] = credWalk[g]
      /\ credWalk'[h].snap = credWalk[h].snap /\ (credWalk'[h].intact <=> credWalk[h].intact)
      /\ credWalk'[h].got = <<l[1]>> /\ credWalk'[h].total = Len(l) /\ ~credWalk'[h].ended
  <2> HIDE DEF l
  <2> QED  BY <1>1, <1>2, WalkChanged
<1>5. Taken(<<l[1]>>, l, 1)
  <2>1. 1 \in 1..Len(l) /\ l[1] \in ToSet(l)
    BY <1>3, Elements
  <2> HIDE DEF l
  <2>2. <<l[1]>> \in Seq(ToSet(l)) /\ Len(<<l[1]>>) = 1 /\ <<l[1]>>[1] = l[1]
    BY <2>1
  <2> QED  BY <1>3, <2>1, <2>2 DEF Taken
<1> HIDE DEF l
<1>6. task'.on = "none"
  BY <1>1, Idle DEF NoTask
<1>7. CredListHeld'
  BY <1>1, <1>3 DEF CredListHeld, l
<1>8. ASSUME NEW g \in Hosts
      PROVE  CredFollows(credWalk[g])'
  <2>1. CASE g # h
    BY <1>2, <1>4, <2>1 DEF Alone, CredFollows
  <2>2. CASE g = h
    <3>1. Listed(credWalk[h])'
      BY <1>0, <1>1, <1>4 DEF Listed, l
    <3> QED  BY <1>1, <1>3, <1>4, <1>5, <2>2, <3>1 DEF CredFollows, l
  <2> QED  BY <2>1, <2>2
<1>9. Beginning' /\ Collecting' /\ Verifying'
  BY <1>1, <1>6 DEF Beginning, Collecting, Verifying
<1> QED  BY <1>4, <1>7, <1>8, <1>9 DEF CredInv

\* The list is complete: nothing found, a finger asked for, or the first answer.
LEMMA CredCollected ==
  ASSUME FileHeld, Shapes, CredInv, Collected
  PROVE  CredInv'
<1> DEFINE h == task.host
           w == credWalk[h]
<1>1. /\ task.on = "collect" /\ task.todo = <<>> /\ task # NoTask /\ Enumeration(task) /\ enumCredList' = enumCredList
  BY DEF Collected, Shapes, NoTask
<1>2. /\ CredListHeld /\ AreWalks(credWalk) /\ h \in Hosts /\ Alone(credWalk, h)
      /\ w.active /\ w.got = <<>> /\ w.total = 0 /\ enumCredIdx = 0
      /\ ToSet(enumCredList) \subseteq ToSet(w.snap) /\ (w.intact => InFileOrder)
  BY <1>1 DEF CredInv, Beginning, Collecting
<1>3. Listed(w)
  <2> SUFFICES ASSUME w.intact PROVE enumCredList = w.snap
    BY <1>2 DEF Listed
  <2>1. Len(records) \in Nat /\ Len(records) - Len(task.todo) = Len(records)
    BY <1>1 DEF FileHeld
  <2> HIDE DEF w, h
  <2>2. /\ enumCredList = Chosen(records, {i \in 1..Len(records) : RpOf[records[i]] = task.rp})[Len(records)]
        /\ credWalk[task.host].snap = OfRp(records, task.rp)
    BY <1>2, <2>1 DEF InFileOrder
  <2> QED  BY <2>2 DEF OfRp, w, h
<1>4. CASE enumCredList = <<>> /\ task' = NoTask /\ UNCHANGED <<enumCredIdx, credWalk>>
  <2>1. task'.on = "none"
    BY <1>4, Idle DEF NoTask
  <2>2. Taken(<<>>, <<>>, 0) /\ Len(<<>>) = 0
    BY DEF Taken
  <2>3. ASSUME NEW g \in Hosts
        PROVE  CredFollows(credWalk[g])'
    <3>1. CASE g # h
      BY <1>2, <1>4, <3>1 DEF Alone, CredFollows
    <3>2. CASE g = h
      BY <1>1, <1>2, <1>3, <1>4, <2>2, <3>2 DEF CredFollows, Listed
    <3> QED  BY <3>1, <3>2
  <2>4. Beginning' /\ Collecting' /\ Verifying' /\ CredListHeld' /\ AreWalks(credWalk')
    BY <1>1, <1>2, <1>4, <2>1 DEF Beginning, Collecting, Verifying, CredListHeld
  <2> QED  BY <2>3, <2>4 DEF CredInv
<1>5. CASE enumCredList # <<>> /\ task' = [task EXCEPT !.on = "verify"] /\ UNCHANGED <<enumCredIdx, credWalk>>
  <2>1. task'.on = "verify" /\ task'.host = h
    BY <1>1, <1>5, RestOfTask
  <2>2. task' # NoTask
    BY <2>1 DEF NoTask
  <2>3. Verifying' /\ Beginning' /\ Collecting'
    BY <1>1, <1>2, <1>3, <1>5, <2>1 DEF Verifying, Beginning, Collecting, Listed
  <2>4. CredListHeld' /\ AreWalks(credWalk') /\ \A g \in Hosts : CredFollows(credWalk[g])'
    BY <1>1, <1>2, <1>5, <2>2 DEF CredListHeld, CredFollows
  <2> QED  BY <2>3, <2>4 DEF CredInv
<1>6. CASE enumCredList # <<>> /\ AnswerFirst
  BY <1>1, <1>3, <1>6, CredAnswered
<1> QED  BY <1>4, <1>5, <1>6, Zenon DEF Collected

\* The next credential of the list, for whoever asks.
LEMMA CredGoesOn ==
  ASSUME CredInv, NEW h \in Hosts, EnumerateCredentialsGetNext(h)
  PROVE  CredInv'
<1> DEFINE more == ItemAt(enumCredList, enumCredIdx + 1)
           l == enumCredList
<1>1. /\ task = NoTask /\ task' = NoTask /\ l' = l
      /\ enumCredIdx' = enumCredIdx + Len(more) /\ credWalk' = Went(credWalk, h, more)
  BY DEF EnumerateCredentialsGetNext, Command, NextCredential
<1>2. /\ l \in Seq(Creds) /\ Distinct(l) /\ enumCredIdx \in 0..Len(l) /\ AreWalks(credWalk)
      /\ \A g \in Hosts : CredFollows(credWalk[g])
  BY DEF CredInv, CredListHeld
<1>3. \A got : Taken(got, l, enumCredIdx) =>
        Taken(got \o more, l, enumCredIdx + Len(more)) /\ (more = <<>> => enumCredIdx = Len(l))
        /\ (enumCredIdx = Len(l) => more = <<>>) /\ Len(more) \in Nat
  BY <1>2, TakeNext
<1> HIDE DEF more, l
<1>4. enumCredIdx' \in 0..Len(l)
  <2>1. \E got : Taken(got, l, enumCredIdx)
    <3> DEFINE got == SubSeq(l, 1, enumCredIdx)
    <3>1. \A i \in 1..enumCredIdx : l[i] \in ToSet(l)
      BY <1>2, Elements
    <3>2. Taken(got, l, enumCredIdx)
      BY <1>2, <3>1, SubSeqProperties DEF Taken
    <3> QED  BY <3>2
  <2> QED  BY <1>1, <1>3, <2>1 DEF Taken
<1>5. /\ AreWalks(credWalk') /\ Alone(credWalk', h)
      /\ credWalk'[h].active <=> credWalk[h].active
      /\ credWalk[h].active =>
           /\ credWalk'[h].got = credWalk[h].got \o more /\ credWalk'[h].snap = credWalk[h].snap
           /\ credWalk'[h].total = credWalk[h].total
           /\ credWalk'[h].clean <=> credWalk[h].clean
           /\ credWalk'[h].intact <=> credWalk[h].intact
           /\ credWalk'[h].ended <=> credWalk[h].ended \/ more = <<>>
  <2> DEFINE b == Went(credWalk, h, more)
  <2>1. /\ AreWalks(b) /\ Alone(b, h)
        /\ b[h].active <=> credWalk[h].active
        /\ credWalk[h].active =>
             /\ b[h].got = credWalk[h].got \o more /\ b[h].snap = credWalk[h].snap /\ b[h].total = credWalk[h].total
             /\ b[h].clean <=> credWalk[h].clean
             /\ b[h].intact <=> credWalk[h].intact
             /\ b[h].ended <=> credWalk[h].ended \/ more = <<>>
    BY <1>2, Goes, Zenon
  <2>2. credWalk' = b
    BY <1>1
  <2> HIDE DEF b
  <2> QED  BY <2>1, <2>2
<1>6. ASSUME credWalk[h].active, credWalk[h].clean
      PROVE  /\ Listed(credWalk[h])
             /\ Taken(credWalk[h].got \o more, l, enumCredIdx') /\ credWalk[h].total = Len(l)
             /\ credWalk[h].ended \/ more = <<>> => enumCredIdx' = Len(l)
  <2>1. /\ Listed(credWalk[h]) /\ Taken(credWalk[h].got, l, enumCredIdx) /\ credWalk[h].total = Len(l)
        /\ credWalk[h].ended => enumCredIdx = Len(l)
    BY <1>1, <1>2, <1>6 DEF CredFollows, l
  <2>2. more = <<>> => Len(more) = 0
    OBVIOUS
  <2>3. Taken(credWalk[h].got \o more, l, enumCredIdx') /\ (credWalk[h].ended \/ more = <<>> => enumCredIdx' = Len(l))
    BY <1>1, <1>2, <1>3, <2>1, <2>2
  <2> QED  BY <2>1, <2>3
<1>7. ASSUME NEW g \in Hosts
      PROVE  CredFollows(credWalk[g])'
  <2>1. CASE g # h
    BY <1>5, <2>1 DEF Alone, CredFollows
  <2>2. CASE g = h
    <3>1. credWalk[h].active /\ credWalk[h].clean => Listed(credWalk[h])'
      BY <1>1, <1>5, <1>6 DEF Listed, l
    <3> QED  BY <1>1, <1>5, <1>6, <2>2, <3>1 DEF CredFollows, l
  <2> QED  BY <2>1, <2>2
<1>8. Beginning' /\ Collecting' /\ Verifying' /\ CredListHeld'
  BY <1>1, <1>2, <1>4, Idle DEF Beginning, Collecting, Verifying, CredListHeld, NoTask, l
<1> QED  BY <1>5, <1>7, <1>8 DEF CredInv

\* A deletion by the CLI task while the list is collected.
LEMMA CredDeleted ==
  ASSUME CredInv, NEW rp \in Rps, CliDelete(rp), task.on = "collect"
  PROVE  CredInv'
<1>0. PICK h : h = task.host
  OBVIOUS
<1>1. /\ UNCHANGED <<enumCredList, enumCredIdx, task>>
      /\ credWalk' = [credWalk EXCEPT ![h].intact = FALSE]
  BY <1>0 DEF CliDelete, cursorVars
<1>2. task # NoTask
  BY Idle
<1>3. /\ CredListHeld /\ AreWalks(credWalk) /\ h \in Hosts /\ Alone(credWalk, h)
      /\ credWalk[h].active /\ credWalk[h].got = <<>> /\ credWalk[h].total = 0 /\ enumCredIdx = 0
      /\ Collecting
  BY <1>0, <1>2 DEF CredInv, Beginning
<1>4. /\ AreWalks(credWalk') /\ \A g \in Hosts : g # h => credWalk'[g] = credWalk[g]
      /\ credWalk'[h].snap = credWalk[h].snap /\ ~credWalk'[h].intact /\ credWalk'[h].active
      /\ credWalk'[h].got = credWalk[h].got /\ credWalk'[h].total = credWalk[h].total
  BY <1>1, <1>3, WalkChanged
<1>5. Beginning'
  BY <1>0, <1>1, <1>3, <1>4 DEF Beginning, Alone
<1>6. Collecting'
  BY <1>0, <1>1, <1>3, <1>4 DEF Collecting
<1>7. CredListHeld' /\ Verifying' /\ \A g \in Hosts : CredFollows(credWalk[g])'
  BY <1>1, <1>2, <1>3 DEF CredListHeld, Verifying, CredFollows
<1> QED  BY <1>4, <1>5, <1>6, <1>7 DEF CredInv

\* Nothing is told of a list whose command was refused.
LEMMA CredRefused ==
  ASSUME CredInv, NotVerified
  PROVE  CredInv'
<1>0. PICK h : h = task.host
  OBVIOUS
<1>1. /\ UNCHANGED <<enumCredList, enumCredIdx>> /\ task' = NoTask /\ task # NoTask
      /\ credWalk' = [credWalk EXCEPT ![h] = NoWalk]
  BY <1>0, Idle DEF NotVerified
<1>2. CredListHeld /\ AreWalks(credWalk) /\ h \in Hosts /\ Alone(credWalk, h)
  BY <1>0, <1>1 DEF CredInv, Beginning
<1>3. AreWalks(credWalk') /\ credWalk'[h] = NoWalk /\ \A g \in Hosts : g # h => credWalk'[g] = credWalk[g]
  BY <1>1, <1>2 DEF AreWalks, IsWalk
<1>4. \A g \in Hosts : CredFollows(credWalk[g])'
  BY <1>2, <1>3 DEF CredFollows, Alone, NoWalk
<1>5. CredListHeld' /\ Beginning' /\ Collecting' /\ Verifying'
  BY <1>1, <1>2 DEF CredListHeld, Beginning, Collecting, Verifying, NoTask
<1> QED  BY <1>3, <1>4, <1>5 DEF CredInv

\* Every step keeps the walks along the list of credentials.
LEMMA CredKept == FileHeld /\ Shapes /\ CredInv /\ [Next]_vars => CredInv'
<1> SUFFICES ASSUME FileHeld, Shapes, CredInv, [Next]_vars PROVE CredInv'
  OBVIOUS
<1>1. CASE UNCHANGED <<enumCredList, enumCredIdx, credWalk, task>> /\ (task.on = "collect" => UNCHANGED records)
  <2>1. Collecting'
    <3> SUFFICES ASSUME task.on = "collect" PROVE Collecting'
      BY <1>1 DEF Collecting
    <3>1. UNCHANGED <<enumCredList, enumCredIdx, credWalk, task, records>>
      BY <1>1
    <3> QED  BY <3>1 DEF CredInv, Collecting, InFileOrder
  <2>2. CredListHeld' /\ AreWalks(credWalk') /\ Beginning' /\ Verifying' /\ \A g \in Hosts : CredFollows(credWalk[g])'
    BY <1>1 DEF CredInv, CredListHeld, Beginning, Verifying, CredFollows, Listed, Alone
  <2> QED  BY <2>1, <2>2 DEF CredInv
<1>2. CASE Crash
  <2>1. enumCredList' = <<>> /\ enumCredIdx' = 0 /\ credWalk' = [h \in Hosts |-> NoWalk] /\ task' = NoTask
    BY <1>2 DEF Crash
  <2>2. CredListHeld'
    BY <2>1 DEF CredListHeld, Distinct
  <2>3. AreWalks(credWalk') /\ \A h \in Hosts : ~credWalk'[h].active
    BY <2>1 DEF AreWalks, IsWalk, NoWalk
  <2>4. Beginning' /\ Collecting' /\ Verifying'
    BY <2>1 DEF Beginning, Collecting, Verifying, NoTask
  <2> QED  BY <2>2, <2>3, <2>4 DEF CredInv, CredFollows
<1>3. CASE FingerOk
  <2>1. task.on = "verify" /\ AnswerFirst /\ UNCHANGED enumCredList
    BY <1>3 DEF FingerOk
  <2>2. enumCredList # <<>> /\ Listed(credWalk[task.host]) /\ task # NoTask
    BY <2>1, Idle DEF CredInv, Verifying
  <2> QED  BY <2>1, <2>2, CredAnswered
<1>4. \/ \E h \in Hosts : EnumerateCredentialsGetNext(h) \/ \E rp \in Rps : EnumerateCredentialsBegin(h, rp)
      \/ Collect \/ Collected \/ FingerOk \/ NotVerified \/ Crash
      \/ \E rp \in Rps : CliDelete(rp) /\ task.on = "collect"
      \/ UNCHANGED <<enumCredList, enumCredIdx, credWalk, task>> /\ (task = NoTask \/ task.on # "collect" \/ UNCHANGED records)
  BY Zenon DEF Next, vars, cursorVars, walkVars, Command, Other, EnumerateRPsBegin, EnumerateRPsGetNext,
    DeleteCredential, GetKeyAgreement, GetPinToken, SetPin, ChangePin, CliDelete, MakeCredential,
    FingerElsewhere, FiveSecondsPass
<1>5. task = NoTask => task.on # "collect"
  BY Idle
<1> QED  BY <1>1, <1>2, <1>3, <1>4, <1>5, CredBegins, CredCollects, CredCollected, CredGoesOn, CredDeleted, CredRefused

-----------------------------------------------------------------------------
(* All together.                                                           *)

\* The key of the PIN protocol, the PIN and its failures keep their types.
SettingsHeld == sessionKey \in Nat /\ pin \in {NoPin, Garbage} \cup Pins /\ fails \in 0..PinLimit

\* Key agreement, setPIN and changePIN keep the types.
LEMMA SettingsKept == SettingsHeld /\ [Next]_vars => SettingsHeld'
<1> SUFFICES ASSUME SettingsHeld, [Next]_vars PROVE SettingsHeld'
  OBVIOUS
<1>1. CASE UNCHANGED <<sessionKey, pin, fails>>
  BY <1>1 DEF SettingsHeld
<1>2. ASSUME NEW h \in Hosts, GetKeyAgreement(h)
      PROVE  SettingsHeld'
  BY <1>2 DEF GetKeyAgreement, SettingsHeld
<1>3. ASSUME NEW h, NEW q \in Pins \cup ShortPins, CreatePin(Decrypted(h, q))
      PROVE  pin' \in {NoPin, Garbage} \cup Pins
  BY <1>3 DEF CreatePin, Decrypted, SettingsHeld
<1>4. ASSUME NEW h \in Hosts, NEW q \in Pins \cup ShortPins, SetPin(h, q)
      PROVE  SettingsHeld'
  BY <1>3, <1>4 DEF SetPin, SettingsHeld
<1>5. ASSUME NEW h \in Hosts, NEW q \in Pins \cup ShortPins, NEW p \in Pins, ChangePin(h, p, q)
      PROVE  SettingsHeld'
  <2>1. PinLimit \in Nat /\ sessionKey' = sessionKey
    BY <1>5, ManageAssumption DEF ChangePin
  <2>2. CASE UNCHANGED <<pin, fails>>
    BY <2>1, <2>2 DEF SettingsHeld
  <2>3. CASE ~(fails >= PinLimit) /\ fails' = fails + 1 /\ UNCHANGED pin
    BY <2>1, <2>3 DEF SettingsHeld
  <2>4. CASE fails' = 0 /\ CreatePin(Decrypted(h, q))
    BY <1>3, <2>1, <2>4 DEF SettingsHeld
  <2> QED  BY <1>5, <2>2, <2>3, <2>4, Zenon DEF ChangePin
<1>6. \/ \E h \in Hosts : \E q \in Pins \cup ShortPins : SetPin(h, q) \/ \E p \in Pins : ChangePin(h, p, q)
      \/ \E h \in Hosts : GetKeyAgreement(h)
      \/ UNCHANGED <<sessionKey, fails, pin>>
      \/ Crash
  BY Zenon DEF Next, vars, pinVars, Command, Other, Collect, Collected, FingerOk, NotVerified, EnumerateRPsBegin,
    EnumerateRPsGetNext, EnumerateCredentialsGetNext, EnumerateCredentialsBegin,
    DeleteCredential, GetPinToken, CliDelete, MakeCredential, FingerElsewhere, FiveSecondsPass
<1>7. CASE Crash
  BY <1>7 DEF Crash, SettingsHeld
<1> QED  BY <1>1, <1>2, <1>4, <1>5, <1>6, <1>7

\* A device after power-up: no lists, no walks; the file has each record once.
LEMMA WalksInitially == Init => FileHeld /\ RpInv /\ CredInv /\ SettingsHeld
<1> SUFFICES ASSUME Init PROVE FileHeld /\ RpInv /\ CredInv /\ SettingsHeld
  OBVIOUS
<1>1. FileHeld
  BY ManageAssumption, Elements DEF Init, FileHeld
<1>2. RpInv
  <2>1. enumRpList = <<>> /\ enumRpIdx = 0 /\ rpWalk = [h \in Hosts |-> NoWalk]
    BY DEF Init
  <2>2. RpListHeld
    BY <2>1 DEF RpListHeld, Distinct
  <2>3. AreWalks(rpWalk) /\ \A h \in Hosts : ~rpWalk[h].active
    BY <2>1 DEF AreWalks, IsWalk, NoWalk
  <2> QED  BY <2>2, <2>3 DEF RpInv, RpFollows
<1>3. CredInv
  <2>1. enumCredList = <<>> /\ enumCredIdx = 0 /\ credWalk = [h \in Hosts |-> NoWalk] /\ task = NoTask
    BY DEF Init
  <2>2. CredListHeld
    BY <2>1 DEF CredListHeld, Distinct
  <2>3. AreWalks(credWalk) /\ \A h \in Hosts : ~credWalk[h].active
    BY <2>1 DEF AreWalks, IsWalk, NoWalk
  <2>4. Beginning /\ Collecting /\ Verifying
    BY <2>1 DEF Beginning, Collecting, Verifying, NoTask
  <2> QED  BY <2>2, <2>3, <2>4 DEF CredInv, CredFollows
<1>4. SettingsHeld
  BY ManageAssumption DEF Init, SettingsHeld
<1> QED  BY <1>1, <1>2, <1>3, <1>4

\* What the invariant says of a host's walks.
LEMMA WalksFollow == FileHeld /\ Shapes /\ RpInv /\ CredInv /\ SettingsHeld => WalksComplete
<1> SUFFICES ASSUME FileHeld, Shapes, RpInv, CredInv, SettingsHeld PROVE WalksComplete
  OBVIOUS
<1>1. TypeOK
  <2>1. records \in Seq(Creds) /\ IsInjective(records) /\ ToSet(records) \subseteq used
    BY Elements DEF FileHeld
  <2>2. enumRpIdx \in 0..Len(enumRpList) /\ enumCredIdx \in 0..Len(enumCredList)
    BY DEF RpInv, RpListHeld, CredInv, CredListHeld
  <2>3. task.on \in {"none", "collect", "verify"}
    BY DEF Shapes, Enumeration, NoTask
  <2> QED  BY <2>1, <2>2, <2>3 DEF TypeOK, SettingsHeld
<1>2. RpWalkComplete
  <2> SUFFICES ASSUME NEW h \in Hosts, rpWalk[h].active, rpWalk[h].clean
               PROVE  /\ rpWalk[h].total = Cardinality(rpWalk[h].snap)
                      /\ IsInjective(rpWalk[h].got) /\ ToSet(rpWalk[h].got) \subseteq rpWalk[h].snap
                      /\ rpWalk[h].ended => ToSet(rpWalk[h].got) = rpWalk[h].snap
    BY DEF RpWalkComplete
  <2>1. /\ enumRpList \in Seq(Rps) /\ Distinct(enumRpList)
        /\ ToSet(enumRpList) = rpWalk[h].snap /\ rpWalk[h].total = Len(enumRpList)
        /\ Taken(rpWalk[h].got, enumRpList, enumRpIdx)
        /\ rpWalk[h].ended => enumRpIdx = Len(enumRpList)
    BY DEF RpInv, RpListHeld, RpFollows
  <2>2. Cardinality(ToSet(enumRpList)) = Len(enumRpList)
    BY <2>1, DistinctCount
  <2>3. /\ IsInjective(rpWalk[h].got) /\ ToSet(rpWalk[h].got) \subseteq ToSet(enumRpList)
        /\ enumRpIdx = Len(enumRpList) => rpWalk[h].got = enumRpList
    BY <2>1, TakenDistinct
  <2> QED  BY <2>1, <2>2, <2>3
<1>3. CredWalkComplete
  <2> SUFFICES ASSUME NEW h \in Hosts, credWalk[h].active, credWalk[h].clean, task = NoTask \/ task.host # h
               PROVE  LET w == credWalk[h]
                      IN  IF w.intact THEN /\ IsPrefix(w.got, w.snap) /\ (w.got # <<>> => w.total = Len(w.snap))
                                           /\ w.ended => w.got = w.snap
                          ELSE IsInjective(w.got) /\ ToSet(w.got) \subseteq ToSet(w.snap) /\ Len(w.got) <= w.total
    BY DEF CredWalkComplete
  <2>1. task = NoTask
    BY DEF CredInv, Beginning, Alone
  <2> DEFINE w == credWalk[h]
  <2>2. /\ enumCredList \in Seq(Creds) /\ Distinct(enumCredList)
        /\ Listed(w) /\ Taken(w.got, enumCredList, enumCredIdx) /\ w.total = Len(enumCredList)
        /\ w.ended => enumCredIdx = Len(enumCredList)
    BY <2>1 DEF CredInv, CredListHeld, CredFollows
  <2> HIDE DEF w
  <2>3. /\ IsInjective(w.got) /\ ToSet(w.got) \subseteq ToSet(enumCredList) /\ IsPrefix(w.got, enumCredList)
        /\ enumCredIdx = Len(enumCredList) => w.got = enumCredList
    BY <2>2, TakenDistinct
  <2>4. Len(w.got) <= w.total
    BY <2>2 DEF Taken
  <2>5. CASE w.intact
    BY <2>2, <2>3, <2>5 DEF Listed, w
  <2>6. CASE ~w.intact
    BY <2>2, <2>3, <2>4, <2>6 DEF Listed, w
  <2> QED  BY <2>5, <2>6 DEF w
<1> QED  BY <1>1, <1>2, <1>3 DEF WalksComplete

\* Both walks of credential management tell an undisturbed host what was stored when it began, each once and all of it,
\* whatever other hosts, the CLI task, new credentials and power cuts do meanwhile (WalksComplete).
THEOREM WalksCompleteAlways == Spec => []WalksComplete
<1> DEFINE Inv == IInv /\ FileHeld /\ RpInv /\ CredInv /\ SettingsHeld
<1>1. Init => Inv
  BY Initially, WalksInitially
<1>2. Inv /\ [Next]_vars => Inv'
  BY Inductive, FileKept, RpKept, CredKept, SettingsKept DEF IInv
<1>3. Inv => WalksComplete
  BY WalksFollow DEF IInv
<1> HIDE DEF Inv
<1> QED  BY <1>1, <1>2, <1>3, PTL DEF Spec
=============================================================================
