------------------------------ MODULE LinksProofs ------------------------------
(***************************************************************************)
(* Proofs about paths and links, for every set of documents, networks and  *)
(* headings, all paths that files can have and all links that authors can  *)
(* write: normalize computes what walking a path gives, a link from one    *)
(* file to another leads there, and so the links that a parse writes are   *)
(* found, and left alone, by the next one.                                 *)
(***************************************************************************)
EXTENDS Links, OrderLemmas, SequenceTheorems

-----------------------------------------------------------------------------
(* normalize computes what walking gives.                                  *)

\* The states of the loop of normalize.
Loops == [up : Nat, kept : Seq(Names), pop : Nat]

\* A number of ".." and then the beginning of a sequence.
Lead(u, s, m) == [i \in 1..(u + m) |-> IF i <= u THEN Up ELSE s[i - u]]

\* The path that the loop would give if it ended in this state.
Left(acc) ==
  IF acc.pop > Len(acc.kept) THEN Lead(acc.up + acc.pop - Len(acc.kept), acc.kept, 0)
  ELSE Lead(acc.up, acc.kept, Len(acc.kept) - acc.pop)

LEMMA LeadType ==
  ASSUME NEW u \in Nat, NEW s \in Seq(Parts), NEW m \in 0..Len(s)
  PROVE  Lead(u, s, m) \in Seq(Parts) /\ Len(Lead(u, s, m)) = u + m
<1>1. Lead(u, s, m) \in [1..(u + m) -> Parts]
  BY DEF Lead, Parts
<1>2. u + m \in Nat
  OBVIOUS
<1> QED  BY <1>1, <1>2

\* A component behind it.
LEMMA LeadAppend ==
  ASSUME NEW u \in Nat, NEW s \in Seq(Parts), NEW m \in 0..Len(s),
         NEW t \in Seq(Parts), Len(t) >= m + 1, \A i \in 1..m : t[i] = s[i]
  PROVE  Append(Lead(u, s, m), t[m + 1]) = Lead(u, t, m + 1)
<1>1. Lead(u, s, m) \in Seq(Parts) /\ Len(Lead(u, s, m)) = u + m
  BY LeadType
<1>2. Lead(u, t, m + 1) \in Seq(Parts) /\ Len(Lead(u, t, m + 1)) = u + m + 1
  <2>1. m + 1 \in 0..Len(t) /\ u + (m + 1) = u + m + 1
    OBVIOUS
  <2> QED  BY <2>1, LeadType
<1> DEFINE a == Append(Lead(u, s, m), t[m + 1])
<1>3. a \in Seq(Parts) /\ Len(a) = u + m + 1
  <2> DEFINE b == Lead(u, s, m)
             e == t[m + 1]
  <2>1. b \in Seq(Parts) /\ Len(b) = u + m
    BY <1>1
  <2>2. e \in Parts
    <3>1. m + 1 \in 1..Len(t)
      OBVIOUS
    <3> QED  BY <3>1
  <2> HIDE DEF b, e
  <2>3. Append(b, e) \in Seq(Parts) /\ Len(Append(b, e)) = u + m + 1
    BY <2>1, <2>2
  <2> QED  BY <2>3 DEF b, e
<1>4. \A i \in 1..(u + m) : a[i] = Lead(u, s, m)[i]
  BY <1>1
<1>5. a[u + m + 1] = t[m + 1]
  BY <1>1
<1>6. \A i \in 1..(u + m) : Lead(u, t, m + 1)[i] = Lead(u, s, m)[i]
  BY DEF Lead
<1>7. Lead(u, t, m + 1)[u + m + 1] = t[m + 1]
  BY DEF Lead
<1>8. \A i \in 1..(u + m + 1) : a[i] = Lead(u, t, m + 1)[i]
  <2>1. \A i \in 1..(u + m + 1) : i \in 1..(u + m) \/ i = u + m + 1
    OBVIOUS
  <2> HIDE DEF a
  <2> QED  BY <1>4, <1>5, <1>6, <1>7, <2>1
<1> HIDE DEF a
<1>9. a = Lead(u, t, m + 1)
  BY <1>2, <1>3, <1>8, SeqEqual
<1> QED  BY <1>9 DEF a

\* Another ".." if nothing follows them.
LEMMA LeadUp ==
  ASSUME NEW u \in Nat, NEW s \in Seq(Parts), NEW t \in Seq(Parts)
  PROVE  /\ Append(Lead(u, s, 0), Up) = Lead(u + 1, t, 0)
         /\ Lead(u, s, 0) # <<>> => Last(Lead(u, s, 0)) = Up
<1>1. Lead(u, s, 0) \in Seq(Parts) /\ Len(Lead(u, s, 0)) = u
  BY LeadType
<1>2. Lead(u + 1, t, 0) \in Seq(Parts) /\ Len(Lead(u + 1, t, 0)) = u + 1
  BY LeadType
<1> DEFINE a == Append(Lead(u, s, 0), Up)
<1>3. a \in Seq(Parts) /\ Len(a) = u + 1
  <2>1. Up \in Parts
    BY DEF Parts
  <2> QED  BY <1>1, <2>1
<1>4. \A i \in 1..(u + 1) : a[i] = Up
  BY <1>1 DEF Lead
<1>5. \A i \in 1..(u + 1) : Lead(u + 1, t, 0)[i] = Up
  BY DEF Lead
<1>6. \A i \in 1..(u + 1) : a[i] = Lead(u + 1, t, 0)[i]
  BY <1>4, <1>5
<1>7. Lead(u, s, 0) # <<>> => Last(Lead(u, s, 0)) = Up
  BY <1>1 DEF Lead, Last
<1> HIDE DEF a
<1>8. a = Lead(u + 1, t, 0)
  BY <1>2, <1>3, <1>6, SeqEqual
<1> QED  BY <1>7, <1>8 DEF a

\* Its last component is taken off.
LEMMA LeadFront ==
  ASSUME NEW u \in Nat, NEW s \in Seq(Parts), NEW m \in 1..Len(s)
  PROVE  /\ Front(Lead(u, s, m)) = Lead(u, s, m - 1)
         /\ Last(Lead(u, s, m)) = s[m]
         /\ Lead(u, s, m) # <<>>
<1>m. m \in 0..Len(s) /\ m - 1 \in 0..Len(s) /\ u + (m - 1) = u + m - 1
  OBVIOUS
<1>1. Lead(u, s, m) \in Seq(Parts) /\ Len(Lead(u, s, m)) = u + m
  BY <1>m, LeadType
<1>2. Lead(u, s, m - 1) \in Seq(Parts) /\ Len(Lead(u, s, m - 1)) = u + m - 1
  BY <1>m, LeadType
<1> DEFINE a == SubSeq(Lead(u, s, m), 1, u + m - 1)
<1>3. a \in Seq(Parts) /\ Len(a) = u + m - 1
  BY <1>1
<1>4. \A i \in 1..(u + m - 1) : a[i] = Lead(u, s, m)[i]
  BY <1>1
<1>5. \A i \in 1..(u + m - 1) : Lead(u, s, m - 1)[i] = Lead(u, s, m)[i]
  BY DEF Lead
<1>6. Front(Lead(u, s, m)) = a
  BY <1>1 DEF Front
<1>7. Last(Lead(u, s, m)) = s[m]
  BY <1>1 DEF Last, Lead
<1>8. Lead(u, s, m) # <<>>
  BY <1>1
<1>9. \A i \in 1..(u + m - 1) : a[i] = Lead(u, s, m - 1)[i]
  BY <1>4, <1>5
<1> HIDE DEF a
<1>10. a = Lead(u, s, m - 1)
  BY <1>2, <1>3, <1>9, SeqEqual
<1> QED  BY <1>6, <1>7, <1>8, <1>10

\* What the loop keeps can be given back.
LEMMA LeftType ==
  ASSUME NEW acc \in Loops
  PROVE  Left(acc) \in Seq(Parts)
<1>1. acc.kept \in Seq(Parts) /\ acc.up \in Nat /\ acc.pop \in Nat /\ Len(acc.kept) \in Nat
  <2>1. acc.kept \in Seq(Names) /\ Names \subseteq Parts
    BY DEF Loops, Parts
  <2> QED  BY <2>1 DEF Loops
<1>2. CASE acc.pop > Len(acc.kept)
  <2>1. acc.up + acc.pop - Len(acc.kept) \in Nat /\ 0 \in 0..Len(acc.kept)
    BY <1>1, <1>2
  <2> QED  BY <1>1, <1>2, <2>1, LeadType DEF Left
<1>3. CASE ~ (acc.pop > Len(acc.kept))
  <2>1. Len(acc.kept) - acc.pop \in 0..Len(acc.kept)
    BY <1>1, <1>3
  <2> QED  BY <1>1, <1>3, <2>1, LeadType DEF Left
<1> QED  BY <1>2, <1>3

\* One turn of the loop does to the path that it would give what a step of the
\* walk does.
LEMMA TakeWalks ==
  ASSUME NEW acc \in Loops, NEW part \in Parts
  PROVE  Take(acc, part) \in Loops /\ Left(Take(acc, part)) = Walk(Left(acc), part)
<1> DEFINE u == acc.up
           s == acc.kept
           d == acc.pop
           m == Len(s) - d
<1>1. u \in Nat /\ d \in Nat /\ s \in Seq(Names) /\ s \in Seq(Parts) /\ Len(s) \in Nat
  <2>1. Names \subseteq Parts
    BY DEF Parts
  <2> QED  BY <2>1 DEF Loops
<1>2. acc = [up |-> u, kept |-> s, pop |-> d]
  BY DEF Loops
<1>3. \A v \in Nat, t \in Seq(Names), e \in Nat : [up |-> v, kept |-> t, pop |-> e] \in Loops
  BY DEF Loops
<1>4. Left(acc) \in Seq(Parts)
  BY LeftType
<1>5. Up # Here /\ Up \in Parts /\ Names \intersect {Up, Here} = {}
  BY PathsAssumption DEF Up, Here, Parts
<1>6. CASE part = Here
  BY <1>5, <1>6 DEF Take, Walk
<1>7. CASE part = Up
  <2> DEFINE next == [up |-> u, kept |-> s, pop |-> d + 1]
  <2>1. Take(acc, part) = next
    BY <1>2, <1>5, <1>7 DEF Take
  <2>2. next \in Loops
    BY <1>1, <1>3
  <2>3. CASE d < Len(s)
    <3>1. Left(acc) = Lead(u, s, m) /\ Left(next) = Lead(u, s, m - 1)
      <4>1. Len(s) - (d + 1) = m - 1
        BY <1>1
      <4> QED  BY <1>1, <2>3, <4>1 DEF Left
    <3>2. m \in 1..Len(s)
      BY <1>1, <2>3
    <3>3. Left(acc) # <<>> /\ Last(Left(acc)) = s[m] /\ Front(Left(acc)) = Left(next)
      BY <1>1, <3>1, <3>2, LeadFront
    <3>4. s[m] # Up
      BY <1>1, <1>5, <3>2
    <3>5. Walk(Left(acc), part) = Front(Left(acc))
      BY <1>5, <1>7, <3>3, <3>4 DEF Walk
    <3> QED  BY <2>1, <2>2, <3>3, <3>5
  <2>4. CASE ~ (d < Len(s))
    <3> DEFINE v == u + d - Len(s)
    <3>1. v \in Nat
      BY <1>1, <2>4
    <3>2. Left(acc) = Lead(v, s, 0)
      <4>1. CASE d > Len(s)
        BY <4>1 DEF Left
      <4>2. CASE ~ (d > Len(s))
        <5>1. v = u /\ m = 0
          BY <1>1, <2>4, <4>2
        <5> QED  BY <4>2, <5>1 DEF Left
      <4> QED  BY <4>1, <4>2
    <3>3. Left(next) = Lead(v + 1, s, 0)
      <4>1. d + 1 > Len(s) /\ u + (d + 1) - Len(s) = v + 1
        BY <1>1, <2>4
      <4> QED  BY <4>1 DEF Left
    <3> HIDE DEF v
    <3>4. Append(Left(acc), Up) = Left(next) /\ (Left(acc) # <<>> => Last(Left(acc)) = Up)
      BY <1>1, <3>1, <3>2, <3>3, LeadUp
    <3>5. Walk(Left(acc), part) = Append(Left(acc), Up)
      BY <1>5, <1>7, <3>4 DEF Walk
    <3> QED  BY <2>1, <2>2, <3>4, <3>5
  <2> QED  BY <2>3, <2>4
<1>8. CASE part \notin {Up, Here}
  <2>1. part \in Names
    BY <1>8 DEF Parts
  <2>2. Walk(Left(acc), part) = Append(Left(acc), part)
    BY <1>8 DEF Walk
  <2>3. CASE d > Len(s)
    <3> DEFINE v == u + d - Len(s)
               next == [up |-> v, kept |-> <<part>>, pop |-> 0]
    <3>1. v \in Nat /\ <<part>> \in Seq(Names)
      BY <1>1, <2>1, <2>3
    <3>2. Take(acc, part) = next
      BY <1>8, <2>3 DEF Take
    <3>3. next \in Loops
      BY <1>3, <3>1
    <3>4. Left(acc) = Lead(v, s, 0)
      BY <2>3 DEF Left
    <3>5. Left(next) = Lead(v, <<part>>, 1)
      BY <3>1 DEF Left
    <3> HIDE DEF v
    <3>6. <<part>> \in Seq(Parts) /\ Len(<<part>>) = 1 /\ <<part>>[1] = part
      BY <2>1 DEF Parts
    <3>7. Append(Lead(v, s, 0), part) = Lead(v, <<part>>, 1)
      <4> DEFINE t == <<part>>
      <4>1. t \in Seq(Parts) /\ Len(t) >= 0 + 1 /\ t[0 + 1] = part
            /\ \A i \in 1..0 : t[i] = s[i]
        BY <3>6
      <4> HIDE DEF t
      <4>2. 0 \in 0..Len(s) /\ 0 + 1 = 1
        BY <1>1
      <4>3. Append(Lead(v, s, 0), t[0 + 1]) = Lead(v, t, 0 + 1)
        BY <1>1, <3>1, <4>1, <4>2, LeadAppend
      <4> QED  BY <4>1, <4>2, <4>3 DEF t
    <3> QED  BY <2>2, <3>2, <3>3, <3>4, <3>5, <3>7
  <2>4. CASE ~ (d > Len(s))
    <3>1. m \in 0..Len(s) /\ Left(acc) = Lead(u, s, m)
      BY <1>1, <2>4 DEF Left
    <3>2. ASSUME NEW t \in Seq(Names), NEW e \in Nat, Len(t) - e = m + 1,
                 t[m + 1] = part, \A i \in 1..m : t[i] = s[i],
                 Take(acc, part) = [up |-> u, kept |-> t, pop |-> e]
          PROVE  Take(acc, part) \in Loops /\ Left(Take(acc, part)) = Walk(Left(acc), part)
      <4>1. t \in Seq(Parts) /\ Len(t) \in Nat /\ Len(t) >= m + 1 /\ ~ (e > Len(t))
        <5>1. Names \subseteq Parts
          BY DEF Parts
        <5> QED  BY <3>1, <3>2, <5>1
      <4>2. Left(Take(acc, part)) = Lead(u, t, m + 1)
        BY <3>2, <4>1 DEF Left
      <4> HIDE DEF m
      <4>3. Append(Lead(u, s, m), t[m + 1]) = Lead(u, t, m + 1)
        BY <1>1, <3>1, <3>2, <4>1, LeadAppend
      <4>4. Take(acc, part) \in Loops
        BY <1>1, <1>3, <3>2
      <4> QED  BY <2>2, <3>1, <3>2, <4>2, <4>3, <4>4
    <3>3. CASE d = 0
      <4> DEFINE t == Append(s, part)
      <4>1. Take(acc, part) = [up |-> u, kept |-> t, pop |-> 0]
        <5>1. ~ (d \in 1..Len(s)) /\ ~ (d > Len(s))
          BY <1>1, <3>3
        <5>2. Take(acc, part) = [acc EXCEPT !.kept = Append(@, part)]
          BY <1>8, <5>1 DEF Take
        <5> QED  BY <1>2, <3>3, <5>2
      <4>2. /\ t \in Seq(Names) /\ Len(t) - 0 = m + 1 /\ t[m + 1] = part
            /\ \A i \in 1..m : t[i] = s[i]
        BY <1>1, <2>1, <3>3
      <4> HIDE DEF t
      <4> QED  BY <3>2, <4>1, <4>2
    <3>4. CASE d # 0 /\ s[m + 1] = part
      <4>1. d \in 1..Len(s) /\ Len(s) - d + 1 = m + 1
        BY <1>1, <2>4, <3>4
      <4>2. Take(acc, part) = [up |-> u, kept |-> s, pop |-> d - 1]
        BY <1>1, <1>2, <1>8, <2>4, <3>4, <4>1 DEF Take
      <4>3. d - 1 \in Nat /\ Len(s) - (d - 1) = m + 1
        BY <1>1, <4>1
      <4> QED  BY <1>1, <3>2, <3>4, <4>2, <4>3
    <3>5. CASE d # 0 /\ s[m + 1] # part
      <4> DEFINE t == Append(SubSeq(s, 1, m), part)
      <4>1. d \in 1..Len(s) /\ Len(s) - d + 1 = m + 1 /\ Len(s) - d + 1 - 1 = m
        BY <1>1, <2>4, <3>5
      <4>2. Take(acc, part) = [up |-> u, kept |-> t, pop |-> 0]
        <5> DEFINE pos == Len(s) - d + 1
        <5>1. pos = m + 1 /\ pos - 1 = m
          BY <4>1
        <5>2. Take(acc, part) = [up |-> u, kept |-> Append(SubSeq(s, 1, pos - 1), part), pop |-> 0]
          BY <1>8, <2>4, <3>5, <4>1 DEF Take
        <5> HIDE DEF pos, m
        <5> QED  BY <5>1, <5>2
      <4>3. SubSeq(s, 1, m) \in Seq(Names) /\ Len(SubSeq(s, 1, m)) = m
            /\ \A i \in 1..m : SubSeq(s, 1, m)[i] = s[i]
        BY <1>1, <3>1
      <4>4. /\ t \in Seq(Names) /\ Len(t) - 0 = m + 1 /\ t[m + 1] = part
            /\ \A i \in 1..m : t[i] = s[i]
        <5> HIDE DEF m
        <5> QED  BY <2>1, <3>1, <4>3
      <4> HIDE DEF t
      <4> QED  BY <3>2, <4>2, <4>4
    <3> QED  BY <3>3, <3>4, <3>5
  <2> QED  BY <2>3, <2>4
<1> QED  BY <1>6, <1>7, <1>8

\* The first state of the loop.
Start == [up |-> 0, kept |-> <<>>, pop |-> 0]

\* The states of the loop follow each other by its turns.
LEMMA TakenDefined ==
  ASSUME NEW parts \in Seq(Parts)
  PROVE  /\ Taken(parts)[0] = Start
         /\ \A i \in 1..Len(parts) : Taken(parts)[i] = Take(Taken(parts)[i - 1], parts[i])
<1> DEFINE n == Len(parts)
           step == [i \in 1..n |-> [acc \in Loops |-> Take(acc, parts[i])]]
<1>1. n \in Nat /\ \A i \in 1..n : parts[i] \in Parts
  OBVIOUS
<1>2. Start \in Loops
  BY DEF Start, Loops
<1>3. step \in Steps(Loops, n)
  BY <1>1, TakeWalks DEF Steps
<1>4. \E f : Repeated(Loops, n, Start, step, f)
  <2> HIDE DEF step, n
  <2>1. n \in Nat
    BY <1>1
  <2> QED  BY <1>2, <1>3, <2>1, RecursionExists
<1>5. PICK f \in [0..n -> Loops] : f[0] = Start /\ \A i \in 1..n : f[i] = step[i][f[i - 1]]
  <2> HIDE DEF step, n
  <2> QED  BY <1>4 DEF Repeated
<1>6. \A i \in 1..n : f[i] = Take(f[i - 1], parts[i])
  <2> TAKE i \in 1..n
  <2>1. f[i - 1] \in Loops
    BY <1>1, <1>5
  <2> QED  BY <1>5, <2>1
<1> HIDE DEF step
<1>7. \E g : g = [i \in 0..n |-> IF i = 0 THEN Start ELSE Take(g[i - 1], parts[i])]
  <2>1. f = [i \in 0..n |-> IF i = 0 THEN Start ELSE Take(f[i - 1], parts[i])]
    <3>1. \A i \in 0..n : i # 0 => i \in 1..n
      BY <1>1
    <3> QED  BY <1>5, <1>6, <3>1
  <2> QED  BY <2>1
<1>8. Taken(parts) = [i \in 0..n |-> IF i = 0 THEN Start ELSE Take(Taken(parts)[i - 1], parts[i])]
  BY <1>7 DEF Taken, Start
<1>9. 0 \in 0..n /\ \A i \in 1..n : i \in 0..n /\ i # 0
  BY <1>1
<1> HIDE DEF n
<1>10. Taken(parts)[0] = Start /\ \A i \in 1..n : Taken(parts)[i] = Take(Taken(parts)[i - 1], parts[i])
  BY <1>8, <1>9
<1> QED  BY <1>10 DEF n

\* A step of a walk stays among paths.
LEMMA WalkType ==
  ASSUME NEW done \in Seq(Parts), NEW part \in Parts
  PROVE  Walk(done, part) \in Seq(Parts)
<1>1. done # <<>> => Front(done) \in Seq(Parts)
  BY DEF Front
<1> QED  BY <1>1 DEF Walk

\* So do the steps of a walk.
LEMMA WalkedDefined ==
  ASSUME NEW parts \in Seq(Parts)
  PROVE  /\ Walked(parts)[0] = <<>>
         /\ \A i \in 1..Len(parts) : Walked(parts)[i] = Walk(Walked(parts)[i - 1], parts[i])
<1> DEFINE n == Len(parts)
           step == [i \in 1..n |-> [done \in Seq(Parts) |-> Walk(done, parts[i])]]
<1>1. n \in Nat /\ \A i \in 1..n : parts[i] \in Parts
  OBVIOUS
<1>2. <<>> \in Seq(Parts)
  OBVIOUS
<1>3. step \in Steps(Seq(Parts), n)
  BY <1>1, WalkType DEF Steps
<1>4. \E f : Repeated(Seq(Parts), n, <<>>, step, f)
  <2> HIDE DEF step, n
  <2>1. n \in Nat
    BY <1>1
  <2> QED  BY <1>2, <1>3, <2>1, RecursionExists
<1>5. PICK f \in [0..n -> Seq(Parts)] : f[0] = <<>> /\ \A i \in 1..n : f[i] = step[i][f[i - 1]]
  <2> HIDE DEF step, n
  <2> QED  BY <1>4 DEF Repeated
<1>6. \A i \in 1..n : f[i] = Walk(f[i - 1], parts[i])
  <2> TAKE i \in 1..n
  <2>1. f[i - 1] \in Seq(Parts)
    BY <1>1, <1>5
  <2> QED  BY <1>5, <2>1
<1> HIDE DEF step
<1>7. \E g : g = [i \in 0..n |-> IF i = 0 THEN <<>> ELSE Walk(g[i - 1], parts[i])]
  <2>1. f = [i \in 0..n |-> IF i = 0 THEN <<>> ELSE Walk(f[i - 1], parts[i])]
    <3>1. \A i \in 0..n : i # 0 => i \in 1..n
      BY <1>1
    <3> QED  BY <1>5, <1>6, <3>1
  <2> QED  BY <2>1
<1>8. Walked(parts) = [i \in 0..n |-> IF i = 0 THEN <<>> ELSE Walk(Walked(parts)[i - 1], parts[i])]
  BY <1>7 DEF Walked
<1>9. 0 \in 0..n /\ \A i \in 1..n : i \in 0..n /\ i # 0
  BY <1>1
<1> HIDE DEF n
<1>10. Walked(parts)[0] = <<>> /\ \A i \in 1..n : Walked(parts)[i] = Walk(Walked(parts)[i - 1], parts[i])
  BY <1>8, <1>9
<1> QED  BY <1>10 DEF n

\* After each component the loop would give the path that one has walked to.
LEMMA TakenWalks ==
  ASSUME NEW parts \in Seq(Parts), NEW n \in 0..Len(parts)
  PROVE  Taken(parts)[n] \in Loops /\ Left(Taken(parts)[n]) = Walked(parts)[n]
<1> DEFINE Agrees(i) == Taken(parts)[i] \in Loops /\ Left(Taken(parts)[i]) = Walked(parts)[i]
           T == {i \in 0..Len(parts) : ~ Agrees(i)}
<1>1. SUFFICES ASSUME T # {} PROVE FALSE
  OBVIOUS
<1>2. Len(parts) \in Nat /\ \A i \in 1..Len(parts) : parts[i] \in Parts
  OBVIOUS
<1>3. PICK i \in T : \A j \in T : i <= j
  <2>1. T \in SUBSET Nat
    BY <1>2
  <2> HIDE DEF T
  <2> QED  BY <1>1, <2>1, SmallestExists
<1>4. Agrees(0)
  <2>1. Start \in Loops /\ Start.up = 0 /\ Start.pop = 0 /\ Start.kept = <<>>
    BY DEF Start, Loops
  <2>2. Left(Start) = Lead(0, <<>>, 0)
    BY <2>1 DEF Left
  <2>3. Lead(0, <<>>, 0) = <<>>
    <3>1. <<>> \in Seq(Parts) /\ 0 \in 0..Len(<<>>) /\ 0 + 0 = 0
      OBVIOUS
    <3>2. Lead(0, <<>>, 0) \in Seq(Parts) /\ Len(Lead(0, <<>>, 0)) = 0
      BY <3>1, LeadType
    <3> QED  BY <3>2
  <2> QED  BY <2>1, <2>2, <2>3, TakenDefined, WalkedDefined
<1>5. i \in 1..Len(parts) /\ i - 1 \in 0..Len(parts) /\ ~ (i <= i - 1)
  BY <1>2, <1>3, <1>4
<1>6. Agrees(i - 1)
  BY <1>3, <1>5
<1>7. Taken(parts)[i] = Take(Taken(parts)[i - 1], parts[i])
      /\ Walked(parts)[i] = Walk(Walked(parts)[i - 1], parts[i])
  BY <1>5, TakenDefined, WalkedDefined
<1>8. Agrees(i)
  BY <1>2, <1>5, <1>6, <1>7, TakeWalks
<1> QED  BY <1>3, <1>8

\* What the code computes at the end of the loop is what the loop would give.
LEMMA NormalizeLeft ==
  ASSUME NEW parts \in Seq(Parts), Taken(parts)[Len(parts)] \in Loops
  PROVE  Normalize(parts) = Left(Taken(parts)[Len(parts)])
<1> DEFINE end == Taken(parts)[Len(parts)]
           u == end.up
           s == end.kept
           d == end.pop
<1>1. u \in Nat /\ d \in Nat /\ s \in Seq(Parts) /\ Len(s) \in Nat
  <2>1. s \in Seq(Names) /\ Names \subseteq Parts
    BY DEF Loops, Parts
  <2> QED  BY <2>1 DEF Loops
<1>2. \A x \in Int : Max({0, x}) = IF x > 0 THEN x ELSE 0
  <2> TAKE x \in Int
  <2> DEFINE y == IF x > 0 THEN x ELSE 0
  <2>1. y \in {0, x} /\ \A z \in {0, x} : y >= z
    OBVIOUS
  <2>2. \A w \in {0, x} : (\A z \in {0, x} : w >= z) => w = y
    OBVIOUS
  <2> HIDE DEF y
  <2>3. Max({0, x}) = y
    BY <2>1, <2>2 DEF Max
  <2> QED  BY <2>3 DEF y
<1> DEFINE over == Max({0, d - Len(s)})
           m == Max({0, Len(s) - d})
           ups == [i \in 1..(u + over) |-> Up]
<1>3. Normalize(parts) = ups \o SubSeq(s, 1, m)
  BY DEF Normalize
<1>4. Left(end) = Lead(u + over, s, m) /\ over \in Nat /\ m \in 0..Len(s)
  <2>1. over = (IF d - Len(s) > 0 THEN d - Len(s) ELSE 0)
        /\ m = (IF Len(s) - d > 0 THEN Len(s) - d ELSE 0)
    <3> DEFINE x == d - Len(s)
               y == Len(s) - d
    <3>1. x \in Int /\ y \in Int
      BY <1>1
    <3> HIDE DEF x, y
    <3>2. Max({0, x}) = (IF x > 0 THEN x ELSE 0) /\ Max({0, y}) = (IF y > 0 THEN y ELSE 0)
      BY <1>2, <3>1
    <3> QED  BY <3>2 DEF x, y
  <2> HIDE DEF over, m
  <2>2. CASE d > Len(s)
    <3>1. over = d - Len(s) /\ m = 0 /\ u + d - Len(s) = u + over
      BY <1>1, <2>1, <2>2
    <3> QED  BY <1>1, <2>2, <3>1 DEF Left
  <2>3. CASE ~ (d > Len(s))
    <3>1. over = 0 /\ m = Len(s) - d /\ u + over = u
      BY <1>1, <2>1, <2>3
    <3> QED  BY <1>1, <2>3, <3>1 DEF Left
  <2> QED  BY <2>2, <2>3
<1> HIDE DEF over, m
<1>5. ups \in Seq(Parts) /\ Len(ups) = u + over /\ \A i \in 1..(u + over) : ups[i] = Up
  <2>1. u + over \in Nat /\ Up \in Parts
    BY <1>1, <1>4 DEF Parts
  <2> QED  BY <2>1
<1>6. /\ SubSeq(s, 1, m) \in Seq(Parts) /\ Len(SubSeq(s, 1, m)) = m
      /\ \A i \in 1..m : SubSeq(s, 1, m)[i] = s[i]
  BY <1>1, <1>4
<1> HIDE DEF ups, u, s, d
<1> DEFINE a == ups \o SubSeq(s, 1, m)
           b == Lead(u + over, s, m)
<1>7. a \in Seq(Parts) /\ Len(a) = u + over + m
  <2>1. Len(a) = Len(ups) + Len(SubSeq(s, 1, m)) /\ a \in Seq(Parts)
    BY <1>5, <1>6
  <2> HIDE DEF a
  <2> QED  BY <1>5, <1>6, <2>1
<1>8. b \in Seq(Parts) /\ Len(b) = u + over + m
  <2>1. u + over \in Nat
    BY <1>1, <1>4
  <2> QED  BY <1>1, <1>4, <2>1, LeadType
<1>9. \A i \in 1..(u + over + m) : a[i] = b[i]
  <2> TAKE i \in 1..(u + over + m)
  <2>1. CASE i <= u + over
    <3>1. a[i] = ups[i] /\ i \in 1..(u + over)
      BY <1>1, <1>4, <1>5, <1>6, <2>1
    <3>2. b[i] = Up
      BY <2>1 DEF Lead
    <3> QED  BY <1>5, <3>1, <3>2
  <2>2. CASE ~ (i <= u + over)
    <3>1. a[i] = SubSeq(s, 1, m)[i - (u + over)] /\ i - (u + over) \in 1..m
      BY <1>1, <1>4, <1>5, <1>6, <2>2
    <3>2. b[i] = s[i - (u + over)]
      BY <2>2 DEF Lead
    <3> QED  BY <1>6, <3>1, <3>2
  <2> QED  BY <2>1, <2>2
<1> HIDE DEF a, b
<1>10. a = b
  BY <1>7, <1>8, <1>9, SeqEqual
<1> QED  BY <1>3, <1>4, <1>10 DEF a, b

\* normalize gives the path to which one gets by walking.
THEOREM NormalizeWalks ==
  ASSUME NEW parts \in Seq(Parts)
  PROVE  Normalize(parts) = Walked(parts)[Len(parts)]
<1>1. Len(parts) \in 0..Len(parts)
  OBVIOUS
<1> QED  BY <1>1, TakenWalks, NormalizeLeft

-----------------------------------------------------------------------------
(* The link from one file to another leads there.                          *)

\* The beginning of a sequence of names as such.
LEMMA LeadWhole ==
  ASSUME NEW s \in Seq(Names)
  PROVE  Lead(0, s, Len(s)) = s
<1>1. s \in Seq(Parts) /\ Len(s) \in 0..Len(s) /\ 0 + Len(s) = Len(s)
  <2>1. Names \subseteq Parts
    BY DEF Parts
  <2> QED  BY <2>1
<1>2. Lead(0, s, Len(s)) \in Seq(Parts) /\ Len(Lead(0, s, Len(s))) = Len(s)
  BY <1>1, LeadType
<1>3. \A i \in 1..Len(s) : Lead(0, s, Len(s))[i] = s[i]
  BY <1>1 DEF Lead
<1> QED  BY <1>1, <1>2, <1>3, SeqEqual

\* A way along p, k steps up again, and along what q has more than that.
WayBack(p, q, k, way) ==
  /\ Len(way) = Len(q) + k + k /\ Len(p) - k <= Len(q)
  /\ \A i \in 1..(Len(p) - k) : q[i] = p[i]
  /\ \A i \in 1..Len(p) : way[i] = p[i]
  /\ \A i \in (Len(p) + 1)..(Len(p) + k) : way[i] = Up
  /\ \A i \in (Len(p) + k + 1)..Len(way) : way[i] = q[i - k - k]

\* A walk on it leads to q.
LEMMA WalkBack ==
  ASSUME NEW p \in Seq(Names), NEW q \in Seq(Names), NEW k \in 0..Len(p), NEW way \in Seq(Parts),
         WayBack(p, q, k, way)
  PROVE  Walked(way)[Len(way)] = q
<1> DEFINE Place(i) == IF i <= Len(p) THEN Lead(0, p, i)
                       ELSE IF i <= Len(p) + k THEN Lead(0, p, Len(p) + Len(p) - i)
                       ELSE Lead(0, q, i - k - k)
           T == {i \in 0..Len(way) : Walked(way)[i] # Place(i)}
<1>1. /\ Len(p) \in Nat /\ Len(q) \in Nat /\ Len(way) \in Nat /\ k \in Nat /\ k <= Len(p)
      /\ Len(way) = Len(q) + k + k /\ Len(p) - k <= Len(q)
  BY DEF WayBack
<1>2. p \in Seq(Parts) /\ q \in Seq(Parts)
  <2>1. Names \subseteq Parts
    BY DEF Parts
  <2> QED  BY <2>1
<1>3. Names \intersect {Up, Here} = {} /\ Up # Here
  BY PathsAssumption DEF Up, Here
<1>4. ASSUME T # {} PROVE FALSE
  <2>1. PICK i \in T : \A j \in T : i <= j
    <3>1. T \in SUBSET Nat
      BY <1>1
    <3> HIDE DEF T
    <3> QED  BY <1>4, <3>1, SmallestExists
  <2>2. Walked(way)[0] = Place(0)
    <3>1. Lead(0, p, 0) \in Seq(Parts) /\ Len(Lead(0, p, 0)) = 0
      <4>1. 0 \in 0..Len(p) /\ 0 + 0 = 0 /\ 0 \in Nat
        BY <1>1
      <4> QED  BY <1>2, <4>1, LeadType
    <3>2. Place(0) = Lead(0, p, 0)
      BY <1>1
    <3> QED  BY <3>1, <3>2, WalkedDefined
  <2>3. i \in 1..Len(way) /\ i - 1 \in 0..Len(way) /\ ~ (i <= i - 1)
    BY <1>1, <2>1, <2>2
  <2>4. Walked(way)[i - 1] = Place(i - 1)
    BY <2>1, <2>3
  <2>5. Walked(way)[i] = Walk(Place(i - 1), way[i])
    BY <2>3, <2>4, WalkedDefined
  <2>6. Walk(Place(i - 1), way[i]) = Place(i)
    <3>1. CASE i <= Len(p)
      <4>1. Place(i - 1) = Lead(0, p, i - 1) /\ Place(i) = Lead(0, p, i)
        BY <1>1, <2>3, <3>1
      <4> DEFINE m == i - 1
      <4>2. m \in 0..Len(p) /\ m + 1 = i /\ Len(p) >= m + 1 /\ i \in 1..Len(p) /\ 0 \in Nat
        BY <1>1, <2>3, <3>1
      <4> HIDE DEF m
      <4>3. Append(Lead(0, p, m), p[m + 1]) = Lead(0, p, m + 1)
        BY <1>2, <4>2, LeadAppend
      <4>4. way[i] = p[i] /\ p[i] \notin {Up, Here}
        BY <1>3, <4>2 DEF WayBack
      <4>5. Walk(Lead(0, p, m), way[i]) = Append(Lead(0, p, m), p[i])
        BY <4>4 DEF Walk
      <4> QED  BY <4>1, <4>2, <4>3, <4>5 DEF m
    <3>2. CASE i > Len(p) /\ i <= Len(p) + k
      <4> DEFINE m == Len(p) + Len(p) - i + 1
      <4>1. m \in 1..Len(p) /\ m - 1 = Len(p) + Len(p) - i /\ 0 \in Nat
        BY <1>1, <2>3, <3>2
      <4>2. Place(i) = Lead(0, p, m - 1)
        BY <1>1, <2>3, <3>2, <4>1
      <4>3. Place(i - 1) = Lead(0, p, m)
        <5>1. CASE i - 1 = Len(p)
          <6>1. m = i - 1 /\ i - 1 <= Len(p)
            BY <1>1, <2>3, <5>1
          <6> HIDE DEF m
          <6> QED  BY <6>1
        <5>2. CASE i - 1 # Len(p)
          <6>1. i \in Nat /\ i > Len(p) /\ i <= Len(p) + k /\ i - 1 # Len(p)
            BY <1>1, <2>3, <3>2, <5>2
          <6>2. m = Len(p) + Len(p) - (i - 1)
            BY <1>1, <6>1
          <6> HIDE DEF m, Place, T
          <6>3. ~ (i - 1 <= Len(p)) /\ i - 1 <= Len(p) + k
            <7> DEFINE l == Len(p)
            <7>1. l \in Nat /\ i > l /\ i <= l + k /\ i - 1 # l
              BY <1>1, <6>1
            <7> HIDE DEF l
            <7>2. ~ (i - 1 <= l) /\ i - 1 <= l + k
              BY <1>1, <6>1, <7>1
            <7> QED  BY <7>2 DEF l
          <6> USE DEF Place
          <6> QED  BY <6>2, <6>3
        <5> QED  BY <5>1, <5>2
      <4>4. way[i] = Up
        <5>1. i \in (Len(p) + 1)..(Len(p) + k)
          BY <1>1, <2>3, <3>2
        <5> QED  BY <5>1 DEF WayBack
      <4> HIDE DEF m, Place
      <4>5. /\ Front(Lead(0, p, m)) = Lead(0, p, m - 1)
            /\ Last(Lead(0, p, m)) = p[m] /\ Lead(0, p, m) # <<>>
        BY <1>2, <4>1, LeadFront
      <4>6. p[m] # Up
        BY <1>3, <4>1
      <4>7. Walk(Lead(0, p, m), Up) = Front(Lead(0, p, m))
        BY <1>3, <4>5, <4>6 DEF Walk
      <4> QED  BY <4>2, <4>3, <4>4, <4>5, <4>7
    <3>3. CASE i > Len(p) + k
      <4> DEFINE m == i - 1 - k - k
      <4>1. /\ m \in 0..Len(q) /\ m + 1 = i - k - k /\ Len(q) >= m + 1 /\ 0 \in Nat
            /\ m + 1 \in 1..Len(q)
        BY <1>1, <2>3, <3>3
      <4>2. Place(i) = Lead(0, q, m + 1)
        <5>1. ~ (i <= Len(p)) /\ ~ (i <= Len(p) + k)
          BY <1>1, <2>3, <3>3
        <5> HIDE DEF m
        <5> QED  BY <4>1, <5>1
      <4>3. Append(Place(i - 1), q[m + 1]) = Lead(0, q, m + 1)
        <5>1. CASE i - 1 > Len(p) + k
          <6>1. ~ (i - 1 <= Len(p)) /\ ~ (i - 1 <= Len(p) + k)
            BY <1>1, <2>3, <5>1
          <6>2. Place(i - 1) = Lead(0, q, m)
            BY <6>1
          <6> HIDE DEF m, Place
          <6>3. Append(Lead(0, q, m), q[m + 1]) = Lead(0, q, m + 1)
            BY <1>2, <4>1, LeadAppend
          <6> QED  BY <6>2, <6>3
        <5>2. CASE i - 1 = Len(p) + k
          <6>1. m = Len(p) - k /\ m \in 0..Len(p)
            BY <1>1, <2>3, <5>2
          <6>2. Place(i - 1) = Lead(0, p, m)
            <7>1. CASE k = 0
              <8>1. i - 1 <= Len(p) /\ i - 1 = m
                BY <1>1, <2>3, <5>2, <7>1
              <8> HIDE DEF m
              <8> QED  BY <8>1
            <7>2. CASE k # 0
              <8>1. ~ (i - 1 <= Len(p)) /\ i - 1 <= Len(p) + k /\ Len(p) + Len(p) - (i - 1) = m
                BY <1>1, <2>3, <5>2, <7>2
              <8> HIDE DEF m
              <8> QED  BY <8>1
            <7> QED  BY <7>1, <7>2
          <6>3. \A j \in 1..m : q[j] = p[j]
            BY <6>1 DEF WayBack
          <6> HIDE DEF m, Place
          <6>4. Append(Lead(0, p, m), q[m + 1]) = Lead(0, q, m + 1)
            BY <1>2, <4>1, <6>1, <6>3, LeadAppend
          <6> QED  BY <6>2, <6>4
        <5>3. i - 1 > Len(p) + k \/ i - 1 = Len(p) + k
          <6> HIDE DEF m, Place, T
          <6>1. i \in Nat /\ i > Len(p) + k /\ Len(p) + k \in Nat
            BY <1>1, <2>3, <3>3
          <6> DEFINE b == Len(p) + k
          <6>2. b \in Nat /\ i > b
            BY <6>1
          <6> HIDE DEF b
          <6>3. i - 1 > b \/ i - 1 = b
            BY <6>1, <6>2
          <6> QED  BY <6>3 DEF b
        <5> QED  BY <5>1, <5>2, <5>3
      <4>4. way[i] = q[m + 1] /\ q[m + 1] \notin {Up, Here}
        <5>1. i \in (Len(p) + k + 1)..Len(way)
          BY <1>1, <2>3, <3>3
        <5>2. way[i] = q[i - k - k]
          BY <5>1 DEF WayBack
        <5> HIDE DEF m
        <5> QED  BY <1>3, <4>1, <5>2
      <4> HIDE DEF m, Place
      <4>5. Walk(Place(i - 1), way[i]) = Append(Place(i - 1), q[m + 1])
        BY <4>4 DEF Walk
      <4> QED  BY <4>2, <4>3, <4>5
    <3> QED  BY <1>1, <2>3, <3>1, <3>2, <3>3
  <2> QED  BY <2>1, <2>5, <2>6
<1>5. Walked(way)[Len(way)] = Place(Len(way))
  <2>1. Len(way) \in 0..Len(way)
    BY <1>1
  <2> HIDE DEF Place
  <2> QED  BY <1>4, <2>1
<1>6. Place(Len(way)) = Lead(0, q, Len(q))
  <2>1. CASE Len(way) > Len(p) + k
    <3>1. ~ (Len(way) <= Len(p)) /\ ~ (Len(way) <= Len(p) + k) /\ Len(way) - k - k = Len(q)
      BY <1>1, <2>1
    <3> QED  BY <3>1
  <2>2. CASE ~ (Len(way) > Len(p) + k)
    <3>1. Len(q) = Len(p) - k /\ Len(way) = Len(p) + k
      <4> HIDE DEF Place, T
      <4>1. Len(q) + k + k <= Len(p) + k /\ Len(p) - k <= Len(q)
        BY <1>1, <2>2
      <4> QED  BY <1>1, <4>1
    <3>2. Place(Len(way)) = Lead(0, p, Len(q))
      <4>1. CASE k = 0
        <5>1. Len(way) <= Len(p) /\ Len(way) = Len(q)
          BY <1>1, <3>1, <4>1
        <5> QED  BY <5>1
      <4>2. CASE k # 0
        <5>1. ~ (Len(way) <= Len(p)) /\ Len(way) <= Len(p) + k /\ Len(p) + Len(p) - Len(way) = Len(q)
          BY <1>1, <3>1, <4>2
        <5> QED  BY <5>1
      <4> QED  BY <4>1, <4>2
    <3>3. Lead(0, p, Len(q)) = Lead(0, q, Len(q))
      <4>1. \A i \in 1..(0 + Len(q)) : (IF i <= 0 THEN Up ELSE p[i - 0]) = (IF i <= 0 THEN Up ELSE q[i - 0])
        BY <1>1, <3>1 DEF WayBack
      <4> QED  BY <4>1 DEF Lead
    <3> QED  BY <3>2, <3>3
  <2> QED  BY <2>1, <2>2
<1>7. Lead(0, q, Len(q)) = q
  BY LeadWhole
<1> QED  BY <1>5, <1>6, <1>7

\* How far two directories go together.
Common(s, t) ==
  {i \in 0..Min({Len(s), Len(t)}) : IsPrefix(SubSeq(s, 1, i), t)}

LEMMA CommonLargest ==
  ASSUME NEW s \in Seq(Names), NEW t \in Seq(Names)
  PROVE  /\ Max(Common(s, t)) \in 0..Len(s) /\ Max(Common(s, t)) <= Len(t)
         /\ \A i \in 1..Max(Common(s, t)) : t[i] = s[i]
<1> DEFINE l == Min({Len(s), Len(t)})
<1>1. l \in Nat /\ l <= Len(s) /\ l <= Len(t)
  <2> DEFINE y == IF Len(s) <= Len(t) THEN Len(s) ELSE Len(t)
  <2>1. y \in {Len(s), Len(t)} /\ \A z \in {Len(s), Len(t)} : y <= z
    OBVIOUS
  <2>2. \E w \in {Len(s), Len(t)} : \A z \in {Len(s), Len(t)} : w =< z
    BY <2>1
  <2> HIDE DEF y
  <2>3. l \in {Len(s), Len(t)} /\ \A z \in {Len(s), Len(t)} : l =< z
    BY <2>2 DEF Min
  <2> HIDE DEF l
  <2> QED  BY <2>3
<1> HIDE DEF l
<1> DEFINE T == {i \in 0..l : IsPrefix(SubSeq(s, 1, i), t)}
<1>2. Common(s, t) = T
  BY DEF Common, l
<1>3. 0 \in T
  <2>1. SubSeq(s, 1, 0) = <<>> /\ SubSeq(t, 1, 0) = <<>> /\ SubSeq(<<>>, 1, 0) = <<>>
    BY SubSeqEmpty
  <2>2. IsPrefix(SubSeq(s, 1, 0), t)
    BY <2>1 DEF IsPrefix
  <2>3. 0 \in 0..l
    BY <1>1
  <2> QED  BY <2>2, <2>3
<1>4. \E x \in T : \A y \in T : y <= x
  <2>1. T \in SUBSET Nat /\ T # {} /\ \A x \in T : x <= l
    BY <1>1, <1>3
  <2> HIDE DEF T
  <2> QED  BY <1>1, <2>1, LargestExists
<1> DEFINE c == Max(T)
<1>5. c \in T
  <2> HIDE DEF T
  <2>1. \E x \in T : \A y \in T : x >= y
    <3>1. T \in SUBSET Nat
      BY <1>1 DEF T
    <3> QED  BY <1>4, <3>1
  <2> QED  BY <2>1 DEF Max
<1>6. c \in 0..l /\ IsPrefix(SubSeq(s, 1, c), t)
  BY <1>5
<1> HIDE DEF c, T
<1>7. c \in 0..Len(s) /\ c <= Len(t)
  BY <1>1, <1>6
<1>8. \A i \in 1..c : t[i] = s[i]
  <2> DEFINE a == SubSeq(s, 1, c)
  <2>1. a \in Seq(Names) /\ Len(a) = c /\ \A i \in 1..c : a[i] = s[i]
    BY <1>7
  <2>2. SubSeq(a, 1, Len(a)) = a
    BY <2>1, SubSeqFull
  <2>3. a = SubSeq(t, 1, c)
    BY <1>6, <2>1, <2>2 DEF IsPrefix
  <2>4. \A i \in 1..c : SubSeq(t, 1, c)[i] = t[i]
    BY <1>7
  <2> HIDE DEF a
  <2> QED  BY <2>1, <2>3, <2>4
<1> QED  BY <1>2, <1>7, <1>8 DEF c

\* The directory and the name of a file.
LEMMA FileParts ==
  ASSUME NEW p \in Seq(Names), IsFile(p)
  PROVE  /\ Dir(p) = SubSeq(p, 1, Len(p) - 1) /\ Dir(p) \in Seq(Names)
         /\ Len(Dir(p)) = Len(p) - 1 /\ Len(p) \in Nat \ {0}
         /\ \A i \in 1..(Len(p) - 1) : Dir(p)[i] = p[i]
         /\ FileName(p) = <<p[Len(p)]>> /\ p[Len(p)] \in Files
<1>1. p # <<>> /\ Last(p) \in Files
  BY DEF IsFile
<1>2. Len(p) \in Nat \ {0}
  BY <1>1
<1>3. Dir(p) = SubSeq(p, 1, Len(p) - 1)
  BY DEF Dir, Front
<1>4. FileName(p) = <<p[Len(p)]>> /\ p[Len(p)] \in Files
  BY <1>1 DEF FileName, Last
<1> DEFINE a == SubSeq(p, 1, Len(p) - 1)
<1>5. a \in Seq(Names) /\ Len(a) = Len(p) - 1 /\ \A i \in 1..(Len(p) - 1) : a[i] = p[i]
  <2> DEFINE n == Len(p) - 1
  <2>1. n \in Nat /\ n <= Len(p) /\ \A i \in 1..n : p[i] \in Names
    BY <1>2
  <2> HIDE DEF n
  <2>2. SubSeq(p, 1, n) \in Seq(Names) /\ Len(SubSeq(p, 1, n)) = n
        /\ \A i \in 1..n : SubSeq(p, 1, n)[i] = p[i]
    BY <2>1, SubSeqProperties
  <2> QED  BY <2>2 DEF n
<1> HIDE DEF a
<1> QED  BY <1>2, <1>3, <1>4, <1>5 DEF a

\* The URL of a path, seen from another one.
UrlParts(p, q) ==
  LET c   == Max(Common(Dir(p), Dir(q)))
      ups == [i \in 1..(Len(Dir(p)) - c) |-> Up]
  IN  IF p = q THEN <<>> ELSE ups \o SubSeq(q, c + 1, Len(q))

LEMMA PathToParts ==
  ASSUME NEW p \in Seq(Names), NEW q \in Seq(Names), NEW a
  PROVE  LET to == PathTo(Path(p, NoAnchor), Path(q, a))
         IN  to = Path(UrlParts(p, q), a) /\ to.parts = UrlParts(p, q) /\ to.anchor = a
<1> DEFINE to == PathTo(Path(p, NoAnchor), Path(q, a))
<1>1. to = Path(UrlParts(p, q), a)
  BY DEF PathTo, Path, Common, UrlParts
<1> HIDE DEF to
<1>2. to.parts = UrlParts(p, q) /\ to.anchor = a
  BY <1>1 DEF Path
<1> QED  BY <1>1, <1>2 DEF to

\* A directory of a path.
LEMMA DirType ==
  ASSUME NEW p \in Seq(Names)
  PROVE  Dir(p) \in Seq(Names) /\ Len(Dir(p)) <= Len(p)
<1>1. CASE IsFile(p)
  BY <1>1, FileParts
<1>2. CASE ~ IsFile(p)
  BY <1>2 DEF Dir
<1> QED  BY <1>1, <1>2

\* It is one that a text can have.
LEMMA PathToType ==
  ASSUME NEW p \in Seq(Names), NEW q \in Seq(Names), NEW a \in Anchors \union {NoAnchor}
  PROVE  PathTo(Path(p, NoAnchor), Path(q, a)) \in Urls
<1> DEFINE c   == Max(Common(Dir(p), Dir(q)))
           ups == [i \in 1..(Len(Dir(p)) - c) |-> Up]
           url == IF p = q THEN <<>> ELSE ups \o SubSeq(q, c + 1, Len(q))
<1>1. Dir(p) \in Seq(Names) /\ Dir(q) \in Seq(Names) /\ Len(Dir(q)) <= Len(q)
  BY DirType
<1>2. c \in 0..Len(Dir(p)) /\ c <= Len(Dir(q))
  BY <1>1, CommonLargest
<1>3. PathTo(Path(p, NoAnchor), Path(q, a)) = Path(UrlParts(p, q), a)
  BY PathToParts
<1> HIDE DEF c
<1>4. ups \in Seq(Parts)
  <2>1. Len(Dir(p)) - c \in Nat /\ Up \in Parts
    BY <1>1, <1>2 DEF Parts
  <2> QED  BY <2>1
<1>5. SubSeq(q, c + 1, Len(q)) \in Seq(Parts)
  <2>1. Len(q) \in Nat /\ c \in Nat
    BY <1>1, <1>2
  <2>2. \A i \in (c + 1)..Len(q) : q[i] \in Parts
    BY <2>1 DEF Parts
  <2> QED  BY <2>1, <2>2, SubSeqProperties
<1> HIDE DEF ups
<1>6. url \in Seq(Parts)
  BY <1>4, <1>5
<1> HIDE DEF url
<1>7. UrlParts(p, q) = url
  BY DEF UrlParts, url, ups, c
<1> QED  BY <1>3, <1>6, <1>7 DEF Urls, Path

\* The URL of a file, seen from another file: up to where both go together,
\* and down to the file.  It is neither empty nor an identifier.
LEMMA PathToWay ==
  ASSUME NEW p \in Seq(Names), IsFile(p), NEW q \in Seq(Names), IsFile(q), p # q,
         NEW a \in Anchors \union {NoAnchor}
  PROVE  LET url == PathTo(Path(p, NoAnchor), Path(q, a)).parts
         IN  /\ url # <<>> /\ IsFile(url)
             /\ Dir(p) \o url \in Seq(Parts)
             /\ \E k \in 0..Len(Dir(p)) : WayBack(Dir(p), q, k, Dir(p) \o url)
<1> DEFINE d   == Dir(p)
           c   == Max(Common(d, Dir(q)))
           k   == Len(d) - c
           ups == [i \in 1..k |-> Up]
           u   == SubSeq(q, c + 1, Len(q))
           url == ups \o u
<1>1. /\ d \in Seq(Names) /\ Dir(q) \in Seq(Names) /\ Len(Dir(q)) = Len(q) - 1 /\ Len(q) \in Nat \ {0}
      /\ \A i \in 1..(Len(q) - 1) : Dir(q)[i] = q[i]
      /\ q[Len(q)] \in Files
  BY FileParts
<1>2. c \in 0..Len(d) /\ c <= Len(q) - 1 /\ \A i \in 1..c : Dir(q)[i] = d[i]
  <2>1. /\ c \in 0..Len(d) /\ c <= Len(Dir(q))
        /\ \A i \in 1..c : Dir(q)[i] = d[i]
    BY <1>1, CommonLargest
  <2> HIDE DEF c, d
  <2> QED  BY <1>1, <2>1
<1>3. PathTo(Path(p, NoAnchor), Path(q, a)).parts = url
  BY PathToParts DEF UrlParts
<1> HIDE DEF c, d
<1>4. k \in 0..Len(d) /\ c = Len(d) - k /\ c \in Nat /\ Len(d) \in Nat
  BY <1>1, <1>2
<1>5. ups \in Seq(Parts) /\ Len(ups) = k /\ \A i \in 1..k : ups[i] = Up
  <2>1. k \in Nat /\ Up \in Parts
    BY <1>4 DEF Parts
  <2> HIDE DEF k
  <2> QED  BY <2>1
<1>6. u \in Seq(Parts) /\ Len(u) = Len(q) - c /\ \A i \in 1..(Len(q) - c) : u[i] = q[c + i]
  <2> DEFINE n == Len(q)
  <2>1. n \in Nat /\ n \in Int /\ c + 1 \in Int /\ c + 1 <= n /\ n - (c + 1) + 1 = n - c
    BY <1>1, <1>2, <1>4
  <2>2. \A i \in (c + 1)..n : q[i] \in Parts
    BY <1>4, <2>1 DEF Parts
  <2> HIDE DEF n
  <2>3. /\ SubSeq(q, c + 1, n) \in Seq(Parts) /\ Len(SubSeq(q, c + 1, n)) = n - c
        /\ \A i \in 1..(n - c) : SubSeq(q, c + 1, n)[i] = q[(c + 1) + i - 1]
    BY <2>1, <2>2, SubSeqProperties
  <2>4. \A i \in 1..(n - c) : (c + 1) + i - 1 = c + i
    BY <1>4, <2>1
  <2> QED  BY <2>3, <2>4 DEF n
<1> HIDE DEF k, u, ups
<1>7. /\ url \in Seq(Parts) /\ Len(url) = k + (Len(q) - c)
      /\ \A i \in 1..(k + (Len(q) - c)) : url[i] = IF i <= k THEN Up ELSE u[i - k]
  <2>1. /\ url \in Seq(Parts) /\ Len(url) = Len(ups) + Len(u)
        /\ \A i \in 1..(Len(ups) + Len(u)) : url[i] = IF i <= Len(ups) THEN ups[i] ELSE u[i - Len(ups)]
    BY <1>5, <1>6, ConcatProperties
  <2> HIDE DEF url
  <2>2. \A i \in 1..(k + (Len(q) - c)) : i <= k => ups[i] = Up
    BY <1>4, <1>5
  <2> QED  BY <1>5, <1>6, <2>1, <2>2
<1> HIDE DEF url
<1>8. url # <<>> /\ IsFile(url)
  <2>1. Len(url) \in Nat \ {0} /\ Len(url) > k /\ Len(url) - k = Len(q) - c
        /\ Len(q) - c \in 1..(Len(q) - c) /\ c + (Len(q) - c) = Len(q)
        /\ Len(url) \in 1..(k + (Len(q) - c))
    BY <1>1, <1>2, <1>4, <1>7
  <2>2. url[Len(url)] = u[Len(q) - c]
    <3>1. ~ (Len(url) <= k)
      BY <1>4, <2>1
    <3> QED  BY <1>7, <2>1, <3>1
  <2>3. u[Len(q) - c] = q[Len(q)]
    BY <1>6, <2>1
  <2> QED  BY <1>1, <2>1, <2>2, <2>3 DEF IsFile, Last
<1> DEFINE way == d \o url
<1>9. /\ way \in Seq(Parts) /\ Len(way) = Len(d) + Len(url)
      /\ \A i \in 1..(Len(d) + Len(url)) : way[i] = IF i <= Len(d) THEN d[i] ELSE url[i - Len(d)]
  <2>1. d \in Seq(Parts)
    BY <1>1 DEF Parts
  <2> QED  BY <1>7, <2>1, ConcatProperties
<1> HIDE DEF way
<1>10. WayBack(d, q, k, way)
  <2>1. Len(way) = Len(q) + k + k /\ Len(d) - k <= Len(q)
    BY <1>1, <1>2, <1>4, <1>7, <1>9
  <2>2. \A i \in 1..(Len(d) - k) : q[i] = d[i]
    <3> TAKE i \in 1..(Len(d) - k)
    <3>1. i \in 1..c /\ i \in 1..(Len(q) - 1)
      BY <1>1, <1>2, <1>4
    <3> QED  BY <1>1, <1>2, <3>1
  <2>3. \A i \in 1..Len(d) : way[i] = d[i]
    <3> TAKE i \in 1..Len(d)
    <3>1. i \in 1..(Len(d) + Len(url)) /\ i <= Len(d)
      BY <1>1, <1>2, <1>4, <1>7
    <3> QED  BY <1>9, <3>1
  <2>4. \A i \in (Len(d) + 1)..(Len(d) + k) : way[i] = Up
    <3> TAKE i \in (Len(d) + 1)..(Len(d) + k)
    <3>1. /\ i \in 1..(Len(d) + Len(url)) /\ ~ (i <= Len(d))
          /\ i - Len(d) \in 1..(k + (Len(q) - c)) /\ i - Len(d) <= k
      BY <1>1, <1>2, <1>4, <1>7
    <3> QED  BY <1>7, <1>9, <3>1
  <2>5. \A i \in (Len(d) + k + 1)..Len(way) : way[i] = q[i - k - k]
    <3> TAKE i \in (Len(d) + k + 1)..Len(way)
    <3>1. /\ i \in 1..(Len(d) + Len(url)) /\ ~ (i <= Len(d))
          /\ i - Len(d) \in 1..(k + (Len(q) - c)) /\ ~ (i - Len(d) <= k)
          /\ i - Len(d) - k \in 1..(Len(q) - c) /\ c + (i - Len(d) - k) = i - k - k
      BY <1>1, <1>2, <1>4, <1>7, <1>9
    <3>2. way[i] = url[i - Len(d)]
      BY <1>9, <3>1
    <3>3. url[i - Len(d)] = u[i - Len(d) - k]
      BY <1>7, <3>1
    <3>4. u[i - Len(d) - k] = q[i - k - k]
      BY <1>6, <3>1
    <3> QED  BY <3>2, <3>3, <3>4
  <2> QED  BY <2>1, <2>2, <2>3, <2>4, <2>5 DEF WayBack
<1> QED  BY <1>3, <1>4, <1>8, <1>9, <1>10 DEF d, way

\* A file that is walked to is where it is.
LEMMA WalkedFile ==
  ASSUME NEW p \in Seq(Names)
  PROVE  Walked(p)[Len(p)] = p
<1>1. p \in Seq(Parts) /\ 0 \in 0..Len(p)
  BY DEF Parts
<1>2. WayBack(p, p, 0, p)
  <2>1. Len(p) \in Nat
    OBVIOUS
  <2>2. Len(p) = Len(p) + 0 + 0 /\ Len(p) - 0 <= Len(p)
        /\ \A i \in (Len(p) + 1)..(Len(p) + 0) : FALSE
    BY <2>1
  <2>3. \A i \in (Len(p) + 0 + 1)..Len(p) : FALSE
    BY <2>1
  <2> QED  BY <2>1, <2>2, <2>3 DEF WayBack
<1> QED  BY <1>1, <1>2, WalkBack

\* The link that a parse writes leads to the file, from the file it stands in.
THEOREM PathToLeads ==
  ASSUME NEW p \in Seq(Names), IsFile(p), NEW q \in Seq(Names), IsFile(q),
         NEW a \in Anchors \union {NoAnchor}
  PROVE  Join(Path(p, NoAnchor), PathTo(Path(p, NoAnchor), Path(q, a))) = Path(q, a)
<1> DEFINE to == PathTo(Path(p, NoAnchor), Path(q, a))
           way == Dir(p) \o to.parts \o (IF to.parts = <<>> THEN FileName(p) ELSE <<>>)
<1>1. to.anchor = a
  BY PathToParts
<1>2. CASE to = Path(<<>>, NoAnchor)
  <2>1. p = q
    <3>1. p # q => to.parts # <<>>
      BY PathToWay
    <3> QED  BY <1>2, <3>1 DEF Path
  <2>2. a = NoAnchor
    BY <1>1, <1>2 DEF Path
  <2> QED  BY <1>2, <2>1, <2>2 DEF Join
<1>3. CASE to # Path(<<>>, NoAnchor)
  <2>1. Join(Path(p, NoAnchor), to) = Path(Normalize(way), a)
    BY <1>1, <1>3 DEF Join, Path
  <2>2. way \in Seq(Parts) /\ Walked(way)[Len(way)] = q
    <3>1. CASE p = q
      <4>1. to.parts = <<>>
        BY <3>1, PathToParts DEF UrlParts
      <4>2. Dir(p) \o <<>> \o FileName(p) = p
        <5>1. /\ Dir(p) = SubSeq(p, 1, Len(p) - 1) /\ Dir(p) \in Seq(Names) /\ Len(Dir(p)) = Len(p) - 1
              /\ Len(p) \in Nat \ {0} /\ \A i \in 1..(Len(p) - 1) : Dir(p)[i] = p[i]
              /\ FileName(p) = <<p[Len(p)]>> /\ p[Len(p)] \in Names
          BY FileParts
        <5> DEFINE d == Dir(p)
                   f == FileName(p)
                   b == d \o f
        <5>2. d \o <<>> = d
          BY <5>1, ConcatEmptySeq
        <5>3. f \in Seq(Names) /\ Len(f) = 1 /\ f[1] = p[Len(p)] /\ d \in Seq(Names) /\ Len(d) = Len(p) - 1
          BY <5>1
        <5> HIDE DEF d, f
        <5>4. /\ b \in Seq(Names) /\ Len(b) = Len(d) + Len(f)
              /\ \A i \in 1..(Len(d) + Len(f)) : b[i] = IF i <= Len(d) THEN d[i] ELSE f[i - Len(d)]
          BY <5>3, ConcatProperties
        <5> HIDE DEF b
        <5>5. Len(b) = Len(p) /\ \A i \in 1..Len(b) : b[i] = p[i]
          <6>1. Len(b) = Len(p)
            BY <5>1, <5>3, <5>4
          <6>2. ASSUME NEW i \in 1..Len(b) PROVE b[i] = p[i]
            <7>1. CASE i <= Len(p) - 1
              <8>1. i \in 1..(Len(p) - 1) /\ i <= Len(d) /\ i \in 1..(Len(d) + Len(f))
                BY <5>1, <5>3, <6>1, <7>1
              <8> QED  BY <5>1, <5>4, <8>1 DEF d
            <7>2. CASE ~ (i <= Len(p) - 1)
              <8>1. i = Len(p) /\ ~ (i <= Len(d)) /\ i \in 1..(Len(d) + Len(f)) /\ i - Len(d) = 1
                BY <5>1, <5>3, <6>1, <7>2
              <8> QED  BY <5>3, <5>4, <8>1
            <7> QED  BY <7>1, <7>2
          <6> QED  BY <6>1, <6>2
        <5>6. b = p
          BY <5>4, <5>5, SeqEqual
        <5> QED  BY <5>2, <5>6 DEF b, d, f
      <4>3. way = p
        BY <4>1, <4>2
      <4>4. p \in Seq(Parts)
        BY DEF Parts
      <4> QED  BY <3>1, <4>3, <4>4, WalkedFile
    <3>2. CASE p # q
      <4> DEFINE d == Dir(p)
                 url == to.parts
      <4>1. /\ url # <<>> /\ d \o url \in Seq(Parts)
            /\ \E k \in 0..Len(d) : WayBack(d, q, k, d \o url)
        BY <3>2, PathToWay
      <4>2. d \in Seq(Names)
        BY FileParts
      <4> HIDE DEF to
      <4>3. way = d \o url
        <5>1. (d \o url) \o <<>> = d \o url
          BY <4>1, ConcatEmptySeq
        <5> QED  BY <4>1, <5>1
      <4> HIDE DEF d, url, way
      <4> QED  BY <4>1, <4>2, <4>3, WalkBack
    <3> QED  BY <3>1, <3>2
  <2> HIDE DEF way, to
  <2> QED  BY <2>1, <2>2, NormalizeWalks DEF to
<1> QED  BY <1>2, <1>3

-----------------------------------------------------------------------------
(* What a parse writes, the next one finds.                                *)

\* The first of the nodes.
LEMMA FirstNode ==
  ASSUME NEW S \in SUBSET Nodes
  PROVE  First(S) \in S \/ (First(S) = NoNode /\ S = {})
<1>1. CASE S = {}
  BY <1>1 DEF First
<1>2. CASE S # {}
  <2>1. S \in SUBSET Nat
    BY LinksAssumption
  <2>2. PICK x \in S : \A y \in S : x <= y
    BY <1>2, <2>1, SmallestExists
  <2>3. Min(S) \in S
    <3>1. \E z \in S : \A y \in S : z =< y
      BY <2>2
    <3> QED  BY <3>1 DEF Min
  <2>4. First(S) = Min(S)
    BY <1>2 DEF First
  <2> QED  BY <2>3, <2>4
<1> QED  BY <1>1, <1>2

\* The path of a node.
LEMMA PathOfType ==
  ASSUME NEW where \in [Docs -> Places], NEW n \in Nodes
  PROVE  /\ \E x \in Seq(Names), a \in Anchors \union {NoAnchor} : PathOf(where, n) = Path(x, a)
         /\ n \in Docs => PathOf(where, n) = Path(where[n], NoAnchor)
         /\ n \in Headings => PathOf(where, n) = Path(where[DocOf[n]], Slug[n])
         /\ n \in Nets => PathOf(where, n) = Path(NetDir[n], NoAnchor)
<1>1. /\ n \in Docs \/ n \in Nets \/ n \in Headings
      /\ ~ (n \in Docs /\ n \in Nets) /\ ~ (n \in Docs /\ n \in Headings) /\ ~ (n \in Nets /\ n \in Headings)
  BY LinksAssumption DEF Nodes
<1>2. /\ n \in Docs => PathOf(where, n) = Path(where[n], NoAnchor)
      /\ n \in Headings => PathOf(where, n) = Path(where[DocOf[n]], Slug[n])
      /\ n \in Nets => PathOf(where, n) = Path(NetDir[n], NoAnchor)
  BY <1>1 DEF PathOf
<1>3. /\ n \in Docs => where[n] \in Seq(Names)
      /\ n \in Headings => where[DocOf[n]] \in Seq(Names) /\ Slug[n] \in Anchors
      /\ n \in Nets => NetDir[n] \in Seq(Names)
  BY LinksAssumption
<1>4. \E x \in Seq(Names), a \in Anchors \union {NoAnchor} : PathOf(where, n) = Path(x, a)
  BY <1>1, <1>2, <1>3
<1> QED  BY <1>2, <1>4

\* What a link to a node is made from is a path, the node's unless it is a heading
\* without its identifier.
LEMMA LinkToType ==
  ASSUME NEW where \in [Docs -> Places], NEW n \in Nodes
  PROVE  /\ \E x \in Seq(Names), a \in Anchors \union {NoAnchor} : LinkTo(where, n) = Path(x, a)
         /\ n \notin Lost => LinkTo(where, n) = PathOf(where, n)
         /\ n \in Headings => LinkTo(where, n) = Path(where[DocOf[n]], Id[n])
<1>1. CASE n \in Headings
  <2>1. where[DocOf[n]] \in Seq(Names) /\ Id[n] \in Anchors
    BY <1>1, LinksAssumption
  <2>2. n \notin Lost => Slug[n] = Id[n]
    BY <1>1 DEF Lost
  <2> QED  BY <1>1, <2>1, <2>2, PathOfType DEF LinkTo
<1>2. CASE n \notin Headings
  <2>1. LinkTo(where, n) = PathOf(where, n)
    BY <1>2 DEF LinkTo
  <2> QED  BY <1>2, <2>1, PathOfType
<1> QED  BY <1>1, <1>2

LEMMA PathInjective ==
  ASSUME NEW p, NEW q, NEW a, NEW b, Path(p, a) = Path(q, b)
  PROVE  p = q /\ a = b
BY DEF Path

\* Documents at different paths, each node has a path of its own.
LEMMA OneNodeAtPath ==
  ASSUME NEW where \in [Docs -> Places], \A m, d \in Docs : m # d => where[m] # where[d],
         NEW n \in Docs \union Headings, NEW m \in Nodes, PathOf(where, n) \in PathsTo(where, m)
  PROVE  m = n
<1> DEFINE e == IF n \in Docs THEN n ELSE DocOf[n]
           a == IF n \in Docs THEN NoAnchor ELSE Slug[n]
<1>1. n \in Nodes /\ e \in Docs /\ where[e] \in Places /\ IsFile(where[e])
  BY LinksAssumption DEF Nodes
<1>2. PathOf(where, n) = Path(where[e], a)
  BY <1>1, PathOfType
<1>3. n \in Headings => n \notin Docs /\ a = Slug[n] /\ a \in Anchors
  BY LinksAssumption
<1>4. NoAnchor \notin Anchors
  BY PathsAssumption
<1>5. CASE m \in Docs
  <2>1. m \notin Nets
    BY <1>5, LinksAssumption
  <2>2. PathsTo(where, m) = {Path(where[m], NoAnchor)}
    BY <1>5, <2>1, PathOfType DEF PathsTo
  <2>3. where[e] = where[m] /\ a = NoAnchor
    BY <1>2, <2>2, PathInjective
  <2> QED  BY <1>1, <1>3, <1>4, <1>5, <2>3
<1>6. CASE m \in Headings
  <2>1. m \notin Nets /\ m \notin Docs /\ DocOf[m] \in Docs /\ Slug[m] \in Anchors
    BY <1>6, LinksAssumption
  <2>2. PathsTo(where, m) = {Path(where[DocOf[m]], Slug[m])}
    BY <1>6, <2>1, PathOfType DEF PathsTo
  <2>3. where[e] = where[DocOf[m]] /\ a = Slug[m]
    BY <1>2, <2>2, PathInjective
  <2>4. n \in Headings /\ e = DocOf[n]
    BY <1>4, <2>1, <2>3
  <2>5. DocOf[n] = DocOf[m] /\ Slug[n] = Slug[m]
    BY <1>1, <1>3, <2>1, <2>3, <2>4
  <2> QED  BY <1>6, <2>4, <2>5, LinksAssumption
<1>7. CASE m \in Nets
  <2>1. ~ IsFile(NetDir[m]) /\ Append(NetDir[m], "index.md") \notin Places
    BY <1>7, LinksAssumption
  <2>2. PathsTo(where, m) = {Path(NetDir[m], NoAnchor), Path(Append(NetDir[m], "index.md"), NoAnchor)}
    BY <1>7, PathOfType DEF PathsTo
  <2>3. \/ Path(where[e], a) = Path(NetDir[m], NoAnchor)
        \/ Path(where[e], a) = Path(Append(NetDir[m], "index.md"), NoAnchor)
    BY <1>2, <2>2
  <2>4. where[e] = NetDir[m] \/ where[e] = Append(NetDir[m], "index.md")
    <3> HIDE DEF a, e
    <3> QED  BY <2>3 DEF Path
  <2> QED  BY <1>1, <2>1, <2>4
<1> QED  BY <1>5, <1>6, <1>7 DEF Nodes

\* The canonical link to another document or a heading is a path, that of the
\* node unless it is a heading without its identifier.
LEMMA CanonicalJoins ==
  ASSUME NEW where \in [Docs -> Places], \A m, d \in Docs : m # d => where[m] # where[d],
         NEW d \in Docs, NEW n \in Docs \union Headings, n # d
  PROVE  LET url == PathTo(Path(where[d], NoAnchor), LinkTo(where, n))
         IN  /\ url # Path(<<>>, NoAnchor) /\ ~ IsId(url)
             /\ Join(Path(where[d], NoAnchor), url) = LinkTo(where, n)
<1> DEFINE e == IF n \in Docs THEN n ELSE DocOf[n]
           a == IF n \in Docs THEN NoAnchor ELSE Id[n]
           p == where[d]
           q == where[e]
           url == PathTo(Path(p, NoAnchor), LinkTo(where, n))
<1>1. n \in Nodes /\ e \in Docs /\ (n \in Headings => n \notin Docs /\ Id[n] \in Anchors)
  BY LinksAssumption DEF Nodes
<1>2. LinkTo(where, n) = Path(q, a) /\ a \in Anchors \union {NoAnchor}
  <2>1. CASE n \in Docs
    <3>1. n \notin Headings
      BY <2>1, LinksAssumption
    <3> QED  BY <1>1, <2>1, <3>1, PathOfType DEF LinkTo
  <2>2. CASE n \notin Docs
    BY <1>1, <2>2, LinkToType
  <2> QED  BY <2>1, <2>2
<1>3. p \in Seq(Names) /\ IsFile(p) /\ q \in Seq(Names) /\ IsFile(q)
  BY <1>1, LinksAssumption
<1>4. e = d => a # NoAnchor
  BY <1>1, PathsAssumption
<1> HIDE DEF e, a, p, q
<1>5. url = PathTo(Path(p, NoAnchor), Path(q, a))
  BY <1>2
<1> HIDE DEF url
<1>6. url.anchor = a /\ (p = q => url.parts = <<>>)
  <2>1. url.anchor = a /\ url.parts = UrlParts(p, q)
    BY <1>3, <1>5, PathToParts
  <2>2. p = q => UrlParts(p, q) = <<>>
    BY DEF UrlParts
  <2> QED  BY <2>1, <2>2
<1>7. p # q => url.parts # <<>> /\ IsFile(url.parts)
  BY <1>2, <1>3, <1>5, PathToWay
<1>8. e # d => p # q
  BY <1>1 DEF p, q
<1>9. url # Path(<<>>, NoAnchor)
  BY <1>4, <1>6, <1>7, <1>8 DEF Path
<1>10. ~ IsId(url)
  <2>1. Len(<<>>) # 1
    OBVIOUS
  <2> QED  BY <1>6, <1>7, <2>1 DEF IsId
<1>11. Join(Path(p, NoAnchor), url) = LinkTo(where, n)
  BY <1>2, <1>3, <1>5, PathToLeads
<1> QED  BY <1>9, <1>10, <1>11 DEF url, p

\* So it is resolved to the node, whatever titles are known.
THEOREM CanonicalResolves ==
  ASSUME NEW where \in [Docs -> Places], \A m, d \in Docs : m # d => where[m] # where[d],
         NEW names, NEW d \in Docs, NEW n \in (Docs \union Headings) \ Lost, n # d
  PROVE  Target(where, names, d, PathTo(Path(where[d], NoAnchor), LinkTo(where, n))) = n
<1> DEFINE url == PathTo(Path(where[d], NoAnchor), LinkTo(where, n))
           T == {m \in Nodes : Join(Path(where[d], NoAnchor), url) \in PathsTo(where, m)}
<1>1. n \in Nodes /\ LinkTo(where, n) = PathOf(where, n)
  BY LinkToType DEF Nodes
<1>2. /\ url # Path(<<>>, NoAnchor) /\ ~ IsId(url)
      /\ Join(Path(where[d], NoAnchor), url) = PathOf(where, n)
  BY <1>1, CanonicalJoins
<1> HIDE DEF url
<1>3. n \in T
  BY <1>1, <1>2 DEF PathsTo
<1>4. \A m \in T : m = n
  BY <1>2, OneNodeAtPath
<1>5. First(T) = n
  <2>1. T \in SUBSET Nodes
    OBVIOUS
  <2> HIDE DEF T
  <2> QED  BY <1>3, <1>4, <2>1, FirstNode
<1> QED  BY <1>2, <1>5 DEF Target, url

\* The canonical link to a heading without its identifier is resolved to nothing.
LEMMA LostIsNotFound ==
  ASSUME NEW where \in [Docs -> Places], \A m, d \in Docs : m # d => where[m] # where[d],
         NEW names, NEW d \in Docs, NEW n \in Lost
  PROVE  Target(where, names, d, PathTo(Path(where[d], NoAnchor), LinkTo(where, n))) = NoNode
<1> DEFINE url == PathTo(Path(where[d], NoAnchor), LinkTo(where, n))
           T == {m \in Nodes : Join(Path(where[d], NoAnchor), url) \in PathsTo(where, m)}
<1>1. n \in Headings /\ n \in Nodes /\ n # d
  BY LinksAssumption DEF Lost, Nodes
<1>2. LinkTo(where, n) = Path(where[DocOf[n]], Id[n]) /\ Id[n] \in Anchors /\ NoAnchor \notin Anchors
  BY <1>1, LinkToType, LinksAssumption, PathsAssumption
<1>3. /\ url # Path(<<>>, NoAnchor) /\ ~ IsId(url)
      /\ Join(Path(where[d], NoAnchor), url) = LinkTo(where, n)
  BY <1>1, CanonicalJoins
<1> HIDE DEF url
<1>4. ASSUME NEW m \in T
      PROVE  FALSE
  <2>1. m \in Nodes /\ Path(where[DocOf[n]], Id[n]) \in PathsTo(where, m)
    BY <1>2, <1>3
  <2>2. CASE m \in Headings
    <3>1. m \notin Nets /\ PathsTo(where, m) = {Path(where[DocOf[m]], Slug[m])}
      BY <2>1, <2>2, PathOfType, LinksAssumption DEF PathsTo
    <3>2. Slug[m] = Id[n]
      BY <2>1, <3>1, PathInjective
    <3> QED  BY <2>2, <3>2, LinksAssumption
  <2>3. CASE m \in Docs
    <3>1. m \notin Nets /\ PathsTo(where, m) = {Path(where[m], NoAnchor)}
      BY <2>1, <2>3, PathOfType, LinksAssumption DEF PathsTo
    <3> QED  BY <1>2, <2>1, <3>1, PathInjective
  <2>4. CASE m \in Nets
    <3>1. PathsTo(where, m) = {Path(NetDir[m], NoAnchor), Path(Append(NetDir[m], "index.md"), NoAnchor)}
      BY <2>1, <2>4, PathOfType DEF PathsTo
    <3> QED  BY <1>2, <2>1, <3>1, PathInjective
  <2> QED  BY <2>1, <2>2, <2>3, <2>4 DEF Nodes
<1>5. T = {}
  BY <1>4
<1> HIDE DEF T
<1>6. First(T) = NoNode
  BY <1>5 DEF First
<1> QED  BY <1>3, <1>6 DEF Target, url, T

-----------------------------------------------------------------------------
(* The links in the files.                                                 *)

\* What a fresh document depends on is known as it is in the files.
FreshInv ==
  \A f \in fresh : (f \in Docs => place[f] = at[f]) /\ \A n \in Within(f) : known[n] = titles[n]

\* A link that the last parse of its document has written, and one that it has
\* left as it was.
WrittenAnew(l) ==
  LET n == link[l].bref
  IN  /\ n \in Sources(relation, Owner[l])
      /\ link[l].url = PathTo(Path(place[Owner[l]], NoAnchor), LinkTo(place, n))
      /\ link[l].auto = (link[l].text = known[n])
LeftAlone(l) ==
  /\ Keyed(place, known, relation, Owner[l], l) = NoNode
  /\ relation[l] = Related(place, known, Owner[l], link[l].url)

SettledInv == \A l \in Link : Owner[l] \in fresh => WrittenAnew(l) \/ LeftAlone(l)

Inv == LinksTypeOK /\ FreshInv /\ SettledInv

\* The state after a parse, as the local definitions of Parse give it.
PlaceAfter(f) == IF f \in Docs THEN [place EXCEPT ![f] = at[f]] ELSE place
KnownAfter(f) == [n \in Nodes |-> IF n \in Within(f) THEN titles[n] ELSE known[n]]
RelationAfter(f) ==
  [l \in Link |-> IF Owner[l] = f THEN Related(PlaceAfter(f), KnownAfter(f), f, link[l].url) ELSE relation[l]]

LEMMA ParseIs ==
  ASSUME NEW f, Parse(f)
  PROVE  /\ place' = PlaceAfter(f) /\ known' = KnownAfter(f) /\ relation' = RelationAfter(f)
         /\ link' = [l \in Link |-> Rewritten(PlaceAfter(f), KnownAfter(f), RelationAfter(f), f, l)]
         /\ fresh' = {f} \union IF PlaceAfter(f) = place /\ KnownAfter(f) = known THEN fresh ELSE {}
         /\ at' = at /\ titles' = titles /\ changes' = changes
BY DEF Parse, PlaceAfter, KnownAfter, RelationAfter

\* A link's sources are nodes.
LEMMA SourcesType ==
  ASSUME NEW related \in [Link -> Nodes \union {NoNode}], NEW d
  PROVE  Sources(related, d) \subseteq Nodes
BY DEF Sources, Nodes

LEMMA KeyedType ==
  ASSUME NEW where, NEW names, NEW related \in [Link -> Nodes \union {NoNode}], NEW d, NEW l
  PROVE  Keyed(where, names, related, d, l) \in Sources(related, d) \union {NoNode}
<1> DEFINE url  == link[l].url
           path == Join(Path(where[d], NoAnchor), url)
           T == {n \in Sources(related, d) :
                   IF link[l].bref # NoNode THEN n = link[l].bref
                   ELSE IF IsId(url) THEN IdOf(names, n) = Head(url.parts)
                   ELSE url # Path(<<>>, NoAnchor) /\ path = PathOf(where, n)}
<1>1. Keyed(where, names, related, d, l) = First(T)
  BY DEF Keyed
<1>2. T \in SUBSET Nodes
  BY SourcesType
<1> HIDE DEF T
<1>3. First(T) \in T \/ First(T) = NoNode
  BY <1>2, FirstNode
<1> QED  BY <1>1, <1>3 DEF T

\* A link with a Bref is keyed by it.
LEMMA KeyedByBref ==
  ASSUME NEW where, NEW names, NEW related \in [Link -> Nodes \union {NoNode}], NEW d, NEW l,
         link[l].bref # NoNode
  PROVE  Keyed(where, names, related, d, l)
           = IF link[l].bref \in Sources(related, d) THEN link[l].bref ELSE NoNode
<1> DEFINE T == {n \in Sources(related, d) : n = link[l].bref}
<1>1. Keyed(where, names, related, d, l) = First(T)
  BY DEF Keyed
<1>2. T \in SUBSET Nodes
  BY SourcesType
<1>3. link[l].bref \in Sources(related, d) => link[l].bref \in T
  OBVIOUS
<1>4. \A n \in T : n = link[l].bref /\ n \in Sources(related, d)
  OBVIOUS
<1> HIDE DEF T
<1>5. First(T) \in T \/ (First(T) = NoNode /\ T = {})
  BY <1>2, FirstNode
<1> QED  BY <1>1, <1>3, <1>4, <1>5

\* Nothing is keyed by fewer sources when nothing was keyed by more.
LEMMA KeyedByFewer ==
  ASSUME NEW where, NEW names, NEW d, NEW l,
         NEW related \in [Link -> Nodes \union {NoNode}], NEW later \in [Link -> Nodes \union {NoNode}],
         Sources(later, d) \subseteq Sources(related, d),
         Keyed(where, names, related, d, l) = NoNode
  PROVE  Keyed(where, names, later, d, l) = NoNode
<1> DEFINE url  == link[l].url
           path == Join(Path(where[d], NoAnchor), url)
           T(r) == {n \in Sources(r, d) :
                      IF link[l].bref # NoNode THEN n = link[l].bref
                      ELSE IF IsId(url) THEN IdOf(names, n) = Head(url.parts)
                      ELSE url # Path(<<>>, NoAnchor) /\ path = PathOf(where, n)}
<1>1. Keyed(where, names, related, d, l) = First(T(related)) /\ Keyed(where, names, later, d, l) = First(T(later))
  BY DEF Keyed
<1>2. T(related) \in SUBSET Nodes /\ T(later) \subseteq T(related)
  BY SourcesType
<1> HIDE DEF T
<1>3. NoNode \notin Nodes
  BY LinksAssumption
<1>4. T(related) = {}
  BY <1>1, <1>2, <1>3, FirstNode
<1>5. T(later) = {}
  BY <1>2, <1>4
<1> QED  BY <1>1, <1>5 DEF First

\* What a link resolves to.
LEMMA TargetType ==
  ASSUME NEW where, NEW names, NEW d, NEW url
  PROVE  Target(where, names, d, url) \in Nodes \union {NoNode}
<1> DEFINE A == {n \in Nodes : IdOf(names, n) = Head(url.parts)}
           B == {n \in Nodes : Join(Path(where[d], NoAnchor), url) \in PathsTo(where, n)}
<1>1. Target(where, names, d, url) \in {NoNode, First(A), First(B)}
  BY DEF Target
<1>2. A \in SUBSET Nodes /\ B \in SUBSET Nodes
  OBVIOUS
<1> HIDE DEF A, B
<1>3. First(A) \in Nodes \union {NoNode} /\ First(B) \in Nodes \union {NoNode}
  BY <1>2, FirstNode
<1> QED  BY <1>1, <1>3

LEMMA AfterParseType ==
  ASSUME LinksTypeOK, NEW f \in Docs \union Nets
  PROVE  /\ PlaceAfter(f) \in [Docs -> Places] /\ KnownAfter(f) \in [Nodes -> Titles]
         /\ RelationAfter(f) \in [Link -> Nodes \union {NoNode}]
         /\ \A l \in Link : RelationAfter(f)[l] # Owner[l]
<1>1. PlaceAfter(f) \in [Docs -> Places]
  BY DEF PlaceAfter, LinksTypeOK
<1>2. KnownAfter(f) \in [Nodes -> Titles]
  BY DEF KnownAfter, LinksTypeOK
<1>3. ASSUME NEW l \in Link
      PROVE  Related(PlaceAfter(f), KnownAfter(f), f, link[l].url) \in (Nodes \union {NoNode}) \ {f}
  <2>1. f # NoNode
    BY LinksAssumption DEF Nodes
  <2> QED  BY <2>1, TargetType DEF Related
<1>4. ASSUME NEW l \in Link
      PROVE  relation[l] \in (Nodes \union {NoNode}) /\ relation[l] # Owner[l]
  BY DEF LinksTypeOK
<1> QED  BY <1>1, <1>2, <1>3, <1>4 DEF RelationAfter

LEMMA RewrittenType ==
  ASSUME LinksTypeOK, NEW f \in Docs \union Nets, NEW l \in Link,
         NEW where \in [Docs -> Places], NEW names \in [Nodes -> Titles],
         NEW related \in [Link -> Nodes \union {NoNode}]
  PROVE  Rewritten(where, names, related, f, l) \in Texts
<1> DEFINE n == Keyed(where, names, related, f, l)
           auto == link[l].auto \/ link[l].text = names[n]
<1>1. link[l] \in Texts
  BY DEF LinksTypeOK
<1>2. CASE Owner[l] # f \/ n = NoNode
  BY <1>1, <1>2 DEF Rewritten
<1>3. CASE Owner[l] = f /\ n # NoNode
  <2>1. f \in Docs /\ where[f] \in Seq(Names)
    BY <1>3, LinksAssumption
  <2>2. n \in Nodes
    BY <1>3, KeyedType, SourcesType
  <2>3. PICK x \in Seq(Names), a \in Anchors \union {NoAnchor} : LinkTo(where, n) = Path(x, a)
    BY <2>2, LinkToType
  <2>4. PathTo(Path(where[f], NoAnchor), LinkTo(where, n)) \in Urls
    BY <2>1, <2>3, PathToType
  <2>5. names[n] \in STRING /\ link[l].text \in STRING
    BY <1>1, <2>2, LinksAssumption DEF Texts
  <2>6. Rewritten(where, names, related, f, l) = Canonical(where, names, f, l, n)
    BY <1>3 DEF Rewritten
  <2>7. auto \in BOOLEAN
    BY <1>1 DEF Texts
  <2> HIDE DEF n, auto
  <2>8. Canonical(where, names, f, l, n)
          = LinkText(PathTo(Path(where[f], NoAnchor), LinkTo(where, n)), n, auto,
                     IF auto THEN names[n] ELSE link[l].text)
    BY DEF Canonical, auto
  <2> QED  BY <2>2, <2>4, <2>5, <2>6, <2>7, <2>8 DEF LinkText, Texts
<1> QED  BY <1>2, <1>3

LEMMA InitLinks == Init => Inv
<1> SUFFICES ASSUME Init PROVE Inv
  OBVIOUS
<1>1. LinksTypeOK
  <2>1. relation \in [Link -> Nodes \union {NoNode}] /\ \A l \in Link : relation[l] # Owner[l]
    BY LinksAssumption DEF Init, Nodes
  <2>2. link \in [Link -> Texts]
    BY LinksAssumption DEF Init
  <2> QED  BY <2>1, <2>2, LinksAssumption DEF Init, LinksTypeOK
<1>2. FreshInv /\ SettledInv
  BY DEF Init, FreshInv, SettledInv
<1> QED  BY <1>1, <1>2 DEF Inv

\* A link stays settled while nothing changes that the settling is about.
LEMMA SettledStays ==
  ASSUME NEW l \in Link, place' = place, known' = known, link'[l] = link[l],
         \A k \in Link : Owner[k] = Owner[l] => relation'[k] = relation[k],
         WrittenAnew(l) \/ LeftAlone(l)
  PROVE  WrittenAnew(l)' \/ LeftAlone(l)'
<1>1. Sources(relation', Owner[l]) = Sources(relation, Owner[l]) /\ relation'[l] = relation[l]
  <2>1. {relation'[k] : k \in {k \in Link : Owner[k] = Owner[l]}} = {relation[k] : k \in {k \in Link : Owner[k] = Owner[l]}}
    OBVIOUS
  <2> QED  BY <2>1 DEF Sources
<1>2. WrittenAnew(l) => WrittenAnew(l)'
  BY <1>1 DEF WrittenAnew
<1>3. LeftAlone(l) => LeftAlone(l)'
  BY <1>1 DEF LeftAlone, Keyed
<1> QED  BY <1>2, <1>3

\* A change by an author: what it touches is no longer fresh.
LEMMA ChangeKeeps ==
  ASSUME Inv, place' = place, known' = known, relation' = relation, fresh' \subseteq fresh,
         \A l \in Link : Owner[l] \in fresh' => link'[l] = link[l]
  PROVE  SettledInv'
<1>1. ASSUME NEW l \in Link, Owner[l] \in fresh'
      PROVE  WrittenAnew(l)' \/ LeftAlone(l)'
  <2>1. WrittenAnew(l) \/ LeftAlone(l)
    BY <1>1 DEF Inv, SettledInv
  <2> QED  BY <1>1, <2>1, SettledStays
<1> QED  BY <1>1 DEF SettledInv

LEMMA WriteLinks ==
  ASSUME Inv, NEW k \in Link, NEW text \in Written, Write(k, text)
  PROVE  Inv'
<1> USE DEF Change, Write
<1>1. link \in [Link -> Texts] /\ text \in Texts /\ changes \in 0..MaxChanges /\ fresh \subseteq Docs \union Nets
  BY LinksAssumption DEF Inv, LinksTypeOK
<1>2. LinksTypeOK'
  <2>1. changes' \in 0..MaxChanges
    BY <1>1, LinksAssumption
  <2>2. link' \in [Link -> Texts]
    BY <1>1
  <2> QED  BY <1>1, <2>1, <2>2 DEF Inv, LinksTypeOK
<1>3. FreshInv'
  BY DEF Inv, FreshInv, Within
<1>4. SettledInv'
  <2>1. \A l \in Link : Owner[l] \in fresh' => link'[l] = link[l]
    BY <1>1
  <2> QED  BY <2>1, ChangeKeeps
<1> QED  BY <1>2, <1>3, <1>4 DEF Inv

LEMMA MoveLinks ==
  ASSUME Inv, NEW d \in Docs, NEW path \in Places, Move(d, path)
  PROVE  Inv'
<1> USE DEF Change, Move
<1>1. at \in [Docs -> Places] /\ changes \in 0..MaxChanges /\ fresh \subseteq Docs \union Nets
  BY DEF Inv, LinksTypeOK
<1>2. LinksTypeOK'
  <2>1. changes' \in 0..MaxChanges
    BY <1>1, LinksAssumption
  <2>2. at' \in [Docs -> Places]
    BY <1>1
  <2> QED  BY <1>1, <2>1, <2>2 DEF Inv, LinksTypeOK
<1>3. FreshInv'
  <2>1. \A f \in Docs : f # d => at'[f] = at[f]
    BY <1>1
  <2> QED  BY <2>1 DEF Inv, FreshInv, Within
<1>4. SettledInv'
  BY ChangeKeeps
<1> QED  BY <1>2, <1>3, <1>4 DEF Inv

LEMMA RetitleLinks ==
  ASSUME Inv, NEW n \in Nodes, NEW title \in Titles, Retitle(n, title)
  PROVE  Inv'
<1> USE DEF Change, Retitle
<1>1. titles \in [Nodes -> Titles] /\ changes \in 0..MaxChanges /\ fresh \subseteq Docs \union Nets
  BY DEF Inv, LinksTypeOK
<1>2. LinksTypeOK'
  <2>1. changes' \in 0..MaxChanges
    BY <1>1, LinksAssumption
  <2>2. titles' \in [Nodes -> Titles]
    BY <1>1
  <2> QED  BY <1>1, <2>1, <2>2 DEF Inv, LinksTypeOK
<1>3. FreshInv'
  <2>1. ASSUME NEW f \in fresh', NEW m \in Within(f)
        PROVE  m # n /\ m \in Nodes /\ f \in fresh
    <3>1. f \in fresh /\ f # IF n \in Headings THEN DocOf[n] ELSE n
      OBVIOUS
    <3>2. f \in Docs \union Nets /\ f \notin Headings
      BY <1>1, <3>1, LinksAssumption
    <3> QED  BY <3>1, <3>2 DEF Within, Nodes
  <2>2. \A m \in Nodes : m # n => titles'[m] = titles[m]
    BY <1>1
  <2>3. \A f \in fresh' : f \in fresh
    OBVIOUS
  <2>4. ASSUME NEW f \in fresh', NEW m \in Within(f)
        PROVE  known'[m] = titles'[m]
    <3>1. known[m] = titles[m]
      BY <2>1 DEF Inv, FreshInv
    <3> QED  BY <2>1, <2>2, <3>1
  <2>5. \A f \in fresh' : f \in Docs => place'[f] = at'[f]
    BY <2>3 DEF Inv, FreshInv
  <2>6. \A f : Within(f)' = Within(f)
    BY DEF Within
  <2> QED  BY <2>4, <2>5, <2>6 DEF FreshInv
<1>4. SettledInv'
  BY ChangeKeeps
<1> QED  BY <1>2, <1>3, <1>4 DEF Inv

\* A parse writes each link of its document anew or leaves it alone.
LEMMA ParseSettles ==
  ASSUME Inv, NEW f \in Docs \union Nets, Parse(f), NEW l \in Link, Owner[l] = f
  PROVE  WrittenAnew(l)' \/ LeftAlone(l)'
<1> DEFINE where == PlaceAfter(f)
           names == KnownAfter(f)
           related == RelationAfter(f)
           n == Keyed(where, names, related, f, l)
           auto == link[l].auto \/ link[l].text = names[n]
<1>1. /\ place' = where /\ known' = names /\ relation' = related
      /\ link'[l] = Rewritten(where, names, related, f, l)
  BY ParseIs
<1>2. related \in [Link -> Nodes \union {NoNode}] /\ link[l] \in Texts
  BY AfterParseType DEF Inv, LinksTypeOK
<1>3. CASE n = NoNode
  <2>1. link'[l] = link[l]
    BY <1>1, <1>3 DEF Rewritten
  <2>2. Keyed(where, names, related, f, l) = NoNode
    BY <1>3
  <2>3. Keyed(place, known, relation, Owner[l], l)' = NoNode
    BY <1>1, <2>1, <2>2 DEF Keyed
  <2>4. related[l] = Related(where, names, f, link[l].url)
    BY DEF RelationAfter
  <2>5. relation'[l] = Related(place', known', Owner[l], link'[l].url)
    BY <1>1, <2>1, <2>4
  <2> QED  BY <2>3, <2>5 DEF LeftAlone
<1>4. CASE n # NoNode
  <2>1. n \in Sources(related, f)
    BY <1>2, <1>4, KeyedType
  <2> HIDE DEF n, auto, where, names, related
  <2>2. link'[l] = LinkText(PathTo(Path(where[f], NoAnchor), LinkTo(where, n)), n, auto,
                            IF auto THEN names[n] ELSE link[l].text)
    BY <1>1, <1>4 DEF Rewritten, Canonical, n, auto
  <2>3. auto \in BOOLEAN /\ (~ auto => link[l].text # names[n])
    BY <1>2 DEF auto, Texts
  <2>4. /\ link'[l].bref = n /\ link'[l].url = PathTo(Path(where[f], NoAnchor), LinkTo(where, n))
        /\ link'[l].auto = auto /\ link'[l].text = (IF auto THEN names[n] ELSE link[l].text)
    BY <2>2 DEF LinkText
  <2>5. link'[l].auto = (link'[l].text = names[n])
    BY <2>3, <2>4
  <2> QED  BY <1>1, <2>1, <2>4, <2>5 DEF WrittenAnew
<1> QED  BY <1>3, <1>4

LEMMA ParseLinks ==
  ASSUME Inv, NEW f \in Docs \union Nets, Parse(f)
  PROVE  Inv'
<1>1. /\ place' = PlaceAfter(f) /\ known' = KnownAfter(f) /\ relation' = RelationAfter(f)
      /\ link' = [l \in Link |-> Rewritten(PlaceAfter(f), KnownAfter(f), RelationAfter(f), f, l)]
      /\ fresh' = {f} \union IF PlaceAfter(f) = place /\ KnownAfter(f) = known THEN fresh ELSE {}
      /\ at' = at /\ titles' = titles /\ changes' = changes
  BY ParseIs
<1>2. /\ PlaceAfter(f) \in [Docs -> Places] /\ KnownAfter(f) \in [Nodes -> Titles]
      /\ RelationAfter(f) \in [Link -> Nodes \union {NoNode}]
      /\ \A l \in Link : RelationAfter(f)[l] # Owner[l]
  BY AfterParseType DEF Inv
<1>3. LinksTypeOK'
  <2>1. link' \in [Link -> Texts]
    BY <1>1, <1>2, RewrittenType DEF Inv
  <2>2. fresh' \subseteq Docs \union Nets
    BY <1>1 DEF Inv, LinksTypeOK
  <2> QED  BY <1>1, <1>2, <2>1, <2>2 DEF Inv, LinksTypeOK
<1>4. \A g \in fresh' : g = f \/ (g \in fresh /\ place' = place /\ known' = known)
  BY <1>1
<1>5. FreshInv'
  <2>1. f \in Docs => place'[f] = at'[f]
    BY <1>1 DEF PlaceAfter, Inv, LinksTypeOK
  <2>2. \A n \in Within(f) : known'[n] = titles'[n]
    <3>1. Within(f) \subseteq Nodes
      BY DEF Within, Nodes
    <3> QED  BY <1>1, <3>1 DEF KnownAfter
  <2>3. ASSUME NEW g \in fresh'
        PROVE  (g \in Docs => place'[g] = at'[g]) /\ \A n \in Within(g) : known'[n] = titles'[n]
    <3>1. CASE g = f
      BY <2>1, <2>2, <3>1
    <3>2. CASE g \in fresh /\ place' = place /\ known' = known
      BY <1>1, <3>2 DEF Inv, FreshInv
    <3> QED  BY <1>4, <3>1, <3>2
  <2>4. \A g : Within(g)' = Within(g)
    BY DEF Within
  <2> QED  BY <2>3, <2>4 DEF FreshInv
<1>6. SettledInv'
  <2>1. ASSUME NEW l \in Link, Owner[l] \in fresh'
        PROVE  WrittenAnew(l)' \/ LeftAlone(l)'
    <3>1. CASE Owner[l] = f
      BY <3>1, ParseSettles
    <3>2. CASE Owner[l] # f
      <4>1. Owner[l] \in fresh /\ place' = place /\ known' = known
        BY <1>4, <2>1, <3>2
      <4>2. link'[l] = link[l]
        BY <1>1, <3>2 DEF Rewritten
      <4>3. \A k \in Link : Owner[k] = Owner[l] => relation'[k] = relation[k]
        BY <1>1, <3>2 DEF RelationAfter
      <4>4. WrittenAnew(l) \/ LeftAlone(l)
        BY <4>1 DEF Inv, SettledInv
      <4> QED  BY <4>1, <4>2, <4>3, <4>4, SettledStays
    <3> QED  BY <3>1, <3>2
  <2> QED  BY <2>1 DEF SettledInv
<1> QED  BY <1>3, <1>5, <1>6 DEF Inv

LEMMA NextLinks == Inv /\ [Next]_vars => Inv'
<1> SUFFICES ASSUME Inv, [Next]_vars PROVE Inv'
  OBVIOUS
<1>1. CASE UNCHANGED vars
  <2>1. \A l \in Link : (WrittenAnew(l)' <=> WrittenAnew(l)) /\ (LeftAlone(l)' <=> LeftAlone(l))
    BY <1>1 DEF vars, WrittenAnew, LeftAlone, Keyed
  <2>2. SettledInv'
    BY <1>1, <2>1 DEF vars, Inv, SettledInv
  <2> QED  BY <1>1, <2>2 DEF vars, Inv, LinksTypeOK, FreshInv, Within
<1> QED  BY <1>1, WriteLinks, MoveLinks, RetitleLinks, ParseLinks DEF Next

\* Together: what holds of every state of the links.
LEMMA LinksInv == Spec => []Inv
<1> QED  BY InitLinks, NextLinks, PTL DEF Spec

-----------------------------------------------------------------------------
(* The properties.                                                         *)

\* The variables of the links keep their types: what a parse writes is always
\* a link that a text can have, and no relation leads from a document to
\* itself (push_relation, check_for_link_and_push).
THEOREM LinksTypeCorrect == Spec => []LinksTypeOK
<1>1. Inv => LinksTypeOK
  BY DEF Inv
<1> QED  BY <1>1, LinksInv, PTL

\* normalize leads every URL that is written where one gets by walking it,
\* from every file and for paths of every length.
THEOREM UrlsLead == Spec => []UrlsLeadWhereTheyShould
<1>1. Inv => UrlsLeadWhereTheyShould
  <2> SUFFICES ASSUME Inv, NEW l \in Link, NEW p \in Places, link[l].url.parts # <<>>
               PROVE  LET walk == Dir(p) \o link[l].url.parts
                      IN  Join(Path(p, NoAnchor), link[l].url)
                            = Path(Walked(walk)[Len(walk)], link[l].url.anchor)
    BY DEF UrlsLeadWhereTheyShould
  <2> DEFINE url == link[l].url
             walk == Dir(p) \o url.parts
  <2>1. url.parts \in Seq(Parts)
    BY DEF Inv, LinksTypeOK, Texts, Urls
  <2>2. Dir(p) \in Seq(Parts)
    <3>1. Dir(p) \in Seq(Names) /\ Names \subseteq Parts
      BY LinksAssumption, DirType DEF Parts
    <3> QED  BY <3>1
  <2>3. walk \in Seq(Parts) /\ walk \o <<>> = walk
    BY <2>1, <2>2, ConcatProperties, ConcatEmptySeq
  <2>4. Join(Path(p, NoAnchor), url) = Path(Normalize(walk), url.anchor)
    <3>1. url # Path(<<>>, NoAnchor)
      BY DEF Path
    <3> HIDE DEF url
    <3>2. Join(Path(p, NoAnchor), url) = Path(Normalize(Dir(p) \o url.parts \o <<>>), url.anchor)
      BY <3>1 DEF Join, Path, url
    <3> QED  BY <2>3, <3>2
  <2> HIDE DEF walk, url
  <2>5. Normalize(walk) = Walked(walk)[Len(walk)]
    BY <2>3, NormalizeWalks
  <2> QED  BY <2>4, <2>5 DEF walk, url
<1> QED  BY <1>1, LinksInv, PTL

\* A fresh document's link to one of its targets is found again, as long as no
\* two documents are known at one path, but for headings without their identifier.
THEOREM RewrittenLinks == Spec => []RewrittenLinksResolve
<1>1. Inv => RewrittenLinksResolve
  <2> SUFFICES ASSUME Inv, NEW l \in Link, Owner[l] \in fresh,
                      link[l].bref \in Sources(relation, Owner[l]) \ (Nets \union Lost), KnownApart
               PROVE  Leads(l) = link[l].bref
    BY DEF RewrittenLinksResolve
  <2> DEFINE n == link[l].bref
             d == Owner[l]
  <2>1. /\ relation \in [Link -> Nodes \union {NoNode}] /\ place \in [Docs -> Places]
        /\ \A k \in Link : relation[k] # Owner[k]
    BY DEF Inv, LinksTypeOK
  <2>2. n \in Nodes /\ d \in Docs /\ n \in Sources(relation, d) /\ n \notin Nets /\ n \notin Lost
    BY <2>1, SourcesType, LinksAssumption
  <2>3. n # d
    BY <2>1, <2>2, LinksAssumption DEF Sources
  <2>4. n # NoNode
    BY <2>2, LinksAssumption
  <2>5. ~ LeftAlone(l)
    BY <2>1, <2>2, <2>4, KeyedByBref DEF LeftAlone
  <2>6. link[l].url = PathTo(Path(place[d], NoAnchor), LinkTo(place, n))
    BY <2>5 DEF Inv, SettledInv, WrittenAnew
  <2>7. n \in (Docs \union Headings) \ Lost
    BY <2>2 DEF Nodes
  <2> HIDE DEF n, d
  <2>8. Target(place, known, d, link[l].url) = n
    BY <2>1, <2>2, <2>3, <2>6, <2>7, CanonicalResolves DEF KnownApart
  <2> QED  BY <2>8 DEF Leads, n, d
<1> QED  BY <1>1, LinksInv, PTL

\* Only a parse is a step of the compiler.
LEMMA CompilerSteps ==
  ASSUME Inv, [Next]_vars, ByCompiler
  PROVE  UNCHANGED vars \/ \E f \in Docs \union Nets : Parse(f)
<1>1. changes \in Nat
  BY LinksAssumption DEF Inv, LinksTypeOK
<1>2. changes' # changes + 1
  BY <1>1 DEF ByCompiler
<1> QED  BY <1>2 DEF Next, Write, Move, Retitle, Change

\* A parse of a fresh document without links to networks finds every link's
\* target again, unless it is a heading without its identifier.
LEMMA SameRelations ==
  ASSUME Inv, NEW f \in fresh, KnownApart, ~ ToNetwork(f), NEW l \in Link, Owner[l] = f
  PROVE  LET n == Related(place, known, f, link[l].url)
         IN  /\ n = NoNode \/ n \in Sources(relation, f)
             /\ WrittenAnew(l) => n = IF link[l].bref \in Lost THEN NoNode ELSE link[l].bref
<1>1. WrittenAnew(l) \/ LeftAlone(l)
  BY DEF Inv, SettledInv
<1>2. /\ relation \in [Link -> Nodes \union {NoNode}] /\ place \in [Docs -> Places]
      /\ \A k \in Link : relation[k] # Owner[k]
      /\ f \in Docs
  BY LinksAssumption DEF Inv, LinksTypeOK
<1>3. CASE WrittenAnew(l)
  <2> DEFINE n == link[l].bref
  <2>1. n \in Sources(relation, f) /\ link[l].url = PathTo(Path(place[f], NoAnchor), LinkTo(place, n))
    BY <1>3 DEF WrittenAnew
  <2>2. n \in Docs \union Headings
    <3>1. n \in Nodes /\ n \notin Nets
      BY <1>2, <2>1, SourcesType DEF ToNetwork
    <3> QED  BY <3>1 DEF Nodes
  <2>3. n # f
    BY <1>2, <2>1, LinksAssumption DEF Sources
  <2> HIDE DEF n
  <2> DEFINE found == IF n \in Lost THEN NoNode ELSE n
  <2>4. Target(place, known, f, link[l].url) = found
    <3>1. \A m, d \in Docs : m # d => place[m] # place[d]
      BY DEF KnownApart
    <3>2. place \in [Docs -> Places] /\ f \in Docs
      BY <1>2
    <3>3. Target(place, known, f, PathTo(Path(place[f], NoAnchor), LinkTo(place, n))) = found
      <4>1. CASE n \in Lost
        BY <3>1, <3>2, <4>1, LostIsNotFound
      <4>2. CASE n \notin Lost
        BY <2>2, <2>3, <3>1, <3>2, <4>2, CanonicalResolves
      <4> QED  BY <4>1, <4>2
    <3> QED  BY <2>1, <3>3
  <2>5. Related(place, known, f, link[l].url) = found
    BY <2>3, <2>4 DEF Related
  <2> QED  BY <2>1, <2>5 DEF n
<1>4. CASE ~ WrittenAnew(l)
  <2>1. Related(place, known, f, link[l].url) = relation[l]
    BY <1>1, <1>4 DEF LeftAlone
  <2>2. relation[l] = NoNode \/ relation[l] \in Sources(relation, f)
    BY DEF Sources
  <2> QED  BY <1>4, <2>1, <2>2
<1> QED  BY <1>3, <1>4

\* Nothing more is known after the parse of a fresh document.
LEMMA FreshKnown ==
  ASSUME Inv, NEW f \in fresh
  PROVE  PlaceAfter(f) = place /\ KnownAfter(f) = known
<1>1. /\ place \in [Docs -> Places] /\ known \in [Nodes -> Titles]
      /\ (f \in Docs => place[f] = at[f]) /\ \A n \in Within(f) : known[n] = titles[n]
  BY DEF Inv, LinksTypeOK, FreshInv
<1>2. PlaceAfter(f) = place
  BY <1>1 DEF PlaceAfter
<1>3. KnownAfter(f) = known
  BY <1>1 DEF KnownAfter
<1> QED  BY <1>2, <1>3

\* The parse of a fresh document without links to networks changes no text, as
\* long as no two documents are known at one path.  The relations that it makes
\* lead to the sources of before, so that a link that was not written is not
\* written now.
THEOREM WritingIsSettled == Spec => WritingSettles
<1>1. Inv /\ [Next]_vars /\ ByCompiler /\ KnownApart
        => \A l \in Link : Owner[l] \in fresh /\ ~ ToNetwork(Owner[l]) => link'[l] = link[l]
  <2> SUFFICES ASSUME Inv, [Next]_vars, ByCompiler, KnownApart, NEW l \in Link,
                      Owner[l] \in fresh, ~ ToNetwork(Owner[l])
               PROVE  link'[l] = link[l]
    OBVIOUS
  <2>1. CASE UNCHANGED vars
    BY <2>1 DEF vars
  <2>2. ASSUME NEW f \in Docs \union Nets, Parse(f)
        PROVE  link'[l] = link[l]
    <3> DEFINE related == RelationAfter(f)
               n == Keyed(place, known, related, f, l)
    <3>1. CASE Owner[l] # f
      BY <2>2, <3>1, ParseIs DEF Rewritten
    <3>2. CASE Owner[l] = f
      <4>1. f \in fresh /\ ~ ToNetwork(f)
        BY <3>2
      <4>2. PlaceAfter(f) = place /\ KnownAfter(f) = known
        BY <4>1, FreshKnown
      <4>3. link'[l] = Rewritten(place, known, related, f, l)
        BY <2>2, <4>2, ParseIs
      <4>4. /\ related \in [Link -> Nodes \union {NoNode}]
            /\ relation \in [Link -> Nodes \union {NoNode}] /\ link[l] \in Texts
        BY AfterParseType DEF Inv, LinksTypeOK
      <4>5. \A k \in Link : Owner[k] = f => related[k] = Related(place, known, f, link[k].url)
        BY <4>2 DEF RelationAfter
      <4>6. Sources(related, f) \subseteq Sources(relation, f)
        <5>1. \A k \in Link : Owner[k] = f => related[k] = NoNode \/ related[k] \in Sources(relation, f)
          BY <4>1, <4>5, SameRelations
        <5> HIDE DEF related
        <5> QED  BY <5>1 DEF Sources
      <4>7. CASE WrittenAnew(l)
        <5>2. /\ link[l].bref \in Sources(relation, f)
              /\ link[l].url = PathTo(Path(place[f], NoAnchor), LinkTo(place, link[l].bref))
              /\ link[l].auto = (link[l].text = known[link[l].bref])
          BY <3>2, <4>7 DEF WrittenAnew
        <5>3. link[l].bref # NoNode
          BY <4>4, <5>2, SourcesType, LinksAssumption
        <5>4. n = link[l].bref \/ n = NoNode
          <6> HIDE DEF related
          <6> QED  BY <4>4, <5>3, KeyedByBref
        <5> HIDE DEF n, related
        <5>5. CASE n = NoNode
          BY <4>3, <5>5 DEF Rewritten, n
        <5>6. CASE n = link[l].bref
          <6>1. link'[l] = Canonical(place, known, f, l, n)
            BY <3>2, <4>3, <5>3, <5>6 DEF Rewritten, n
          <6>2. Canonical(place, known, f, l, n)
                  = LinkText(link[l].url, link[l].bref, link[l].auto, link[l].text)
            BY <5>2, <5>6 DEF Canonical
          <6>3. LinkText(link[l].url, link[l].bref, link[l].auto, link[l].text) = link[l]
            BY <4>4 DEF LinkText, Texts
          <6> QED  BY <6>1, <6>2, <6>3
        <5> QED  BY <5>4, <5>5, <5>6
      <4>8. CASE ~ WrittenAnew(l)
        <5>1. Keyed(place, known, relation, f, l) = NoNode
          BY <3>2, <4>8 DEF Inv, SettledInv, LeftAlone
        <5>2. n = NoNode
          <6> HIDE DEF related
          <6> QED  BY <4>4, <4>6, <5>1, KeyedByFewer
        <5> QED  BY <4>3, <5>2 DEF Rewritten
      <4> QED  BY <4>7, <4>8
    <3> QED  BY <3>1, <3>2
  <2> QED  BY <2>1, <2>2, CompilerSteps
<1>2. Inv /\ [Next]_vars
        => [ByCompiler /\ KnownApart => \A l \in Link :
              Owner[l] \in fresh /\ ~ ToNetwork(Owner[l]) => link'[l] = link[l]]_vars
  BY <1>1
<1> QED  BY <1>2, LinksInv, PTL DEF Spec, WritingSettles

\* A parse does not give the Bref of a link to another node.
THEOREM BrefsAreKept == Spec => BrefsStay
<1>1. Inv /\ [Next]_vars /\ ByCompiler
        => \A l \in Link : link[l].bref # NoNode => link'[l].bref = link[l].bref
  <2> SUFFICES ASSUME Inv, [Next]_vars, ByCompiler, NEW l \in Link, link[l].bref # NoNode
               PROVE  link'[l].bref = link[l].bref
    OBVIOUS
  <2>1. CASE UNCHANGED vars
    BY <2>1 DEF vars
  <2>2. ASSUME NEW f \in Docs \union Nets, Parse(f)
        PROVE  link'[l].bref = link[l].bref
    <3> DEFINE n == Keyed(PlaceAfter(f), KnownAfter(f), RelationAfter(f), f, l)
    <3>1. link'[l] = Rewritten(PlaceAfter(f), KnownAfter(f), RelationAfter(f), f, l)
      BY <2>2, ParseIs
    <3>2. RelationAfter(f) \in [Link -> Nodes \union {NoNode}]
      BY AfterParseType DEF Inv
    <3>3. n = link[l].bref \/ n = NoNode
      BY <3>2, KeyedByBref
    <3>4. n # NoNode => Canonical(PlaceAfter(f), KnownAfter(f), f, l, n).bref = n
      <4> HIDE DEF n
      <4> QED  BY DEF Canonical, LinkText
    <3> QED  BY <3>1, <3>3, <3>4 DEF Rewritten
  <2> QED  BY <2>1, <2>2, CompilerSteps
<1>2. Inv /\ [Next]_vars
        => [ByCompiler => \A l \in Link :
              link[l].bref # NoNode => link'[l].bref = link[l].bref]_vars
  BY <1>1
<1> QED  BY <1>2, LinksInv, PTL DEF Spec, BrefsStay

=============================================================================
