---------------------------- MODULE IdentityProofs ----------------------------
(***************************************************************************)
(* Proofs about the identity of headings, for any documents, titles, notes *)
(* and numbers of headings: identifiers stay apart in the network, the     *)
(* tables of sections name the nodes of the headings, and headings with    *)
(* their anchors keep their nodes.                                         *)
(***************************************************************************)
EXTENDS Identity, OrderLemmas, SequenceTheorems

Ids == Titles \union Nat
Noting == Notes \union {NoNote}
Claim == Ids \union {NoId}

\* A node of a heading in the session, a heading in a text, and one that is
\* pushed.
Node == [doc : Docs, title : Titles, id : Ids, written : Ids, note : Noting, path : Claim]
Texted == [title : Titles, anchor : Claim, node : Nat]
PushedOnes == [node : Nat, new : BOOLEAN, title : Titles, id : Ids, note : Noting]

\* The identifiers of n nodes and the documents.
Maps(n) == UNION {[S -> Docs \union 1..n] : S \in SUBSET Ids}

-----------------------------------------------------------------------------
(* What MdCodec::parse claims.                                             *)

LEMMA ClaimedType ==
    ASSUME NEW seen, NEW h \in Texted
    PROVE  Claimed(seen, h) \in Claim /\ (Claimed(seen, h) = NoId \/ Claimed(seen, h) \notin seen)
           /\ (Claimed(seen, h) = NoId \/ Claimed(seen, h) = h.title \/ Claimed(seen, h) = h.anchor)
    BY DEF Claimed, Texted, Claim, Ids

LEMMA ClaimingDefined ==
    ASSUME NEW headings \in Seq(Texted)
    PROVE  /\ Claiming(headings)[0] = <<>>
           /\ \A i \in 1..Len(headings) :
                 Claiming(headings)[i] =
                    Append(Claiming(headings)[i - 1],
                           Claimed(Range(Claiming(headings)[i - 1]) \ {NoId}, headings[i]))
    <1> DEFINE n == Len(headings)
               next(c, i) == Append(c, Claimed(Range(c) \ {NoId}, headings[i]))
               step == [i \in 1..n |-> [c \in Seq(Claim) |-> next(c, i)]]
    <1>1. n \in Nat /\ \A i \in 1..n : headings[i] \in Texted
        OBVIOUS
    <1>2. <<>> \in Seq(Claim)
        OBVIOUS
    <1>3. \A i \in 1..n, c \in Seq(Claim) : next(c, i) \in Seq(Claim)
        BY <1>1, ClaimedType
    <1> HIDE DEF next
    <1>4. step \in Steps(Seq(Claim), n)
        BY <1>3 DEF Steps
    <1>5. \E f : Repeated(Seq(Claim), n, <<>>, step, f)
        <2> HIDE DEF step, n
        <2>1. n \in Nat
            BY <1>1
        <2> QED BY <1>2, <1>4, <2>1, RecursionExists
    <1>6. PICK f \in [0..n -> Seq(Claim)] : f[0] = <<>> /\ \A i \in 1..n : f[i] = step[i][f[i - 1]]
        <2> HIDE DEF step, n
        <2> QED BY <1>5 DEF Repeated
    <1>7. \A i \in 1..n : f[i] = next(f[i - 1], i)
        <2> TAKE i \in 1..n
        <2>1. f[i - 1] \in Seq(Claim)
            BY <1>1, <1>6
        <2> QED BY <1>6, <2>1
    <1> HIDE DEF step
    <1>8. \E g : g = [i \in 0..n |-> IF i = 0 THEN <<>> ELSE next(g[i - 1], i)]
        <2>1. f = [i \in 0..n |-> IF i = 0 THEN <<>> ELSE next(f[i - 1], i)]
            <3>1. \A i \in 0..n : i # 0 => i \in 1..n
                BY <1>1
            <3> QED BY <1>6, <1>7, <3>1
        <2> QED BY <2>1
    <1>9. Claiming(headings) = [i \in 0..n |-> IF i = 0 THEN <<>> ELSE next(Claiming(headings)[i - 1], i)]
        BY <1>8 DEF Claiming, next
    <1>10. 0 \in 0..n /\ \A i \in 1..n : i \in 0..n /\ i # 0
        BY <1>1
    <1> HIDE DEF n
    <1>11. Claiming(headings)[0] = <<>> /\ \A i \in 1..n : Claiming(headings)[i] = next(Claiming(headings)[i - 1], i)
        BY <1>9, <1>10
    <1> QED BY <1>11 DEF next, n

\* One claim for each heading; those that are no identifiers apart, they differ.
ClaimsOK(c, i) ==
    /\ c \in Seq(Claim) /\ Len(c) = i
    /\ \A j, k \in 1..i : c[j] = c[k] /\ j # k => c[j] = NoId

LEMMA ClaimsGoOn ==
    ASSUME NEW i \in Nat, NEW c, ClaimsOK(c, i), NEW x \in Claim, x = NoId \/ x \notin Range(c) \ {NoId}
    PROVE  ClaimsOK(Append(c, x), i + 1)
    <1> DEFINE e == Append(c, x)
    <1>1. e \in Seq(Claim) /\ Len(e) = i + 1 /\ e[i + 1] = x /\ \A j \in 1..i : e[j] = c[j]
        BY DEF ClaimsOK
    <1>2. \A j \in 1..i : c[j] \in Range(c)
        BY DEF ClaimsOK, Range
    <1> HIDE DEF e
    <1>3. \A j, k \in 1..(i + 1) : e[j] = e[k] /\ j # k => e[j] = NoId
        <2> TAKE j, k \in 1..(i + 1)
        <2>1. CASE j \in 1..i /\ k \in 1..i
            BY <1>1, <2>1 DEF ClaimsOK
        <2>2. CASE j = i + 1 /\ k \in 1..i
            BY <1>1, <1>2, <2>2
        <2>3. CASE j \in 1..i /\ k = i + 1
            BY <1>1, <1>2, <2>3
        <2> QED BY <2>1, <2>2, <2>3
    <1> QED BY <1>1, <1>3 DEF ClaimsOK, e

LEMMA ClaimsApart ==
    ASSUME NEW headings \in Seq(Texted)
    PROVE  /\ ClaimsOK(Claims(headings), Len(headings))
           /\ \A i \in 1..Len(headings) : Claims(headings)[i] \in {NoId, headings[i].title, headings[i].anchor}
    <1> DEFINE n == Len(headings)
               f == Claiming(headings)
               OK(i) == /\ ClaimsOK(f[i], i)
                        /\ \A j \in 1..i : f[i][j] \in {NoId, headings[j].title, headings[j].anchor}
               T == {i \in 0..n : ~ OK(i)}
    <1>1. SUFFICES ASSUME T # {} PROVE FALSE
        BY DEF Claims
    <1>2. n \in Nat /\ \A i \in 1..n : headings[i] \in Texted
        OBVIOUS
    <1>3. PICK i \in T : \A j \in T : i <= j
        <2>1. T \in SUBSET Nat
            BY <1>2
        <2> HIDE DEF T
        <2> QED BY <1>1, <2>1, SmallestExists
    <1>4. OK(0)
        <2>1. f[0] = <<>>
            BY ClaimingDefined
        <2> QED BY <2>1 DEF ClaimsOK
    <1>5. i \in 1..n /\ i - 1 \in 0..n /\ ~ (i <= i - 1) /\ i - 1 \in Nat /\ (i - 1) + 1 = i
        <2> HIDE DEF OK
        <2> QED BY <1>2, <1>3, <1>4
    <1>6. OK(i - 1)
        <2> HIDE DEF OK
        <2> QED BY <1>3, <1>5
    <1> DEFINE x == Claimed(Range(f[i - 1]) \ {NoId}, headings[i])
    <1>7. f[i] = Append(f[i - 1], x)
        BY <1>5, ClaimingDefined
    <1>8. x \in Claim /\ (x = NoId \/ x \notin Range(f[i - 1]) \ {NoId}) /\ x \in {NoId, headings[i].title, headings[i].anchor}
        BY <1>2, <1>5, ClaimedType
    <1> HIDE DEF x, f
    <1>9. ClaimsOK(f[i], i)
        BY <1>5, <1>6, <1>7, <1>8, ClaimsGoOn
    <1>10. \A j \in 1..i : f[i][j] \in {NoId, headings[j].title, headings[j].anchor}
        <2>1. f[i - 1] \in Seq(Claim) /\ Len(f[i - 1]) = i - 1
            BY <1>6 DEF ClaimsOK
        <2>2. f[i][i] = x /\ \A j \in 1..(i - 1) : f[i][j] = f[i - 1][j]
            BY <1>5, <1>7, <1>8, <2>1
        <2> QED BY <1>5, <1>6, <1>8, <2>2
    <1> QED BY <1>3, <1>9, <1>10

-----------------------------------------------------------------------------
(* What GraphBuilder::push makes of one heading.                           *)

LEMMA NewsIs ==
    ASSUME NEW pushed \in Seq(PushedOnes)
    PROVE  /\ News(pushed) \in Nat
           /\ \A r \in PushedOnes : News(Append(pushed, r)) = News(pushed) + IF r.new THEN 1 ELSE 0
    <1> DEFINE new(p) == {i \in DOMAIN p : p[i].new}
               n == Len(pushed)
    <1>1. n \in Nat /\ DOMAIN pushed = 1..n
        OBVIOUS
    <1>2. IsFiniteSet(new(pushed))
        <2>1. IsFiniteSet(1..n)
            BY <1>1, FS_Interval
        <2> QED BY <1>1, <2>1, FS_Subset
    <1>3. News(pushed) \in Nat
        BY <1>2, FS_CardinalityType DEF News
    <1>4. ASSUME NEW r \in PushedOnes
          PROVE  News(Append(pushed, r)) = News(pushed) + IF r.new THEN 1 ELSE 0
        <2> DEFINE q == Append(pushed, r)
        <2>1. DOMAIN q = 1..(n + 1) /\ q[n + 1] = r /\ \A i \in 1..n : q[i] = pushed[i]
            OBVIOUS
        <2> HIDE DEF q
        <2>2. n + 1 \notin new(pushed) /\ r.new \in BOOLEAN
            BY <1>1 DEF PushedOnes
        <2>3. CASE r.new
            <3>1. new(q) = new(pushed) \union {n + 1}
                BY <1>1, <2>1, <2>3
            <3> HIDE DEF new
            <3>2. Cardinality(new(q)) = Cardinality(new(pushed)) + 1
                BY <1>2, <2>2, <3>1, FS_AddElement
            <3>3. News(q) = News(pushed) + 1
                BY <3>2 DEF News, new
            <3> QED BY <2>3, <3>3 DEF q
        <2>4. CASE ~ r.new
            <3>1. new(q) = new(pushed)
                BY <1>1, <2>1, <2>4
            <3>2. News(q) = News(pushed)
                BY <3>1 DEF News
            <3> QED BY <1>3, <2>4, <3>2 DEF q
        <2> QED BY <2>2, <2>3, <2>4
    <1> QED BY <1>3, <1>4

\* What is known of one that is pushed behind others.
One(r, session, map, d, pushed, claim, h) ==
    /\ r.title = h.title
    /\ r.new => /\ r.node = Len(session) + News(pushed) + 1
                /\ r.id # NoId /\ r.id \in {claim, h.title, r.node}
                /\ claim = NoId \/ At(session, d, claim) = {}
    /\ ~ r.new => /\ claim # NoId /\ r.node \in At(session, d, claim)
                  /\ r.id \in {session[r.node].id, session[r.node].written, r.node}
    /\ r.id = r.node \/ Owners(session, map, d, pushed, r.id) \ {r.node} = {}

LEMMA PushedIs ==
    ASSUME NEW session \in Seq(Node), NEW map, NEW d, NEW pushed \in Seq(PushedOnes),
           NEW claim \in Claim, NEW h \in Texted
    PROVE  \E r \in PushedOnes : /\ Pushed(session, map, d, pushed, claim, h) = Append(pushed, r)
                                 /\ One(r, session, map, d, pushed, claim, h)
    <1> DEFINE found == IF claim = NoId THEN {} ELSE At(session, d, claim)
               new   == Len(session) + News(pushed) + 1
               b     == IF found = {} THEN new ELSE CHOOSE b \in found : TRUE
               own   == CASE found # {} -> IF InSession(session, b, claim) THEN session[b].id
                                           ELSE session[b].written
                          [] claim = NoId -> h.title
                          [] OTHER        -> claim
               lost  == own # b /\ Owners(session, map, d, pushed, own) \ {b} # {}
               r     == [node |-> b, new |-> found = {}, title |-> h.title,
                         id |-> IF lost THEN b ELSE own, note |-> Noted(session, found, b)]
    <1>1. Pushed(session, map, d, pushed, claim, h) = Append(pushed, r)
        BY DEF Pushed
    <1>2. new \in Nat
        BY NewsIs
    <1>3. found \subseteq DOMAIN session /\ \A x \in DOMAIN session : session[x] \in Node /\ x \in Nat
        BY DEF At
    <1>4. CASE found = {}
        <2>1. b = new /\ own = IF claim = NoId THEN h.title ELSE claim
            BY <1>4
        <2>2. own \in Ids /\ own # NoId /\ own \in {claim, h.title} /\ b \in Nat /\ b # NoId
            BY <1>2, <2>1, IdentityAssumption DEF Claim, Ids, Texted
        <2>3. Noted(session, found, b) \in Noting
            BY <1>4 DEF Noted, Noting
        <2> HIDE DEF found, b, own, new
        <2>4. r \in PushedOnes
            BY <2>2, <2>3 DEF PushedOnes, Texted, Ids
        <2>5. r.node = b /\ r.new = TRUE /\ r.title = h.title /\ r.id \in {own, b} /\ (r.id = b \/ own = b \/ Owners(session, map, d, pushed, own) \ {b} = {})
               /\ (r.id = b \/ r.id = own)
            BY <1>4
        <2> HIDE DEF r
        <2>6. r.id = r.node \/ Owners(session, map, d, pushed, r.id) \ {r.node} = {}
            BY <2>5
        <2>7. One(r, session, map, d, pushed, claim, h)
            <3>1. r.node = Len(session) + News(pushed) + 1
                BY <2>1, <2>5 DEF new
            <3>2. r.id # NoId /\ r.id \in {claim, h.title, r.node}
                BY <2>2, <2>5
            <3>3. claim = NoId \/ At(session, d, claim) = {}
                BY <1>4 DEF found
            <3> QED BY <2>5, <2>6, <3>1, <3>2, <3>3 DEF One
        <2> QED BY <1>1, <2>4, <2>7
    <1>5. CASE found # {}
        <2>1. b \in found
            BY <1>5
        <2>2. own = IF InSession(session, b, claim) THEN session[b].id ELSE session[b].written
            BY <1>5
        <2>3. claim # NoId /\ found = At(session, d, claim)
            BY <1>5
        <2> HIDE DEF found, b, own, new
        <2>4. own \in Ids /\ own \in {session[b].id, session[b].written} /\ b \in Nat
            BY <1>3, <2>1, <2>2 DEF Node
        <2>5. Noted(session, found, b) \in Noting
            BY <1>3, <1>5, <2>1 DEF Noted, Node
        <2>6. r \in PushedOnes
            BY <2>4, <2>5 DEF PushedOnes, Texted, Ids
        <2>7. r.node = b /\ r.new = FALSE /\ r.title = h.title /\ r.id \in {own, b} /\ (r.id = b \/ own = b \/ Owners(session, map, d, pushed, own) \ {b} = {})
               /\ (r.id = b \/ r.id = own)
            BY <1>5
        <2> HIDE DEF r
        <2>8. r.id = r.node \/ Owners(session, map, d, pushed, r.id) \ {r.node} = {}
            BY <2>7
        <2>9. One(r, session, map, d, pushed, claim, h)
            BY <2>1, <2>3, <2>4, <2>7, <2>8 DEF One
        <2> QED BY <1>1, <2>6, <2>9
    <1> QED BY <1>4, <1>5

LEMMA PushingDefined ==
    ASSUME NEW session \in Seq(Node), NEW map, NEW d, text[d] \in Seq(Texted)
    PROVE  /\ Pushing(session, map, d)[0] = <<>>
           /\ \A i \in 1..Len(text[d]) :
                 Pushing(session, map, d)[i] =
                    Pushed(session, map, d, Pushing(session, map, d)[i - 1], Claims(text[d])[i], text[d][i])
    <1> DEFINE n == Len(text[d])
               S == Seq(PushedOnes)
               claims == Claims(text[d])
               next(p, i) == Pushed(session, map, d, p, claims[i], text[d][i])
               step == [i \in 1..n |-> [p \in S |-> next(p, i)]]
    <1>1. n \in Nat /\ \A i \in 1..n : text[d][i] \in Texted
        OBVIOUS
    <1>2. <<>> \in S
        OBVIOUS
    <1>3. \A i \in 1..n, p \in S : next(p, i) \in S
        <2> TAKE i \in 1..n, p \in S
        <2>1. ClaimsOK(claims, n)
            BY ClaimsApart
        <2>2. claims[i] \in Claim
            BY <2>1 DEF ClaimsOK
        <2>3. PICK r \in PushedOnes : next(p, i) = Append(p, r)
            BY <1>1, <2>2, PushedIs
        <2> QED BY <2>3
    <1> HIDE DEF next, S
    <1>4. step \in Steps(S, n)
        BY <1>3 DEF Steps
    <1>5. \E f : Repeated(S, n, <<>>, step, f)
        <2> HIDE DEF step, n
        <2>1. n \in Nat
            BY <1>1
        <2> QED BY <1>2, <1>4, <2>1, RecursionExists
    <1>6. PICK f \in [0..n -> S] : f[0] = <<>> /\ \A i \in 1..n : f[i] = step[i][f[i - 1]]
        <2> HIDE DEF step, n
        <2> QED BY <1>5 DEF Repeated
    <1>7. \A i \in 1..n : f[i] = next(f[i - 1], i)
        <2> TAKE i \in 1..n
        <2>1. f[i - 1] \in S
            BY <1>1, <1>6
        <2> QED BY <1>6, <2>1
    <1> HIDE DEF step
    <1>8. \E g : g = [i \in 0..n |-> IF i = 0 THEN <<>> ELSE next(g[i - 1], i)]
        <2>1. f = [i \in 0..n |-> IF i = 0 THEN <<>> ELSE next(f[i - 1], i)]
            <3>1. \A i \in 0..n : i # 0 => i \in 1..n
                BY <1>1
            <3> QED BY <1>6, <1>7, <3>1
        <2> QED BY <2>1
    <1> DEFINE all == Pushing(session, map, d)
    <1>9. all = [i \in 0..n |-> IF i = 0 THEN <<>> ELSE next(all[i - 1], i)]
        BY <1>8 DEF Pushing, next
    <1>10. 0 \in 0..n /\ \A i \in 1..n : i \in 0..n /\ i # 0
        BY <1>1
    <1> HIDE DEF n, all
    <1>11. all[0] = <<>> /\ \A i \in 1..n : all[i] = next(all[i - 1], i)
        BY <1>9, <1>10
    <1> QED BY <1>11 DEF next, n, all

\* The session of a parse and the identifiers of the network: a node has the
\* identifier that is stored or its Bref, what is stored names one node, and a
\* document has its title, which no heading has then.
OwnNames(session) ==
    \A b \in DOMAIN session : /\ session[b].written \in Titles \union {b}
                              /\ session[b].id \in {session[b].written, b}
Apart(session) == \A b, c \in DOMAIN session : session[b].written = session[c].written => b = c
DocsKeep(session, map) ==
    \A x \in DOMAIN map : map[x] \in Docs =>
        x = DocTitle[map[x]] /\ \A b \in DOMAIN session : session[b].id # x
Coherent(session, map) ==
    /\ session \in Seq(Node) /\ map \in Maps(Len(session))
    /\ OwnNames(session) /\ Apart(session) /\ DocsKeep(session, map)

\* The anchors that a text can have.
Anchors(session) == Titles \union {NoId} \union {x \in DOMAIN session : session[x].written = x}

LEMMA MapsTo ==
    ASSUME NEW n \in Nat, NEW map \in Maps(n)
    PROVE  /\ DOMAIN map \in SUBSET Ids /\ map = [x \in DOMAIN map |-> map[x]]
           /\ \A x \in DOMAIN map : map[x] \in Docs \union 1..n
    BY DEF Maps

LEMMA NumbersApart ==
    \A b \in Nat : b \notin Docs /\ b \notin Titles /\ b # NoId
    BY IdentityAssumption

\* An identifier that only one node has is stored for no other, and no
\* document has it.
Only(session, map, t, b) == t # b /\ Having(session, map, t) \subseteq {b}
StoredOnly(session, map, t, b) ==
    /\ \A c \in DOMAIN session : session[c].written = t => c = b
    /\ t \in DOMAIN map => map[t] \notin Docs

LEMMA Holder ==
    ASSUME NEW session, NEW map, Coherent(session, map), NEW t, NEW b, b \notin Docs,
           Only(session, map, t, b)
    PROVE  StoredOnly(session, map, t, b)
    <1> DEFINE listed == IF t \in DOMAIN map THEN {map[t]} ELSE {}
               agreed == {x \in listed : x \in Docs \/ session[x].id = t}
    <1>1. Having(session, map, t) = IF agreed # {} THEN agreed
                                    ELSE {x \in DOMAIN session : session[x].written = t}
        BY DEF Having
    <1>2. b \notin Docs /\ t # b /\ Having(session, map, t) \subseteq {b}
        BY DEF Only
    <1>3. t \in DOMAIN map => map[t] \notin Docs
        BY <1>1, <1>2
    <1>4. ASSUME NEW c \in DOMAIN session, session[c].written = t PROVE c = b
        <2>1. CASE agreed = {}
            BY <1>1, <1>2, <1>4, <2>1
        <2>2. CASE agreed # {}
            <3>1. t \in DOMAIN map /\ map[t] = b /\ session[b].id = t
                BY <1>1, <1>2, <2>2
            <3>2. session \in Seq(Node) /\ map \in Maps(Len(session)) /\ OwnNames(session) /\ Apart(session)
                BY DEF Coherent
            <3>3. b \in DOMAIN session
                <4>1. Len(session) \in Nat /\ DOMAIN session = 1..Len(session)
                    BY <3>2
                <4>2. map[t] \in Docs \union 1..Len(session)
                    BY <3>1, <3>2, <4>1, MapsTo
                <4> QED BY <1>2, <3>1, <4>1, <4>2
            <3>4. session[b].written = t
                BY <1>2, <3>1, <3>2, <3>3 DEF OwnNames
            <3> QED BY <1>4, <3>2, <3>3, <3>4 DEF Apart
        <2> QED BY <2>1, <2>2
    <1> QED BY <1>3, <1>4 DEF StoredOnly

\* One that is pushed: its identifier is a title or its Bref, and nobody else's.
Fits(session, map, d, claim, r) ==
    /\ r.node \in Nat /\ r.id \in Titles \union {r.node}
    /\ r.new => r.node > Len(session) /\ (claim = NoId \/ At(session, d, claim) = {})
    /\ ~ r.new => /\ r.node \in DOMAIN session /\ session[r.node].doc = d
                  /\ claim # NoId /\ session[r.node].path = claim
                  /\ r.id \in {session[r.node].id, session[r.node].written, r.node}
    /\ r.id # r.node => Only(session, map, r.id, r.node)

\* And all of them: the new ones are the next nodes.
PushedOK(session, map, d, claims, p) ==
    /\ p \in Seq(PushedOnes)
    /\ \A j \in 1..Len(p) : Fits(session, map, d, claims[j], p[j])
    /\ \A j \in 1..Len(p) : p[j].node <= Len(session) + News(p)
    /\ \A j, k \in 1..Len(p) : j # k => p[j].node # p[k].node /\ p[j].id # p[k].id
    /\ \A b \in (Len(session) + 1)..(Len(session) + News(p)) : \E j \in 1..Len(p) : p[j].node = b

LEMMA OneFits ==
    ASSUME NEW session, NEW map, Coherent(session, map), NEW d, NEW claims, NEW p,
           PushedOK(session, map, d, claims, p),
           NEW claim \in Claim, NEW h \in Texted, h.anchor \in Anchors(session),
           claim \in {NoId, h.title, h.anchor},
           \A j \in 1..Len(p) : claims[j] = claim => claim = NoId,
           NEW r \in PushedOnes, One(r, session, map, d, p, claim, h)
    PROVE  /\ Fits(session, map, d, claim, r)
           /\ \A j \in 1..Len(p) : p[j].node # r.node /\ p[j].id # r.id
    <1> DEFINE N == Len(session)
               m == Len(p)
               w == News(p)
               local == {q.node : q \in {q \in Range(p) : q.id = r.id}}
    <1>1. N \in Nat /\ DOMAIN session = 1..N /\ m \in Nat /\ w \in Nat /\ DOMAIN p = 1..m
          /\ r.node \in Nat /\ r.id \in Ids /\ r.new \in BOOLEAN
        <2>1. session \in Seq(Node) /\ p \in Seq(PushedOnes)
            BY DEF Coherent, PushedOK
        <2>2. w \in Nat
            BY <2>1, NewsIs
        <2>3. r.node \in Nat /\ r.id \in Ids /\ r.new \in BOOLEAN
            BY DEF PushedOnes
        <2> HIDE DEF w
        <2> QED BY <2>1, <2>2, <2>3
    <1>2. OwnNames(session)
        BY DEF Coherent
    <1>3. ASSUME r.new
          PROVE  /\ r.node = N + w + 1 /\ r.id # NoId /\ r.id \in {claim, h.title, r.node}
                 /\ claim = NoId \/ At(session, d, claim) = {}
        BY <1>3 DEF One
    <1>4. ASSUME ~ r.new
          PROVE  /\ claim # NoId /\ r.node \in 1..N /\ session[r.node].doc = d /\ session[r.node].path = claim
                 /\ r.id \in {session[r.node].id, session[r.node].written, r.node}
        BY <1>1, <1>4 DEF One, At
    <1>5. ASSUME NEW j \in 1..m PROVE p[j].node # r.node
        <2>1. Fits(session, map, d, claims[j], p[j]) /\ p[j].node <= N + w
            BY DEF PushedOK
        <2>2. CASE r.new
            <3>1. p[j].node \in Nat
                BY <2>1 DEF Fits
            <3> QED BY <1>1, <1>3, <2>1, <2>2, <3>1
        <2>3. CASE ~ r.new /\ p[j].new
            BY <1>1, <1>4, <2>1, <2>3 DEF Fits
        <2>4. CASE ~ r.new /\ ~ p[j].new
            BY <1>4, <2>1, <2>4 DEF Fits
        <2> QED BY <2>2, <2>3, <2>4
    <1>6. ASSUME r.id # r.node
          PROVE  /\ \A j \in 1..m : p[j].id # r.id
                 /\ Only(session, map, r.id, r.node)
        <2>1. Owners(session, map, d, p, r.id) \ {r.node} = {}
            BY <1>6 DEF One
        <2>2. Owners(session, map, d, p, r.id) = IF local # {} THEN local ELSE Having(session, map, r.id)
            BY DEF Owners
        <2>3. \A j \in 1..m : p[j].id = r.id => p[j].node \in local
            BY <1>1 DEF Range
        <2>4. \A j \in 1..m : p[j].id # r.id
            <3> HIDE DEF local
            <3> QED BY <1>5, <2>1, <2>2, <2>3
        <2>5. local = {}
            BY <1>1, <2>4 DEF Range
        <2> HIDE DEF local
        <2>6. Having(session, map, r.id) \subseteq {r.node}
            BY <2>1, <2>2, <2>5
        <2> QED BY <1>6, <2>4, <2>6 DEF Only
    <1>7. r.id \in Titles \union {r.node}
        <2>1. CASE r.new
            <3>1. r.id \in Anchors(session) \union {r.node} /\ r.id # NoId
                <4>1. h.title \in Anchors(session) /\ NoId \in Anchors(session)
                    BY DEF Anchors, Texted
                <4> QED BY <1>3, <2>1, <4>1
            <3>2. CASE r.id \in DOMAIN session /\ session[r.id].written = r.id /\ r.id # r.node
                <4>1. StoredOnly(session, map, r.id, r.node)
                    BY <1>1, <1>6, <3>2, Holder, NumbersApart
                <4> QED BY <3>2, <4>1 DEF StoredOnly
            <3> QED BY <3>1, <3>2 DEF Anchors
        <2>2. CASE ~ r.new
            BY <1>1, <1>2, <1>4, <2>2 DEF OwnNames
        <2> QED BY <2>1, <2>2
    <1>8. ASSUME NEW j \in 1..m PROVE p[j].id # r.id
        <2>1. Fits(session, map, d, claims[j], p[j])
            BY DEF PushedOK
        <2>2. p[j].id \in Titles \union {p[j].node} /\ p[j].node # r.node /\ r.node \notin Titles
            BY <1>1, <1>5, <2>1, NumbersApart DEF Fits
        <2> QED BY <1>6, <2>2
    <1>9. Fits(session, map, d, claim, r)
        <2>1. r.new => r.node > N /\ (claim = NoId \/ At(session, d, claim) = {})
            BY <1>1, <1>3
        <2>2. ~ r.new => /\ r.node \in DOMAIN session /\ session[r.node].doc = d
                         /\ claim # NoId /\ session[r.node].path = claim
                         /\ r.id \in {session[r.node].id, session[r.node].written, r.node}
            BY <1>1, <1>4
        <2> QED BY <1>1, <1>6, <1>7, <2>1, <2>2 DEF Fits
    <1> QED BY <1>5, <1>8, <1>9

LEMMA MoreFit ==
    ASSUME NEW session \in Seq(Node), NEW map, NEW d, NEW claims, NEW p,
           PushedOK(session, map, d, claims, p), NEW r \in PushedOnes,
           Fits(session, map, d, claims[Len(p) + 1], r),
           \A j \in 1..Len(p) : p[j].node # r.node /\ p[j].id # r.id,
           r.new => r.node = Len(session) + News(p) + 1
    PROVE  PushedOK(session, map, d, claims, Append(p, r))
    <1> DEFINE N == Len(session)
               m == Len(p)
               w == News(p)
               q == Append(p, r)
    <1>1. p \in Seq(PushedOnes)
        BY DEF PushedOK
    <1>2. N \in Nat /\ m \in Nat /\ DOMAIN session = 1..N /\ r.node \in Nat /\ r.new \in BOOLEAN
        BY <1>1 DEF PushedOnes
    <1>3. w \in Nat /\ News(q) = w + IF r.new THEN 1 ELSE 0
        BY <1>1, NewsIs
    <1>4. q \in Seq(PushedOnes) /\ Len(q) = m + 1 /\ q[m + 1] = r /\ \A j \in 1..m : q[j] = p[j]
        BY <1>1
    <1>5. \A j \in 1..(m + 1) : j \in 1..m \/ j = m + 1
        BY <1>2
    <1>6. \A j \in 1..m : Fits(session, map, d, claims[j], p[j]) /\ p[j].node <= N + w
        BY DEF PushedOK
    <1>7. \A j, k \in 1..m : j # k => p[j].node # p[k].node /\ p[j].id # p[k].id
        BY DEF PushedOK
    <1>8. \A b \in (N + 1)..(N + w) : \E j \in 1..m : p[j].node = b
        BY DEF PushedOK
    <1>9. \A j \in 1..m : p[j].node \in Nat
        BY <1>6 DEF Fits
    <1> HIDE DEF N, m, w, q
    <1>10. r.node <= N + News(q)
        <2>1. CASE r.new
            BY <1>2, <1>3, <2>1 DEF N, w
        <2>2. CASE ~ r.new
            <3>1. r.node \in DOMAIN session
                BY <2>2 DEF Fits
            <3> QED BY <1>2, <1>3, <2>2, <3>1
        <2> QED BY <2>1, <2>2
    <1>11. \A j \in 1..(m + 1) : Fits(session, map, d, claims[j], q[j])
        BY <1>4, <1>5, <1>6 DEF m
    <1>12. \A j \in 1..(m + 1) : q[j].node <= N + News(q)
        <2> TAKE j \in 1..(m + 1)
        <2>1. CASE j \in 1..m
            BY <1>2, <1>3, <1>4, <1>6, <1>9, <2>1
        <2> QED BY <1>4, <1>5, <1>10, <2>1
    <1>13. \A j, k \in 1..(m + 1) : j # k => q[j].node # q[k].node /\ q[j].id # q[k].id
        <2> TAKE j, k \in 1..(m + 1)
        <2>1. CASE j \in 1..m /\ k \in 1..m
            BY <1>4, <1>7, <2>1
        <2>2. CASE j = m + 1 /\ k \in 1..m
            BY <1>4, <2>2 DEF m
        <2>3. CASE j \in 1..m /\ k = m + 1
            BY <1>4, <2>3 DEF m
        <2> QED BY <1>5, <2>1, <2>2, <2>3
    <1>14. \A b \in (N + 1)..(N + News(q)) : \E j \in 1..(m + 1) : q[j].node = b
        <2> TAKE b \in (N + 1)..(N + News(q))
        <2>1. CASE b \in (N + 1)..(N + w)
            <3>1. PICK j \in 1..m : p[j].node = b
                BY <1>8, <2>1
            <3>2. j \in 1..(m + 1) /\ q[j].node = b
                BY <1>2, <1>4, <3>1
            <3> QED BY <3>2
        <2>2. CASE b \notin (N + 1)..(N + w)
            <3>1. r.new /\ b = N + w + 1
                BY <1>2, <1>3, <2>2
            <3>2. r.node = b
                BY <3>1 DEF N, w
            <3>3. m + 1 \in 1..(m + 1) /\ q[m + 1].node = b
                BY <1>2, <1>4, <3>2
            <3> QED BY <3>3
        <2> QED BY <2>1, <2>2
    <1> QED BY <1>4, <1>11, <1>12, <1>13, <1>14 DEF PushedOK, N, q

\* All headings of a document are pushed.
LEMMA PushingIs ==
    ASSUME NEW session, NEW map, Coherent(session, map), NEW d, text[d] \in Seq(Texted),
           \A i \in 1..Len(text[d]) : text[d][i].anchor \in Anchors(session)
    PROVE  /\ PushedOK(session, map, d, Claims(text[d]), Pushing(session, map, d)[Len(text[d])])
           /\ Len(Pushing(session, map, d)[Len(text[d])]) = Len(text[d])
           /\ \A i \in 1..Len(text[d]) :
                 Pushing(session, map, d)[Len(text[d])][i].title = text[d][i].title
    <1> DEFINE n == Len(text[d])
               claims == Claims(text[d])
               f == Pushing(session, map, d)
               OK(i) == /\ PushedOK(session, map, d, claims, f[i]) /\ Len(f[i]) = i
                        /\ \A j \in 1..i : f[i][j].title = text[d][j].title
               T == {i \in 0..n : ~ OK(i)}
    <1>1. n \in Nat /\ \A i \in 1..n : text[d][i] \in Texted
        OBVIOUS
    <1>2. SUFFICES ASSUME T # {} PROVE FALSE
        BY <1>1
    <1>3. PICK i \in T : \A j \in T : i <= j
        <2>1. T \in SUBSET Nat
            BY <1>1
        <2> HIDE DEF T
        <2> QED BY <1>2, <2>1, SmallestExists
    <1>4. session \in Seq(Node) /\ Len(session) \in Nat
        BY DEF Coherent
    <1>5. OK(0)
        <2>1. f[0] = <<>>
            BY <1>4, PushingDefined
        <2>2. News(<<>>) = 0
            <3>1. {k \in DOMAIN <<>> : <<>>[k].new} = {}
                OBVIOUS
            <3> QED BY <3>1, FS_EmptySet DEF News
        <2>3. (Len(session) + 1)..(Len(session) + 0) = {}
            BY <1>4
        <2>4. PushedOK(session, map, d, claims, <<>>)
            BY <2>2, <2>3 DEF PushedOK
        <2> QED BY <2>1, <2>4
    <1>6. i \in 1..n /\ i - 1 \in 0..n /\ ~ (i <= i - 1) /\ i - 1 \in Nat /\ (i - 1) + 1 = i
        <2> HIDE DEF OK
        <2> QED BY <1>1, <1>3, <1>5
    <1>7. OK(i - 1)
        <2> HIDE DEF OK
        <2> QED BY <1>3, <1>6
    <1> DEFINE p == f[i - 1]
               h == text[d][i]
               claim == claims[i]
    <1>8. f[i] = Pushed(session, map, d, p, claim, h)
        BY <1>4, <1>6, PushingDefined
    <1>9. ClaimsOK(claims, n) /\ claim \in {NoId, h.title, h.anchor}
        BY <1>6, ClaimsApart
    <1>10. PushedOK(session, map, d, claims, p) /\ Len(p) = i - 1 /\ \A j \in 1..(i - 1) : p[j].title = text[d][j].title
        BY <1>7
    <1>11. p \in Seq(PushedOnes)
        BY <1>10 DEF PushedOK
    <1>12. claim \in Claim /\ h \in Texted /\ h.anchor \in Anchors(session)
        BY <1>1, <1>6, <1>9 DEF ClaimsOK
    <1>13. \A j \in 1..Len(p) : claims[j] = claim => claim = NoId
        BY <1>6, <1>9, <1>10 DEF ClaimsOK
    <1> HIDE DEF p, h, claim, f, claims
    <1>14. PICK r \in PushedOnes : /\ Pushed(session, map, d, p, claim, h) = Append(p, r)
                                   /\ One(r, session, map, d, p, claim, h)
        BY <1>4, <1>11, <1>12, PushedIs
    <1>15. Fits(session, map, d, claim, r) /\ \A j \in 1..Len(p) : p[j].node # r.node /\ p[j].id # r.id
        BY <1>9, <1>10, <1>12, <1>13, <1>14, OneFits
    <1>16. (r.new => r.node = Len(session) + News(p) + 1) /\ r.title = h.title
        BY <1>14 DEF One
    <1>17. claims[Len(p) + 1] = claim
        BY <1>6, <1>10 DEF claim
    <1>18. PushedOK(session, map, d, claims, Append(p, r))
        BY <1>4, <1>10, <1>15, <1>16, <1>17, MoreFit
    <1>19. Len(f[i]) = i /\ \A j \in 1..i : f[i][j].title = text[d][j].title
        <2>1. Len(f[i]) = i /\ f[i][i] = r /\ \A j \in 1..(i - 1) : f[i][j] = p[j]
            BY <1>6, <1>8, <1>10, <1>11, <1>14
        <2>2. \A j \in 1..i : j = i \/ j \in 1..(i - 1)
            BY <1>6
        <2>3. r.title = text[d][i].title
            BY <1>16 DEF h
        <2> QED BY <1>10, <2>1, <2>2, <2>3
    <1> QED BY <1>3, <1>8, <1>14, <1>18, <1>19

\* A table of sections.
Tables == UNION {[S -> [node : Nat, note : Noting]] : S \in SUBSET Ids}

LEMMA TableOf ==
    ASSUME NEW t \in Tables
    PROVE  /\ DOMAIN t \in SUBSET Ids /\ t = [x \in DOMAIN t |-> t[x]]
           /\ \A x \in DOMAIN t : t[x].node \in Nat /\ t[x].note \in Noting
    BY DEF Tables

\* The notes of the table are with what is pushed.
LEMMA PushAllIs ==
    ASSUME NEW session, NEW map, Coherent(session, map), NEW d, text[d] \in Seq(Texted),
           \A i \in 1..Len(text[d]) : text[d][i].anchor \in Anchors(session),
           sections[d] \in Tables
    PROVE  /\ PushedOK(session, map, d, Claims(text[d]), PushAll(session, map, d))
           /\ Len(PushAll(session, map, d)) = Len(text[d])
           /\ \A i \in 1..Len(text[d]) :
                 LET p == PushAll(session, map, d)[i]
                 IN  /\ p.title = text[d][i].title
                     /\ p.note = NoNote /\ p.id \in DOMAIN sections[d] => sections[d][p.id].note = NoNote
    <1> DEFINE n == Len(text[d])
               claims == Claims(text[d])
               f == Pushing(session, map, d)[n]
               g == PushAll(session, map, d)
    <1>1. PushedOK(session, map, d, claims, f) /\ Len(f) = n /\ \A i \in 1..n : f[i].title = text[d][i].title
        BY PushingIs
    <1>2. f \in Seq(PushedOnes) /\ n \in Nat /\ DOMAIN text[d] = 1..n
        BY <1>1 DEF PushedOK
    <1>3. g = [i \in 1..n |-> Annotated(d, f[i])]
        BY <1>2 DEF PushAll
    <1> HIDE DEF f, g, claims
    <1>4. ASSUME NEW i \in 1..n
          PROVE  /\ g[i] \in PushedOnes /\ g[i].node = f[i].node /\ g[i].new = f[i].new
                 /\ g[i].title = f[i].title /\ g[i].id = f[i].id
                 /\ g[i].note = IF f[i].note = NoNote THEN Entry(d, f[i]) ELSE f[i].note
        <2>1. f[i] \in PushedOnes
            BY <1>1, <1>2
        <2>2. Entry(d, f[i]) \in Noting
            BY TableOf DEF Entry, Noting
        <2>3. g[i] = [f[i] EXCEPT !.note = IF @ = NoNote THEN Entry(d, f[i]) ELSE @]
            BY <1>3 DEF Annotated
        <2> QED BY <2>1, <2>2, <2>3 DEF PushedOnes
    <1> HIDE DEF n
    <1>5. g \in Seq(PushedOnes) /\ Len(g) = n /\ DOMAIN g = 1..n
        BY <1>2, <1>3, <1>4
    <1>6. News(g) = News(f)
        <2>1. DOMAIN f = 1..n
            BY <1>1, <1>2
        <2>2. {i \in DOMAIN g : g[i].new} = {i \in DOMAIN f : f[i].new}
            BY <1>4, <1>5, <2>1
        <2> QED BY <2>2 DEF News
    <1>7. PushedOK(session, map, d, claims, g)
        <2>1. \A j \in 1..n : Fits(session, map, d, claims[j], g[j])
            <3> TAKE j \in 1..n
            <3>1. Fits(session, map, d, claims[j], f[j])
                BY <1>1 DEF PushedOK
            <3> QED BY <1>4, <3>1 DEF Fits
        <2>2. \A j \in 1..n : g[j].node <= Len(session) + News(g)
            BY <1>1, <1>4, <1>6 DEF PushedOK
        <2>3. \A j, k \in 1..n : j # k => g[j].node # g[k].node /\ g[j].id # g[k].id
            BY <1>1, <1>4 DEF PushedOK
        <2>4. \A b \in (Len(session) + 1)..(Len(session) + News(g)) : \E j \in 1..n : g[j].node = b
            <3> TAKE b \in (Len(session) + 1)..(Len(session) + News(g))
            <3>1. PICK j \in 1..n : f[j].node = b
                BY <1>1, <1>6 DEF PushedOK
            <3> QED BY <1>4, <3>1
        <2> QED BY <1>5, <2>1, <2>2, <2>3, <2>4 DEF PushedOK
    <1>8. \A i \in 1..n : /\ g[i].title = text[d][i].title
                          /\ g[i].note = NoNote /\ g[i].id \in DOMAIN sections[d]
                                => sections[d][g[i].id].note = NoNote
        <2> TAKE i \in 1..n
        <2>1. g[i].title = text[d][i].title
            BY <1>1, <1>4
        <2>2. ASSUME g[i].note = NoNote, g[i].id \in DOMAIN sections[d]
              PROVE  sections[d][g[i].id].note = NoNote
            <3>1. Entry(d, f[i]) = NoNote /\ f[i].id = g[i].id
                BY <1>4, <2>2
            <3> QED BY <2>2, <3>1 DEF Entry
        <2> QED BY <2>1, <2>2
    <1> QED BY <1>5, <1>7, <1>8 DEF n, g, claims

-----------------------------------------------------------------------------
(* The nodes after a parse.                                                *)

\* Those that are pushed have what was made of them, the others what they had.
After(session, d, p, u) ==
    LET size == Len(session) + News(p)
    IN  /\ u \in Seq(Node) /\ Len(u) = size /\ size \in Nat /\ Len(session) <= size
        /\ \A j \in 1..Len(p) :
              LET v == u[p[j].node]
              IN  /\ p[j].node \in 1..size
                  /\ v.doc = d /\ v.title = p[j].title /\ v.note = p[j].note
                  /\ v.id = p[j].id /\ v.written = p[j].id
                  /\ v.path = IF p[j].new THEN NoId ELSE session[p[j].node].path
        /\ \A b \in 1..size :
              (\A j \in 1..Len(p) : p[j].node # b) => b \in DOMAIN session /\ u[b] = session[b]

LEMMA UpdatedIs ==
    ASSUME NEW session \in Seq(Node), NEW map, NEW d \in Docs, NEW claims, NEW p,
           PushedOK(session, map, d, claims, p)
    PROVE  After(session, d, p, Updated(session, d, p))
    <1> DEFINE N == Len(session)
               m == Len(p)
               size == N + News(p)
               at(b) == {i \in DOMAIN p : p[i].node = b}
               put(b, i) == [doc |-> d, title |-> p[i].title, id |-> p[i].id,
                             written |-> p[i].id, note |-> p[i].note,
                             path |-> IF p[i].new THEN NoId ELSE session[b].path]
               u == Updated(session, d, p)
    <1>1. p \in Seq(PushedOnes)
        BY DEF PushedOK
    <1>2. N \in Nat /\ m \in Nat /\ DOMAIN session = 1..N /\ DOMAIN p = 1..m /\ \A j \in 1..m : p[j] \in PushedOnes
        BY <1>1
    <1>3. News(p) \in Nat
        BY <1>1, NewsIs
    <1>4. size \in Nat /\ N <= size
        BY <1>2, <1>3
    <1>5. u = [b \in 1..size |-> IF at(b) = {} THEN session[b] ELSE put(b, CHOOSE i \in at(b) : TRUE)]
        BY DEF Updated
    <1>6. ASSUME NEW j \in 1..m
          PROVE  p[j].node \in 1..size /\ (p[j].new \/ p[j].node \in DOMAIN session)
        <2>1. Fits(session, map, d, claims[j], p[j]) /\ p[j].node <= size
            BY DEF PushedOK
        <2>2. p[j].node \in Nat /\ (p[j].new => p[j].node > N) /\ (~ p[j].new => p[j].node \in DOMAIN session)
            BY <2>1 DEF Fits
        <2> HIDE DEF size
        <2> QED BY <1>2, <1>4, <2>1, <2>2
    <1>7. ASSUME NEW b \in 1..size, at(b) = {}
          PROVE  b \in 1..N /\ u[b] = session[b]
        <2>1. \A j \in 1..m : p[j].node # b
            BY <1>2, <1>7
        <2>2. b \notin (N + 1)..size
            BY <2>1 DEF PushedOK
        <2>3. u[b] = session[b]
            BY <1>5, <1>7
        <2> HIDE DEF u, at, put
        <2> QED BY <1>2, <1>3, <2>2, <2>3
    <1>8. ASSUME NEW j \in 1..m
          PROVE  u[p[j].node] = put(p[j].node, j)
        <2>1. at(p[j].node) = {j}
            BY <1>2 DEF PushedOK
        <2>2. p[j].node \in 1..size
            BY <1>6
        <2> HIDE DEF put, at
        <2> QED BY <1>5, <2>1, <2>2
    <1>9. ASSUME NEW j \in 1..m
          PROVE  put(p[j].node, j) \in Node
        <2>1. p[j] \in PushedOnes
            BY <1>2
        <2>2. ~ p[j].new => session[p[j].node] \in Node
            BY <1>2, <1>6
        <2> QED BY <2>1, <2>2 DEF PushedOnes, Node, Claim, Ids
    <1>10. \A b \in 1..size : u[b] \in Node
        <2> TAKE b \in 1..size
        <2>1. CASE at(b) = {}
            <3>1. b \in 1..N /\ u[b] = session[b]
                BY <1>7, <2>1
            <3> HIDE DEF u
            <3> QED BY <1>2, <3>1
        <2>2. CASE at(b) # {}
            <3>1. PICK j \in 1..m : p[j].node = b
                BY <1>2, <2>2
            <3> HIDE DEF put, u
            <3> QED BY <1>8, <1>9, <3>1
        <2> QED BY <2>1, <2>2
    <1>11. u \in Seq(Node) /\ Len(u) = size
        <2> HIDE DEF at, put
        <2>1. DOMAIN u = 1..size /\ u = [b \in 1..size |-> u[b]]
            BY <1>5
        <2> HIDE DEF u, size
        <2> QED BY <1>4, <1>10, <2>1
    <1>12. ASSUME NEW j \in 1..m
           PROVE  LET b == p[j].node
                      v == u[b]
                  IN  /\ b \in 1..size
                      /\ v.doc = d /\ v.title = p[j].title /\ v.note = p[j].note
                      /\ v.id = p[j].id /\ v.written = p[j].id
                      /\ v.path = IF p[j].new THEN NoId ELSE session[b].path
        <2> DEFINE b == p[j].node
                   v == u[b]
        <2>1. v = put(b, j)
            BY <1>8
        <2> HIDE DEF u, v
        <2>2. /\ v.doc = d /\ v.title = p[j].title /\ v.note = p[j].note
              /\ v.id = p[j].id /\ v.written = p[j].id
              /\ v.path = IF p[j].new THEN NoId ELSE session[b].path
            BY <2>1
        <2> QED BY <1>6, <2>2 DEF v
    <1>13. ASSUME NEW b \in 1..size, \A j \in 1..m : p[j].node # b
           PROVE  b \in DOMAIN session /\ u[b] = session[b]
        <2>1. at(b) = {}
            BY <1>2, <1>13
        <2> HIDE DEF u, at
        <2> QED BY <1>2, <1>7, <2>1
    <1> HIDE DEF at, put, u
    <1> QED BY <1>4, <1>11, <1>12, <1>13 DEF After, u

\* What was stored for a node is only given to that one again, and a Bref that
\* was stored stays.
LEMMA Stored ==
    ASSUME NEW session, NEW map, Coherent(session, map), NEW d, NEW claims, NEW p,
           PushedOK(session, map, d, claims, p), NEW j \in 1..Len(p), NEW c \in DOMAIN session
    PROVE  /\ session[c].written = p[j].id => c = p[j].node
           /\ session[c].written = c /\ c = p[j].node => p[j].id = c
    <1> DEFINE t == p[j].id
               b == p[j].node
    <1>1. Fits(session, map, d, claims[j], p[j])
        BY DEF PushedOK
    <1>2. session \in Seq(Node) /\ OwnNames(session)
        BY DEF Coherent
    <1>3. b \in Nat /\ t \in Titles \union {b} /\ (t # b => Only(session, map, t, b))
        BY <1>1 DEF Fits
    <1>4. c \in Nat /\ session[c].written \in Titles \union {c} /\ session[c].id \in {session[c].written, c}
          /\ c <= Len(session) /\ Len(session) \in Nat
        BY <1>2 DEF OwnNames
    <1>5. ASSUME session[c].written = t PROVE c = b
        <2> HIDE DEF t, b
        <2>1. CASE t = b
            <3>1. b \notin Titles /\ session[c].written = b
                BY <1>3, <1>5, <2>1, NumbersApart
            <3> QED BY <1>4, <3>1
        <2>2. CASE t # b
            <3>1. StoredOnly(session, map, t, b)
                BY <1>3, <2>2, Holder, NumbersApart
            <3> QED BY <1>5, <3>1 DEF StoredOnly
        <2> QED BY <2>1, <2>2
    <1>6. ASSUME session[c].written = c, c = b PROVE t = c
        <2>1. ~ p[j].new => t \in {session[c].id, session[c].written, b}
            BY <1>1, <1>6 DEF Fits
        <2>2. p[j].new => b > Len(session)
            BY <1>1 DEF Fits
        <2> QED BY <1>4, <1>6, <2>1, <2>2
    <1> QED BY <1>5, <1>6

LEMMA MapsGrow ==
    ASSUME NEW n \in Nat, NEW k \in Nat, n <= k
    PROVE  Maps(n) \subseteq Maps(k)
    <1>1. Docs \union 1..n \subseteq Docs \union 1..k
        OBVIOUS
    <1> QED BY <1>1 DEF Maps

LEMMA UpdatedCoherent ==
    ASSUME NEW session, NEW map, Coherent(session, map), NEW d \in Docs, NEW claims, NEW p,
           PushedOK(session, map, d, claims, p)
    PROVE  Coherent(Updated(session, d, p), map)
    <1> DEFINE N == Len(session)
               m == Len(p)
               size == N + News(p)
               u == Updated(session, d, p)
    <1>1. session \in Seq(Node) /\ map \in Maps(N) /\ OwnNames(session) /\ Apart(session) /\ DocsKeep(session, map)
        BY DEF Coherent
    <1>a. After(session, d, p, u)
        BY <1>1, UpdatedIs
    <1> HIDE DEF u
    <1>2. u \in Seq(Node) /\ Len(u) = size /\ size \in Nat /\ N <= size /\ N \in Nat
        BY <1>1, <1>a DEF After
    <1>3. \A j \in 1..m : u[p[j].node].id = p[j].id /\ u[p[j].node].written = p[j].id
        BY <1>a DEF After
    <1>4. \A b \in 1..size : (\A j \in 1..m : p[j].node # b) => b \in DOMAIN session /\ u[b] = session[b]
        BY <1>a DEF After
    <1>5. \A j \in 1..m : Fits(session, map, d, claims[j], p[j])
        BY DEF PushedOK
    <1>6. ASSUME NEW b \in 1..size
          PROVE  \/ b \in DOMAIN session /\ u[b] = session[b]
                 \/ \E j \in 1..m : p[j].node = b
        BY <1>4
    <1> HIDE DEF u, size, N
    <1>7. DOMAIN u = 1..size
        BY <1>2
    <1>8. map \in Maps(size)
        BY <1>1, <1>2, MapsGrow
    <1>9. OwnNames(u)
        <2>1. ASSUME NEW b \in 1..size
              PROVE  u[b].written \in Titles \union {b} /\ u[b].id \in {u[b].written, b}
            <3>1. CASE b \in DOMAIN session /\ u[b] = session[b]
                BY <1>1, <3>1 DEF OwnNames
            <3>2. CASE \E j \in 1..m : p[j].node = b
                <4>1. PICK j \in 1..m : p[j].node = b
                    BY <3>2
                <4> QED BY <1>3, <1>5, <4>1 DEF Fits
            <3> QED BY <1>6, <3>1, <3>2
        <2> QED BY <1>7, <2>1 DEF OwnNames
    <1>10. Apart(u)
        <2>1. ASSUME NEW b \in 1..size, NEW c \in 1..size, u[b].written = u[c].written
              PROVE  b = c
            <3>1. ASSUME NEW j \in 1..m, p[j].node = b, c \in DOMAIN session, u[c] = session[c] PROVE b = c
                BY <1>3, <2>1, <3>1, Stored
            <3>2. ASSUME NEW j \in 1..m, p[j].node = c, b \in DOMAIN session, u[b] = session[b] PROVE b = c
                BY <1>3, <2>1, <3>2, Stored
            <3>3. ASSUME NEW j \in 1..m, p[j].node = b, NEW k \in 1..m, p[k].node = c PROVE b = c
                <4>1. p[j].id = p[k].id
                    BY <1>3, <2>1, <3>3
                <4> QED BY <3>3, <4>1 DEF PushedOK
            <3>4. CASE b \in DOMAIN session /\ u[b] = session[b] /\ c \in DOMAIN session /\ u[c] = session[c]
                BY <1>1, <2>1, <3>4 DEF Apart
            <3> QED BY <1>6, <3>1, <3>2, <3>3, <3>4
        <2> QED BY <1>7, <2>1 DEF Apart
    <1>11. DocsKeep(u, map)
        <2>1. ASSUME NEW x \in DOMAIN map, map[x] \in Docs
              PROVE  x = DocTitle[map[x]] /\ \A b \in 1..size : u[b].id # x
            <3>1. x = DocTitle[map[x]] /\ \A b \in DOMAIN session : session[b].id # x
                BY <1>1, <2>1 DEF DocsKeep
            <3>2. x \in Titles
                BY <2>1, <3>1, IdentityAssumption
            <3>3. ASSUME NEW b \in 1..size, u[b].id = x PROVE FALSE
                <4>1. CASE b \in DOMAIN session /\ u[b] = session[b]
                    BY <3>1, <3>3, <4>1
                <4>2. CASE \E j \in 1..m : p[j].node = b
                    <5>1. PICK j \in 1..m : p[j].node = b
                        BY <4>2
                    <5>2. p[j].id = x /\ b \in Nat
                        BY <1>2, <1>3, <3>3, <5>1
                    <5>3. x # b
                        BY <3>2, <5>2, NumbersApart
                    <5>4. Only(session, map, x, b)
                        BY <1>5, <5>1, <5>2, <5>3 DEF Fits
                    <5>5. StoredOnly(session, map, x, b)
                        BY <5>2, <5>4, Holder, NumbersApart
                    <5> QED BY <2>1, <5>5 DEF StoredOnly
                <4> QED BY <1>6, <4>1, <4>2
            <3> QED BY <3>1, <3>3
        <2> QED BY <1>7, <2>1 DEF DocsKeep
    <1> QED BY <1>2, <1>8, <1>9, <1>10, <1>11 DEF Coherent, u, N

-----------------------------------------------------------------------------
(* What is heard of paths.                                                 *)

LEMMA NamedIs ==
    ASSUME NEW n \in Nat, NEW map \in Maps(n), NEW id \in Ids, NEW b \in Docs \union 1..n
    PROVE  /\ Named(map, id, b) \in Maps(n)
           /\ id \in DOMAIN Named(map, id, b) /\ Named(map, id, b)[id] = b
           /\ \A x \in DOMAIN map : map[x] # b /\ x # id
                => x \in DOMAIN Named(map, id, b) /\ Named(map, id, b)[x] = map[x]
           /\ \A x \in DOMAIN Named(map, id, b) : x # id
                => x \in DOMAIN map /\ map[x] # b /\ Named(map, id, b)[x] = map[x]
    <1> DEFINE S == {x \in DOMAIN map : map[x] # b}
               e == Named(map, id, b)
    <1>1. e = [y \in S \union {id} |-> IF y = id THEN b ELSE map[y]]
        <2>1. DOMAIN Restricted(map, S) = S /\ \A y \in S : Restricted(map, S)[y] = map[y]
            BY DEF Restricted
        <2>2. e = With(Restricted(map, S), id, b)
            BY DEF Named
        <2> HIDE DEF S, e
        <2>3. e = [y \in S \union {id} |-> IF y = id THEN b ELSE Restricted(map, S)[y]]
            BY <2>1, <2>2 DEF With
        <2> QED BY <2>1, <2>3
    <1>2. S \union {id} \in SUBSET Ids /\ \A y \in S : map[y] \in Docs \union 1..n
        BY MapsTo
    <1>3. e \in [S \union {id} -> Docs \union 1..n]
        <2> HIDE DEF S, e
        <2> QED BY <1>1, <1>2
    <1>4. e \in Maps(n)
        <2> HIDE DEF S, e
        <2> QED BY <1>2, <1>3 DEF Maps
    <1> HIDE DEF e
    <1> QED BY <1>1, <1>4 DEF e

\* Only the paths of nodes change, and documents keep their identifiers.
SameButPaths(nodes, heard) ==
    /\ heard \in Seq(Node) /\ Len(heard) = Len(nodes)
    /\ \A b \in 1..Len(nodes) :
          /\ heard[b].doc = nodes[b].doc /\ heard[b].title = nodes[b].title
          /\ heard[b].id = nodes[b].id /\ heard[b].written = nodes[b].written
          /\ heard[b].note = nodes[b].note
DocsStay(map, heard) ==
    \A x \in DOMAIN map : map[x] \in Docs => x \in DOMAIN heard /\ heard[x] = map[x]
HeardOK(nodes, map, state) ==
    /\ SameButPaths(nodes, state.nodes) /\ state.map \in Maps(Len(nodes))
    /\ DocsKeep(nodes, state.map) /\ DocsStay(map, state.map)

LEMMA PathHeardIs ==
    ASSUME NEW nodes \in Seq(Node), NEW map, NEW state, HeardOK(nodes, map, state),
           NEW b \in 1..Len(nodes)
    PROVE  HeardOK(nodes, map, PathHeard(state, b))
    <1> DEFINE n == Len(nodes)
               v == state.nodes
               name == Name(b, v[b].id, v[b].title)
               taken == \E c \in DOMAIN v \ {b} : v[c].doc = v[b].doc /\ v[c].path = name
               path == IF taken THEN b ELSE name
               w == [v EXCEPT ![b].path = path]
               e == Named(state.map, v[b].id, b)
    <1>1. SameButPaths(nodes, v) /\ state.map \in Maps(n) /\ DocsKeep(nodes, state.map) /\ DocsStay(map, state.map)
        BY DEF HeardOK
    <1>2. n \in Nat /\ DOMAIN nodes = 1..n /\ b \in Nat /\ b \notin Docs
        BY NumbersApart
    <1>3. PathHeard(state, b) = IF path = v[b].path THEN state ELSE [nodes |-> w, map |-> e]
        BY DEF PathHeard
    <1>4. v \in Seq(Node) /\ Len(v) = n /\ DOMAIN v = 1..n /\ v[b] \in Node /\ v[b].id = nodes[b].id
        BY <1>1 DEF SameButPaths
    <1>5. v[b].id \in Ids /\ name \in Claim
        BY <1>4 DEF Node, Name, Claim, Ids
    <1> HIDE DEF v, n
    <1>6. path \in Claim
        BY <1>2, <1>5 DEF Claim, Ids
    <1>7. SameButPaths(nodes, w)
        <2> HIDE DEF path
        <2>1. DOMAIN w = 1..n /\ \A c \in 1..n : w[c] = IF c = b THEN [v[b] EXCEPT !.path = path] ELSE v[c]
            BY <1>4
        <2>2. [v[b] EXCEPT !.path = path] \in Node
            BY <1>4, <1>6 DEF Node
        <2>3. w = [c \in 1..n |-> w[c]]
            BY <1>4
        <2> HIDE DEF w
        <2>4. \A c \in 1..n : v[c] \in Node
            BY <1>4
        <2>5. w \in Seq(Node) /\ Len(w) = n
            <3>1. \A c \in 1..n : w[c] \in Node
                BY <2>1, <2>2, <2>4
            <3>2. n \in Nat
                BY <1>2 DEF n
            <3> QED BY <2>1, <2>3, <3>1, <3>2
        <2>6. ASSUME NEW c \in 1..n
              PROVE  /\ w[c].doc = nodes[c].doc /\ w[c].title = nodes[c].title
                     /\ w[c].id = nodes[c].id /\ w[c].written = nodes[c].written
                     /\ w[c].note = nodes[c].note
            <3>1. /\ w[c].doc = v[c].doc /\ w[c].title = v[c].title
                  /\ w[c].id = v[c].id /\ w[c].written = v[c].written
                  /\ w[c].note = v[c].note
                BY <1>4, <2>1 DEF Node
            <3> QED BY <1>1, <3>1 DEF SameButPaths, n
        <2> QED BY <2>5, <2>6 DEF SameButPaths, n
    <1> HIDE DEF w
    <1>8. b \in Docs \union 1..n
        BY DEF n
    <1>9. e \in Maps(n)
        BY <1>1, <1>2, <1>5, <1>8, NamedIs
    <1>10. DocsStay(map, e)
        <2>1. ASSUME NEW x \in DOMAIN map, map[x] \in Docs
              PROVE  x \in DOMAIN e /\ e[x] = map[x]
            <3>1. x \in DOMAIN state.map /\ state.map[x] = map[x]
                BY <1>1, <2>1 DEF DocsStay
            <3>2. x # v[b].id
                BY <1>1, <1>4, <2>1, <3>1 DEF DocsKeep, n
            <3>3. state.map[x] # b
                BY <1>2, <2>1, <3>1
            <3> QED BY <1>1, <1>2, <1>5, <1>8, <3>1, <3>2, <3>3, NamedIs
        <2> QED BY <2>1 DEF DocsStay
    <1>11. DocsKeep(nodes, e)
        <2>1. ASSUME NEW x \in DOMAIN e, e[x] \in Docs
              PROVE  x \in DOMAIN state.map /\ state.map[x] = e[x]
            <3>1. e[v[b].id] = b
                BY <1>1, <1>2, <1>5, <1>8, NamedIs
            <3>2. x # v[b].id
                BY <1>2, <2>1, <3>1
            <3> QED BY <1>1, <1>2, <1>5, <1>8, <3>2, NamedIs
        <2> HIDE DEF e
        <2> QED BY <1>1, <2>1 DEF DocsKeep
    <1> HIDE DEF e, path
    <1>12. CASE path = v[b].path
        BY <1>3, <1>12
    <1>13. CASE path # v[b].path
        <2>1. PathHeard(state, b) = [nodes |-> w, map |-> e]
            BY <1>3, <1>13
        <2>2. PathHeard(state, b).nodes = w /\ PathHeard(state, b).map = e
            BY <2>1
        <2> QED BY <1>7, <1>9, <1>10, <1>11, <2>2 DEF HeardOK, n
    <1> QED BY <1>12, <1>13

LEMMA HeardCoherent ==
    ASSUME NEW nodes, NEW map, Coherent(nodes, map), NEW state, HeardOK(nodes, map, state)
    PROVE  Coherent(state.nodes, state.map)
    <1> DEFINE n == Len(nodes)
               v == state.nodes
    <1>1. nodes \in Seq(Node) /\ OwnNames(nodes) /\ Apart(nodes)
        BY DEF Coherent
    <1>2. SameButPaths(nodes, v) /\ state.map \in Maps(n) /\ DocsKeep(nodes, state.map)
        BY DEF HeardOK
    <1>3. DOMAIN nodes = 1..n /\ DOMAIN v = 1..n /\ v \in Seq(Node) /\ Len(v) = n
        BY <1>1, <1>2 DEF SameButPaths
    <1>4. \A b \in 1..n : v[b].id = nodes[b].id /\ v[b].written = nodes[b].written
        BY <1>2 DEF SameButPaths
    <1> HIDE DEF n, v
    <1>5. OwnNames(v)
        BY <1>1, <1>3, <1>4 DEF OwnNames
    <1>6. Apart(v)
        BY <1>1, <1>3, <1>4 DEF Apart
    <1>7. DocsKeep(v, state.map)
        BY <1>2, <1>3, <1>4 DEF DocsKeep
    <1> QED BY <1>2, <1>3, <1>5, <1>6, <1>7 DEF Coherent, n, v

LEMMA HearingDefined ==
    ASSUME NEW nodes \in Seq(Node), NEW map \in Maps(Len(nodes)), DocsKeep(nodes, map),
           NEW order \in Seq(1..Len(nodes))
    PROVE  /\ Hearing(nodes, map, order)[0] = [nodes |-> nodes, map |-> map]
           /\ \A i \in 1..Len(order) :
                 Hearing(nodes, map, order)[i] = PathHeard(Hearing(nodes, map, order)[i - 1], order[i])
           /\ \A i \in 0..Len(order) : HeardOK(nodes, map, Hearing(nodes, map, order)[i])
    <1> DEFINE k == Len(order)
               S == {s \in [nodes : Seq(Node), map : Maps(Len(nodes))] : HeardOK(nodes, map, s)}
               base == [nodes |-> nodes, map |-> map]
               next(s, i) == PathHeard(s, order[i])
               step == [i \in 1..k |-> [s \in S |-> next(s, i)]]
               h == Hearing(nodes, map, order)
    <1>1. k \in Nat /\ \A i \in 1..k : order[i] \in 1..Len(nodes)
        OBVIOUS
    <1>2. HeardOK(nodes, map, base)
        <2>1. base.nodes = nodes /\ base.map = map
            OBVIOUS
        <2> HIDE DEF base
        <2> QED BY <2>1 DEF HeardOK, SameButPaths, DocsStay
    <1>3. base \in S
        BY <1>2
    <1>4. \A i \in 1..k, s \in S : next(s, i) \in S /\ HeardOK(nodes, map, next(s, i))
        <2> TAKE i \in 1..k, s \in S
        <2>1. HeardOK(nodes, map, next(s, i))
            BY <1>1, PathHeardIs
        <2>2. s \in [nodes : Seq(Node), map : Maps(Len(nodes))]
            OBVIOUS
        <2>3. next(s, i).nodes \in Seq(Node) /\ next(s, i).map \in Maps(Len(nodes))
            BY <2>1 DEF HeardOK, SameButPaths
        <2>4. next(s, i) = s \/ next(s, i) = [nodes |-> next(s, i).nodes, map |-> next(s, i).map]
            BY DEF PathHeard
        <2>5. next(s, i) \in [nodes : Seq(Node), map : Maps(Len(nodes))]
            <3> HIDE DEF next
            <3> QED BY <2>2, <2>3, <2>4
        <2> QED BY <2>1, <2>5
    <1> HIDE DEF next, S, base
    <1>5. step \in Steps(S, k)
        BY <1>4 DEF Steps
    <1>6. \E f : Repeated(S, k, base, step, f)
        <2> HIDE DEF step, k
        <2>1. k \in Nat
            BY <1>1
        <2> QED BY <1>3, <1>5, <2>1, RecursionExists
    <1>7. PICK f \in [0..k -> S] : f[0] = base /\ \A i \in 1..k : f[i] = step[i][f[i - 1]]
        <2> HIDE DEF step, k
        <2> QED BY <1>6 DEF Repeated
    <1>8. \A i \in 1..k : f[i] = next(f[i - 1], i)
        <2> TAKE i \in 1..k
        <2>1. f[i - 1] \in S
            <3>1. i - 1 \in 0..k
                BY <1>1
            <3> HIDE DEF k
            <3> QED BY <1>7, <3>1
        <2> QED BY <1>7, <2>1
    <1> HIDE DEF step
    <1>9. \E g : g = [i \in 0..k |-> IF i = 0 THEN base ELSE next(g[i - 1], i)]
        <2>1. f = [i \in 0..k |-> IF i = 0 THEN base ELSE next(f[i - 1], i)]
            <3>1. \A i \in 0..k : i # 0 => i \in 1..k
                BY <1>1
            <3> QED BY <1>7, <1>8, <3>1
        <2> QED BY <2>1
    <1>10. h = [i \in 0..k |-> IF i = 0 THEN base ELSE next(h[i - 1], i)]
        BY <1>9 DEF Hearing, next, base
    <1>11. 0 \in 0..k /\ \A i \in 1..k : i \in 0..k /\ i # 0
        BY <1>1
    <1> HIDE DEF h
    <1>12. h[0] = base /\ \A i \in 1..k : h[i] = next(h[i - 1], i)
        BY <1>10, <1>11
    <1> DEFINE T == {i \in 0..k : h[i] \notin S}
    <1>13. ASSUME T # {} PROVE FALSE
        <2>1. PICK i \in T : \A j \in T : i <= j
            <3>1. T \in SUBSET Nat
                BY <1>1
            <3> HIDE DEF T
            <3> QED BY <1>13, <3>1, SmallestExists
        <2>2. i \in 1..k /\ i - 1 \in 0..k /\ ~ (i <= i - 1)
            BY <1>1, <1>3, <1>12, <2>1
        <2>3. h[i - 1] \in S
            BY <2>1, <2>2
        <2> QED BY <1>4, <1>12, <2>1, <2>2, <2>3
    <1>14. \A i \in 0..k : h[i] \in S
        BY <1>13
    <1>15. \A i \in 0..k : HeardOK(nodes, map, h[i])
        BY <1>14 DEF S
    <1> HIDE DEF k
    <1> QED BY <1>12, <1>15 DEF base, next, k, h

LEMMA HearingIs ==
    ASSUME NEW nodes \in Seq(Node), NEW map \in Maps(Len(nodes)), DocsKeep(nodes, map),
           NEW order \in Seq(1..Len(nodes))
    PROVE  HeardOK(nodes, map, Hearing(nodes, map, order)[Len(order)])
    <1>1. Len(order) \in 0..Len(order)
        OBVIOUS
    <1> QED BY <1>1, HearingDefined

-----------------------------------------------------------------------------
(* The session that a parse begins with.                                   *)

LEMMA ClobberedIs ==
    ASSUME Coherent(known, ids), NEW d \in Docs
    PROVE  /\ Coherent(Clobbered(d), Named(ids, DocTitle[d], d))
           /\ Len(Clobbered(d)) = Len(known)
           /\ \A b \in 1..Len(known) : LET s == Clobbered(d)[b]
                                       IN  /\ s.doc = known[b].doc /\ s.title = known[b].title
                                           /\ s.written = known[b].written /\ s.note = known[b].note
           /\ DocTitle[d] \in DOMAIN Named(ids, DocTitle[d], d)
           /\ Named(ids, DocTitle[d], d)[DocTitle[d]] = d
           /\ \A x \in DOMAIN ids : ids[x] \in Docs \ {d} =>
                 x \in DOMAIN Named(ids, DocTitle[d], d) /\ Named(ids, DocTitle[d], d)[x] = ids[x]
    <1> DEFINE n == Len(known)
               t == DocTitle[d]
               s == Clobbered(d)
               map == Named(ids, t, d)
               having == Having(known, ids, t)
    <1>1. known \in Seq(Node) /\ ids \in Maps(n) /\ OwnNames(known) /\ Apart(known) /\ DocsKeep(known, ids)
        BY DEF Coherent
    <1>2. n \in Nat /\ DOMAIN known = 1..n /\ \A b \in 1..n : known[b] \in Node
        BY <1>1
    <1>3. t \in Titles /\ t \in Ids /\ d \in Docs \union 1..n
        BY IdentityAssumption DEF Ids
    <1>4. s = [b \in 1..n |-> IF b \in having THEN [known[b] EXCEPT !.id = b] ELSE known[b]]
        BY <1>2 DEF Clobbered
    <1>5. /\ map \in Maps(n) /\ t \in DOMAIN map /\ map[t] = d
          /\ \A x \in DOMAIN ids : ids[x] # d /\ x # t => x \in DOMAIN map /\ map[x] = ids[x]
          /\ \A x \in DOMAIN map : x # t => x \in DOMAIN ids /\ ids[x] # d /\ map[x] = ids[x]
        BY <1>1, <1>2, <1>3, NamedIs
    <1> HIDE DEF n, s, map, having
    <1>6. ASSUME NEW b \in 1..n
          PROVE  /\ s[b] \in Node
                 /\ s[b].doc = known[b].doc /\ s[b].title = known[b].title
                 /\ s[b].written = known[b].written /\ s[b].note = known[b].note
                 /\ s[b].id = IF b \in having THEN b ELSE known[b].id
        <2>1. known[b] \in Node /\ b \in Nat
            BY <1>2
        <2> QED BY <1>4, <2>1 DEF Node, Ids
    <1>7. s \in Seq(Node) /\ Len(s) = n /\ DOMAIN s = 1..n
        BY <1>2, <1>4, <1>6
    <1>8. OwnNames(s) /\ Apart(s)
        <2>1. OwnNames(s)
            BY <1>1, <1>2, <1>6, <1>7 DEF OwnNames
        <2>2. Apart(s)
            BY <1>1, <1>2, <1>6, <1>7 DEF Apart
        <2> QED BY <2>1, <2>2
    <1>9. ASSUME NEW b \in 1..n, s[b].id = t PROVE FALSE
        <2>1. t # b /\ b \in Nat
            BY <1>2, <1>3, NumbersApart
        <2>2. b \notin having /\ known[b].id = t
            BY <1>6, <1>9, <2>1
        <2>3. known[b].written = t
            BY <1>1, <1>2, <2>1, <2>2 DEF OwnNames
        <2> DEFINE listed == IF t \in DOMAIN ids THEN {ids[t]} ELSE {}
                   agreed == {x \in listed : x \in Docs \/ known[x].id = t}
        <2>4. having = IF agreed # {} THEN agreed ELSE {x \in DOMAIN known : known[x].written = t}
            BY DEF Having, having
        <2>5. CASE agreed = {}
            BY <1>2, <2>2, <2>3, <2>4, <2>5
        <2>6. CASE agreed # {}
            <3>1. t \in DOMAIN ids /\ having = {ids[t]} /\ (ids[t] \in Docs \/ known[ids[t]].id = t)
                BY <2>4, <2>6
            <3>2. ids[t] \notin Docs
                BY <1>1, <1>2, <2>2, <3>1 DEF DocsKeep
            <3>3. ids[t] \in 1..n
                BY <1>1, <1>2, <3>1, <3>2, MapsTo
            <3>4. t # ids[t]
                <4>1. ids[t] \in Nat
                    BY <1>2, <3>3
                <4> QED BY <1>3, <4>1, NumbersApart
            <3>5. known[ids[t]].written = t
                BY <1>1, <1>2, <3>1, <3>2, <3>3, <3>4 DEF OwnNames
            <3> QED BY <1>1, <1>2, <2>2, <2>3, <3>1, <3>3, <3>5 DEF Apart
        <2> QED BY <2>5, <2>6
    <1>10. DocsKeep(s, map)
        <2>1. ASSUME NEW x \in DOMAIN map, map[x] \in Docs
              PROVE  x = DocTitle[map[x]] /\ \A b \in 1..n : s[b].id # x
            <3>1. CASE x = t
                BY <1>5, <1>9, <3>1
            <3>2. CASE x # t
                <4>1. x = DocTitle[map[x]] /\ \A b \in 1..n : known[b].id # x
                    BY <1>1, <1>2, <1>5, <2>1, <3>2 DEF DocsKeep
                <4>2. x \in Titles
                    BY <2>1, <4>1, IdentityAssumption
                <4>3. \A b \in 1..n : b # x
                    BY <1>2, <4>2, NumbersApart
                <4> QED BY <1>6, <4>1, <4>3
            <3> QED BY <3>1, <3>2
        <2> QED BY <1>7, <2>1 DEF DocsKeep
    <1>11. Coherent(s, map)
        BY <1>5, <1>7, <1>8, <1>10 DEF Coherent
    <1>12. ASSUME NEW x \in DOMAIN ids, ids[x] \in Docs \ {d}
           PROVE  x \in DOMAIN map /\ map[x] = ids[x]
        <2>1. x = DocTitle[ids[x]]
            BY <1>1, <1>12 DEF DocsKeep
        <2>2. x # t
            BY <1>12, <2>1, IdentityAssumption
        <2> QED BY <1>5, <1>12, <2>2
    <1> QED BY <1>5, <1>6, <1>7, <1>11, <1>12 DEF n, s, map

-----------------------------------------------------------------------------
(* What a parse leaves in the session and the identifiers.                 *)

\* The headings have what was pushed; nodes of other documents keep what is
\* stored, Brefs that are stored stay, and documents keep their identifiers.
Parsed(d, p, nodes, map) ==
    /\ Coherent(nodes, map) /\ Len(known) <= Len(nodes)
    /\ \A j \in 1..Len(p) : LET b == p[j].node
                            IN  /\ b \in DOMAIN nodes /\ nodes[b].doc = d
                                /\ nodes[b].id = p[j].id /\ nodes[b].written = p[j].id
                                /\ nodes[b].note = p[j].note
    /\ \A b \in DOMAIN known : known[b].doc # d =>
          /\ nodes[b].doc = known[b].doc /\ nodes[b].id = Clobbered(d)[b].id
          /\ nodes[b].written = known[b].written /\ nodes[b].note = known[b].note
    /\ \A b \in DOMAIN known : known[b].written = b => nodes[b].written = b
    /\ DocTitle[d] \in DOMAIN map /\ map[DocTitle[d]] = d
    /\ \A x \in DOMAIN ids : ids[x] \in Docs \ {d} => x \in DOMAIN map /\ map[x] = ids[x]

LEMMA ParsedIs ==
    ASSUME Coherent(known, ids), NEW d \in Docs, NEW claims, NEW p,
           PushedOK(Clobbered(d), Named(ids, DocTitle[d], d), d, claims, p), NEW state,
           HeardOK(Updated(Clobbered(d), d, p), Named(ids, DocTitle[d], d), state)
    PROVE  Parsed(d, p, state.nodes, state.map)
    <1> DEFINE n == Len(known)
               t == DocTitle[d]
               s == Clobbered(d)
               map == Named(ids, t, d)
               u == Updated(s, d, p)
               v == state.nodes
               e == state.map
    <1>1. known \in Seq(Node) /\ DOMAIN known = 1..n /\ n \in Nat
        BY DEF Coherent
    <1>2. Coherent(s, map) /\ Len(s) = n /\ t \in DOMAIN map /\ map[t] = d
          /\ (\A x \in DOMAIN ids : ids[x] \in Docs \ {d} => x \in DOMAIN map /\ map[x] = ids[x])
        BY ClobberedIs
    <1>3. \A b \in 1..n : /\ s[b].doc = known[b].doc /\ s[b].written = known[b].written
                          /\ s[b].note = known[b].note
        BY ClobberedIs
    <1>4. s \in Seq(Node) /\ DOMAIN s = 1..n
        <2>1. s \in Seq(Node)
            BY <1>2 DEF Coherent
        <2> HIDE DEF s
        <2> QED BY <1>2, <2>1
    <1>5. After(s, d, p, u)
        BY <1>4, UpdatedIs
    <1>6. Coherent(u, map)
        BY <1>2, UpdatedCoherent
    <1>7. HeardOK(u, map, state)
        OBVIOUS
    <1>8. \A j \in 1..Len(p) : Fits(s, map, d, claims[j], p[j])
        BY DEF PushedOK
    <1>9. ASSUME NEW j \in 1..Len(p), NEW c \in 1..n
          PROVE  s[c].written = c /\ c = p[j].node => p[j].id = c
        BY <1>2, <1>4, Stored
    <1> HIDE DEF s, map, u, v, e, t
    <1>10. Coherent(v, e)
        BY <1>6, <1>7, HeardCoherent DEF v, e
    <1> DEFINE size == Len(u)
    <1>11. size \in Nat /\ n <= size /\ Len(v) = size /\ DOMAIN v = 1..size /\ size = Len(s) + News(p)
        <2>1. Len(u) = Len(s) + News(p) /\ Len(s) + News(p) \in Nat /\ Len(s) <= Len(s) + News(p)
            BY <1>5 DEF After
        <2>2. v \in Seq(Node) /\ Len(v) = Len(u)
            BY <1>7 DEF HeardOK, SameButPaths, v
        <2> HIDE DEF n
        <2> QED BY <1>2, <2>1, <2>2
    <1>12. ASSUME NEW b \in 1..size
           PROVE  /\ v[b].doc = u[b].doc /\ v[b].id = u[b].id
                  /\ v[b].written = u[b].written /\ v[b].note = u[b].note
        BY <1>7 DEF HeardOK, SameButPaths, v
    <1>13. ASSUME NEW j \in 1..Len(p)
           PROVE  /\ p[j].node \in 1..size /\ u[p[j].node].doc = d /\ u[p[j].node].note = p[j].note
                  /\ u[p[j].node].id = p[j].id /\ u[p[j].node].written = p[j].id
        BY <1>5, <1>11 DEF After
    <1>14. ASSUME NEW b \in 1..size, \A j \in 1..Len(p) : p[j].node # b PROVE u[b] = s[b]
        BY <1>5, <1>11, <1>14 DEF After
    <1> HIDE DEF size, n
    <1>15. \A b \in 1..n : b \in 1..size
        BY <1>1, <1>11
    <1>16. ASSUME NEW b \in 1..n, known[b].doc # d
           PROVE  /\ v[b].doc = known[b].doc /\ v[b].id = s[b].id
                  /\ v[b].written = known[b].written /\ v[b].note = known[b].note
        <2>1. ASSUME NEW j \in 1..Len(p), p[j].node = b PROVE FALSE
            <3>1. Fits(s, map, d, claims[j], p[j])
                BY <1>8
            <3>2. s[b].doc = d \/ b > Len(s)
                BY <2>1, <3>1 DEF Fits, PushedOK, PushedOnes
            <3>3. b \in Nat /\ b <= n
                BY <1>1
            <3> QED BY <1>1, <1>2, <1>3, <1>16, <3>2, <3>3
        <2>2. u[b] = s[b]
            BY <1>14, <1>15, <2>1
        <2> QED BY <1>3, <1>12, <1>15, <2>2
    <1>17. ASSUME NEW b \in 1..n, known[b].written = b
           PROVE  v[b].written = b
        <2>1. s[b].written = b
            BY <1>3, <1>17
        <2>2. CASE \E j \in 1..Len(p) : p[j].node = b
            BY <1>9, <1>12, <1>13, <1>15, <2>1, <2>2
        <2>3. CASE \A j \in 1..Len(p) : p[j].node # b
            BY <1>12, <1>14, <1>15, <2>1, <2>3
        <2> QED BY <2>2, <2>3
    <1>18. t \in DOMAIN e /\ e[t] = d
           /\ \A x \in DOMAIN ids : ids[x] \in Docs \ {d} => x \in DOMAIN e /\ e[x] = ids[x]
        BY <1>2, <1>7 DEF HeardOK, DocsStay, e
    <1>19. \A j \in 1..Len(p) : /\ p[j].node \in DOMAIN v /\ v[p[j].node].doc = d
                                /\ v[p[j].node].id = p[j].id /\ v[p[j].node].written = p[j].id
                                /\ v[p[j].node].note = p[j].note
        BY <1>11, <1>12, <1>13
    <1>20. Len(known) <= Len(v)
        BY <1>11 DEF n
    <1> QED BY <1>1, <1>10, <1>16, <1>17, <1>18, <1>19, <1>20 DEF Parsed, v, e, s, t

-----------------------------------------------------------------------------
(* The invariant.                                                          *)

TypeOK ==
    /\ text \in [Docs -> Seq(Texted)] /\ sections \in [Docs -> Tables]
    /\ known \in Seq(Node) /\ ids \in Maps(Len(known))
    /\ fresh \in SUBSET Docs /\ changes \in Nat

\* A number in a text is the Bref of a node that has it stored.
AnchorsOK(headings, nodes) == \A i \in 1..Len(headings) : headings[i].anchor \in Anchors(nodes)

\* A table of sections leads from what is stored for nodes of its document.
TableOK(d, table, nodes) ==
    \A x \in DOMAIN table : LET b == table[x].node
                            IN  b \in DOMAIN nodes /\ nodes[b].doc = d /\ nodes[b].written = x

\* A document that has not changed since its last parse has its identifier, and
\* its headings have those that are stored.
FreshOK(d, headings, nodes, map) ==
    /\ DocTitle[d] \in DOMAIN map /\ map[DocTitle[d]] = d
    /\ \A i \in 1..Len(headings) : LET b == headings[i].node
                                   IN  b \in DOMAIN nodes /\ nodes[b].doc = d /\ nodes[b].id = nodes[b].written

\* And its table names them (SectionsNameNodes of one document).
TableNames(headings, table, nodes) ==
    /\ \A x : x \in DOMAIN table <=> \E i \in 1..Len(headings) : x = nodes[headings[i].node].id
    /\ \A i \in 1..Len(headings) :
          LET b == headings[i].node
              entry == table[nodes[b].id]
          IN  entry.node = b /\ (entry.note # NoNote => nodes[b].note # NoNote)

IInv ==
    /\ TypeOK /\ Coherent(known, ids)
    /\ \A d \in Docs : AnchorsOK(text[d], known) /\ TableOK(d, sections[d], known)
    /\ \A d \in fresh : FreshOK(d, text[d], known, ids) /\ TableNames(text[d], sections[d], known)

\* The headings of a text after what was pushed.
Taken(old, p, headings) ==
    /\ headings \in Seq(Texted) /\ Len(headings) = Len(p) /\ Len(old) = Len(p)
    /\ \A i \in 1..Len(p) : headings[i].node = p[i].node /\ headings[i].anchor \in {p[i].id, old[i].anchor}

LEMMA AnchorsStay ==
    ASSUME NEW d, NEW p, NEW nodes, NEW map, Parsed(d, p, nodes, map),
           NEW old, AnchorsOK(old, known), known \in Seq(Node)
    PROVE  AnchorsOK(old, nodes)
    <1>1. nodes \in Seq(Node)
        BY DEF Parsed, Coherent
    <1>2. \A x \in DOMAIN known : known[x].written = x => nodes[x].written = x
        BY DEF Parsed
    <1>3. \A x \in DOMAIN known : x \in DOMAIN nodes
        BY <1>1 DEF Parsed
    <1>4. Anchors(known) \subseteq Anchors(nodes)
        BY <1>2, <1>3 DEF Anchors
    <1> QED BY <1>4 DEF AnchorsOK

\* The notes of a table are with what is pushed, and a table that leads from the
\* identifiers of what is pushed to their nodes.
NotesKept(table, p) ==
    \A i \in 1..Len(p) : p[i].note = NoNote /\ p[i].id \in DOMAIN table => table[p[i].id].note = NoNote
Tells(table, p) ==
    /\ \A x : x \in DOMAIN table <=> \E i \in 1..Len(p) : x = p[i].id
    /\ \A i \in 1..Len(p) : LET entry == table[p[i].id]
                            IN  /\ entry.node = p[i].node
                                /\ entry.note # NoNote => p[i].note # NoNote

\* The table of the document that is parsed.
LEMMA TableAfter ==
    ASSUME NEW d, NEW claims, NEW p, NEW nodes, NEW map, Parsed(d, p, nodes, map),
           NEW session, NEW old, Coherent(session, old), PushedOK(session, old, d, claims, p),
           Len(session) = Len(known), known \in Seq(Node),
           \A b \in 1..Len(known) : session[b].written = known[b].written,
           sections[d] \in Tables, TableOK(d, sections[d], known), NotesKept(sections[d], p)
    PROVE  SectionsAfter(d, p) \in Tables /\ Tells(SectionsAfter(d, p), p)
    <1> DEFINE m == Len(p)
               names == {q.id : q \in Range(p)}
               table == SectionsAfter(d, p)
               of(x) == CHOOSE q \in Range(p) : q.id = x
    <1>1. p \in Seq(PushedOnes)
        BY DEF PushedOK
    <1>2. m \in Nat /\ DOMAIN p = 1..m /\ \A i \in 1..m : p[i] \in PushedOnes /\ p[i] \in Range(p)
        BY <1>1 DEF Range
    <1>3. \A q \in Range(p) : \E i \in 1..m : q = p[i]
        BY <1>2 DEF Range
    <1>4. \A x : x \in names <=> \E i \in 1..m : x = p[i].id
        BY <1>2, <1>3
    <1>5. Sections(p) = [x \in names |-> [node |-> of(x).node, note |-> of(x).note]]
        BY DEF Sections
    <1>6. table = IF names = DOMAIN sections[d] THEN sections[d] ELSE Sections(p)
        BY <1>5 DEF SectionsAfter
    <1>7. ASSUME NEW i \in 1..m PROVE of(p[i].id) = p[i]
        <2>1. \A q \in Range(p) : q.id = p[i].id => q = p[i]
            BY <1>3 DEF PushedOK
        <2> QED BY <1>2, <2>1
    <1> HIDE DEF of, names, table
    <1>8. ASSUME NEW i \in 1..m
          PROVE  Sections(p)[p[i].id] = [node |-> p[i].node, note |-> p[i].note]
        BY <1>4, <1>5, <1>7
    <1>9. ASSUME NEW i \in 1..m, NEW c \in DOMAIN session, session[c].written = p[i].id
          PROVE  c = p[i].node
        BY <1>9, Stored
    <1>10. CASE names = DOMAIN sections[d]
        <2>1. table = sections[d]
            BY <1>6, <1>10
        <2>2. ASSUME NEW i \in 1..m
              PROVE  /\ table[p[i].id].node = p[i].node
                     /\ table[p[i].id].note # NoNote => p[i].note # NoNote
            <3> DEFINE b == sections[d][p[i].id].node
            <3>1. p[i].id \in DOMAIN sections[d]
                BY <1>4, <1>10
            <3>2. b \in DOMAIN known /\ known[b].written = p[i].id
                BY <3>1 DEF TableOK
            <3>3. session \in Seq(Node)
                BY DEF Coherent
            <3>4. b \in DOMAIN session /\ session[b].written = p[i].id
                BY <3>2, <3>3
            <3> HIDE DEF b
            <3>5. b = p[i].node
                BY <1>9, <3>4
            <3> QED BY <2>1, <3>1, <3>5 DEF b, NotesKept
        <2>3. \A x : x \in DOMAIN table <=> \E i \in 1..m : x = p[i].id
            BY <1>4, <1>10, <2>1
        <2>4. table \in Tables
            BY <2>1
        <2> QED BY <2>2, <2>3, <2>4 DEF table, Tells
    <1>11. CASE names # DOMAIN sections[d]
        <2>1. table = Sections(p)
            BY <1>6, <1>11
        <2>2. DOMAIN table = names
            BY <1>5, <2>1
        <2>3. \A i \in 1..m : table[p[i].id] = [node |-> p[i].node, note |-> p[i].note]
            BY <1>8, <2>1
        <2>4. table \in Tables
            <3>1. \A i \in 1..m : p[i].id \in Ids /\ [node |-> p[i].node, note |-> p[i].note] \in [node : Nat, note : Noting]
                BY <1>2 DEF PushedOnes
            <3>2. names \in SUBSET Ids
                BY <1>4, <3>1
            <3>3. ASSUME NEW x \in names PROVE table[x] \in [node : Nat, note : Noting]
                <4>1. PICK i \in 1..m : x = p[i].id
                    BY <1>4
                <4>2. table[p[i].id] = [node |-> p[i].node, note |-> p[i].note]
                    BY <2>3
                <4> QED BY <3>1, <4>1, <4>2
            <3>4. table = [x \in names |-> table[x]]
                BY <1>5, <2>1
            <3>5. table \in [names -> [node : Nat, note : Noting]]
                BY <3>3, <3>4
            <3> QED BY <3>2, <3>5 DEF Tables
        <2>5. \A i \in 1..m : /\ table[p[i].id].node = p[i].node
                              /\ table[p[i].id].note # NoNote => p[i].note # NoNote
            <3> TAKE i \in 1..m
            <3>1. table[p[i].id] = [node |-> p[i].node, note |-> p[i].note]
                BY <2>3
            <3>2. table[p[i].id].node = p[i].node /\ table[p[i].id].note = p[i].note
                BY <3>1
            <3> QED BY <3>2
        <2>6. \A x : x \in DOMAIN table <=> \E i \in 1..m : x = p[i].id
            BY <1>4, <2>2
        <2> QED BY <2>4, <2>5, <2>6 DEF table, Tells
    <1> QED BY <1>10, <1>11

\* The document that is parsed.
LEMMA OwnDocument ==
    ASSUME NEW d, NEW p, NEW nodes, NEW map, Parsed(d, p, nodes, map), known \in Seq(Node),
           NEW old, AnchorsOK(old, known), NEW headings, Taken(old, p, headings),
           NEW table, Tells(table, p),
           \A i \in 1..Len(p) : p[i].id \in Titles \union {p[i].node}
    PROVE  /\ AnchorsOK(headings, nodes) /\ TableOK(d, table, nodes)
           /\ FreshOK(d, headings, nodes, map) /\ TableNames(headings, table, nodes)
    <1> DEFINE m == Len(p)
    <1>1. Len(headings) = m /\ \A i \in 1..m : headings[i].node = p[i].node /\ headings[i].anchor \in {p[i].id, old[i].anchor}
        BY DEF Taken
    <1>2. Len(old) = m
        BY DEF Taken
    <1>3. ASSUME NEW i \in 1..m
          PROVE  /\ p[i].node \in DOMAIN nodes /\ nodes[p[i].node].doc = d
                 /\ nodes[p[i].node].id = p[i].id /\ nodes[p[i].node].written = p[i].id
                 /\ nodes[p[i].node].note = p[i].note
        BY DEF Parsed
    <1> HIDE DEF m
    <1>4. AnchorsOK(headings, nodes)
        <2>1. AnchorsOK(old, nodes)
            BY AnchorsStay
        <2>2. ASSUME NEW i \in 1..m PROVE p[i].id \in Anchors(nodes)
            <3>1. p[i].id \in Titles \/ p[i].id = p[i].node
                BY DEF m
            <3> QED BY <1>3, <3>1 DEF Anchors
        <2> QED BY <1>1, <1>2, <2>1, <2>2 DEF AnchorsOK
    <1>5. TableOK(d, table, nodes)
        <2>1. ASSUME NEW x \in DOMAIN table
              PROVE  LET b == table[x].node IN b \in DOMAIN nodes /\ nodes[b].doc = d /\ nodes[b].written = x
            <3>1. PICK i \in 1..m : x = p[i].id
                BY DEF m, Tells
            <3>2. table[x].node = p[i].node
                BY <3>1 DEF m, Tells
            <3> QED BY <1>3, <3>1, <3>2
        <2> QED BY <2>1 DEF TableOK
    <1>6. FreshOK(d, headings, nodes, map)
        <2>1. DocTitle[d] \in DOMAIN map /\ map[DocTitle[d]] = d
            BY DEF Parsed
        <2> QED BY <1>1, <1>3, <2>1 DEF FreshOK
    <1>7. TableNames(headings, table, nodes)
        <2>1. \A i \in 1..m : nodes[headings[i].node].id = p[i].id /\ nodes[headings[i].node].note = p[i].note
            BY <1>1, <1>3
        <2>2. \A x : x \in DOMAIN table <=> \E i \in 1..m : x = nodes[headings[i].node].id
            <3>1. \A x : x \in DOMAIN table <=> \E i \in 1..m : x = p[i].id
                BY DEF m, Tells
            <3> QED BY <2>1, <3>1
        <2>3. ASSUME NEW i \in 1..m
              PROVE  LET b == headings[i].node
                         entry == table[nodes[b].id]
                     IN  entry.node = b /\ (entry.note # NoNote => nodes[b].note # NoNote)
            BY <1>1, <2>1 DEF m, Tells
        <2> QED BY <1>1, <2>2, <2>3 DEF TableNames
    <1> QED BY <1>4, <1>5, <1>6, <1>7

\* Another one, of which no heading has lost its identifier.
LEMMA OtherDocument ==
    ASSUME NEW d, NEW p, NEW nodes, NEW map, Parsed(d, p, nodes, map), known \in Seq(Node),
           NEW e \in Docs \ {d}, NEW table, TableOK(e, table, known)
    PROVE  /\ TableOK(e, table, nodes)
           /\ \A headings : /\ FreshOK(e, headings, known, ids) /\ TableNames(headings, table, known)
                            /\ \A b \in DOMAIN known : known[b].doc = e => Clobbered(d)[b] = known[b]
                 => FreshOK(e, headings, nodes, map) /\ TableNames(headings, table, nodes)
    <1>1. nodes \in Seq(Node)
        BY DEF Parsed, Coherent
    <1>2. \A b \in DOMAIN known : b \in DOMAIN nodes
        BY <1>1 DEF Parsed
    <1>3. \A b \in DOMAIN known : known[b].doc # d =>
              /\ nodes[b].doc = known[b].doc /\ nodes[b].id = Clobbered(d)[b].id
              /\ nodes[b].written = known[b].written /\ nodes[b].note = known[b].note
        BY DEF Parsed
    <1>4. TableOK(e, table, nodes)
        BY <1>2, <1>3 DEF TableOK
    <1>5. ASSUME NEW headings, FreshOK(e, headings, known, ids), TableNames(headings, table, known),
                 \A b \in DOMAIN known : known[b].doc = e => Clobbered(d)[b] = known[b]
          PROVE  FreshOK(e, headings, nodes, map) /\ TableNames(headings, table, nodes)
        <2>1. ASSUME NEW i \in 1..Len(headings)
              PROVE  LET b == headings[i].node
                     IN  /\ b \in DOMAIN nodes /\ nodes[b].doc = e /\ nodes[b].id = nodes[b].written
                         /\ nodes[b].id = known[b].id /\ nodes[b].note = known[b].note
            <3> DEFINE b == headings[i].node
            <3>1. b \in DOMAIN known /\ known[b].doc = e /\ known[b].id = known[b].written
                BY <1>5 DEF FreshOK
            <3> HIDE DEF b
            <3>2. Clobbered(d)[b] = known[b]
                BY <1>5, <3>1
            <3>3. /\ b \in DOMAIN nodes /\ nodes[b].doc = e /\ nodes[b].id = nodes[b].written
                  /\ nodes[b].id = known[b].id /\ nodes[b].note = known[b].note
                BY <1>2, <1>3, <3>1, <3>2
            <3> QED BY <3>3 DEF b
        <2>2. DocTitle[e] \in DOMAIN map /\ map[DocTitle[e]] = e
            <3>1. DocTitle[e] \in DOMAIN ids /\ ids[DocTitle[e]] = e
                BY <1>5 DEF FreshOK
            <3> QED BY <3>1 DEF Parsed
        <2>3. FreshOK(e, headings, nodes, map)
            BY <2>1, <2>2 DEF FreshOK
        <2>4. TableNames(headings, table, nodes)
            <3> DEFINE m == Len(headings)
            <3>1. \A i \in 1..m : /\ nodes[headings[i].node].id = known[headings[i].node].id
                                  /\ nodes[headings[i].node].note = known[headings[i].node].note
                BY <2>1
            <3>2. \A x : x \in DOMAIN table <=> \E i \in 1..m : x = known[headings[i].node].id
                BY <1>5 DEF TableNames
            <3>3. \A i \in 1..m : LET entry == table[known[headings[i].node].id]
                                  IN  /\ entry.node = headings[i].node
                                      /\ entry.note # NoNote => known[headings[i].node].note # NoNote
                BY <1>5 DEF TableNames
            <3> HIDE DEF m
            <3>4. \A x : x \in DOMAIN table <=> \E i \in 1..m : x = nodes[headings[i].node].id
                BY <3>1, <3>2
            <3>5. \A i \in 1..m : LET entry == table[nodes[headings[i].node].id]
                                  IN  /\ entry.node = headings[i].node
                                      /\ entry.note # NoNote => nodes[headings[i].node].note # NoNote
                BY <3>1, <3>3
            <3> QED BY <3>4, <3>5 DEF TableNames, m
        <2> QED BY <2>3, <2>4
    <1> QED BY <1>4, <1>5

LEMMA OrderIs ==
    ASSUME NEW n \in Nat, NEW moved \in SUBSET (1..n), NEW order \in SetToSeqs(moved)
    PROVE  order \in Seq(1..n) /\ \A i \in 1..Len(order) : order[i] \in moved
    <1>1. IsFiniteSet(moved)
        <2>1. IsFiniteSet(1..n)
            BY FS_Interval
        <2> DEFINE all == 1..n
        <2> HIDE DEF all
        <2>2. IsFiniteSet(all) /\ moved \in SUBSET all
            BY <2>1 DEF all
        <2> QED BY <2>2, FS_Subset
    <1>2. Cardinality(moved) \in Nat
        BY <1>1, FS_CardinalityType
    <1>3. order \in [1..Cardinality(moved) -> moved]
        BY DEF SetToSeqs
    <1> DEFINE c == Cardinality(moved)
               V == 1..n
    <1> HIDE DEF c, V
    <1>4. c \in Nat /\ order \in [1..c -> V] /\ order \in [1..c -> moved]
        BY <1>2, <1>3 DEF c, V
    <1>5. order \in Seq(V) /\ \A i \in 1..Len(order) : order[i] \in moved
        BY <1>4
    <1> QED BY <1>5 DEF V

\* Relations are heard of some nodes that were there and of every new one.
NewsIn(session, u, moved, all) ==
    /\ all \in Seq(1..Len(u))
    /\ \A i \in 1..Len(all) : all[i] \in moved \/ all[i] \in (Len(session) + 1)..Len(u)
    /\ \A b \in (Len(session) + 1)..Len(u) : \E i \in 1..Len(all) : all[i] = b

LEMMA AllHeard ==
    ASSUME NEW session \in Seq(Node), NEW d \in Docs, NEW p, NEW u, After(session, d, p, u),
           NEW map, Coherent(u, map), News(p) \in Nat,
           NEW moved \in SUBSET (1..Len(session)), NEW order \in SetToSeqs(moved),
           NEW all, all = [i \in 1..News(p) |-> Len(session) + i] \o order
    PROVE  HeardOK(u, map, Hearing(u, map, all)[Len(all)]) /\ NewsIn(session, u, moved, all)
    <1> DEFINE n == Len(session)
               k == News(p)
               size == Len(u)
               news == [i \in 1..k |-> n + i]
    <1>1. n \in Nat /\ k \in Nat /\ size = n + k /\ u \in Seq(Node)
        <2>1. n \in Nat
            OBVIOUS
        <2>2. size = n + k /\ u \in Seq(Node)
            BY DEF After
        <2> HIDE DEF n, k, size
        <2> QED BY <2>1, <2>2 DEF k
    <1> HIDE DEF n, k, size
    <1>2. news \in Seq(1..size)
        <2>1. \A i \in 1..k : n + i \in 1..size
            BY <1>1
        <2> QED BY <1>1, <2>1
    <1>3. order \in Seq(1..size)
        <2>1. moved \in SUBSET (1..size)
            <3>1. 1..n \subseteq 1..size
                BY <1>1
            <3> QED BY <3>1 DEF n
        <2>2. size \in Nat
            BY <1>1
        <2> QED BY <2>1, <2>2, OrderIs
    <1>4. all = news \o order
        BY DEF n, k
    <1> HIDE DEF news
    <1>5. all \in Seq(1..size)
        <2> DEFINE V == 1..size
        <2> HIDE DEF V
        <2>1. news \in Seq(V) /\ order \in Seq(V)
            BY <1>2, <1>3 DEF V
        <2>2. \A s, t \in Seq(V) : s \o t \in Seq(V)
            OBVIOUS
        <2>3. news \o order \in Seq(V)
            BY <2>1, <2>2, Zenon
        <2> QED BY <1>4, <2>3 DEF V
    <1>6. map \in Maps(size) /\ DocsKeep(u, map)
        BY DEF Coherent, size
    <1>7. HeardOK(u, map, Hearing(u, map, all)[Len(all)])
        BY <1>1, <1>5, <1>6, HearingIs DEF size
    <1>8. Len(news) = k /\ Len(order) \in Nat /\ Len(all) = k + Len(order)
          /\ (\A i \in 1..k : news[i] = n + i) /\ (\A i \in 1..Len(order) : order[i] \in moved)
        <2>1. Len(news) = k /\ \A i \in 1..k : news[i] = n + i
            BY <1>1 DEF news
        <2>2. \A i \in 1..Len(order) : order[i] \in moved
            BY <1>1, OrderIs DEF n
        <2> QED BY <1>2, <1>3, <1>4, <2>1, <2>2
    <1>9. ASSUME NEW i \in 1..k PROVE all[i] = n + i
        <2>1. all[i] = news[i]
            BY <1>1, <1>2, <1>3, <1>4, <1>8
        <2> QED BY <1>8, <2>1
    <1>10. ASSUME NEW i \in 1..Len(all), i > k PROVE all[i] \in moved
        <2>1. i - k \in 1..Len(order) /\ all[i] = order[i - k]
            BY <1>1, <1>2, <1>3, <1>4, <1>8, <1>10
        <2> QED BY <1>8, <2>1
    <1>11. ASSUME NEW i \in 1..Len(all) PROVE all[i] \in moved \/ all[i] \in (n + 1)..size
        <2>1. CASE i \in 1..k
            BY <1>1, <1>9, <2>1
        <2>2. CASE i > k
            BY <1>10, <2>2
        <2> QED BY <1>1, <1>8, <2>1, <2>2
    <1>12. ASSUME NEW b \in (n + 1)..size PROVE \E i \in 1..Len(all) : all[i] = b
        <2>1. PICK i \in 1..k : n + i = b
            <3>1. b - n \in 1..k /\ n + (b - n) = b
                BY <1>1
            <3> QED BY <3>1
        <2>2. i \in 1..Len(all)
            BY <1>1, <1>8
        <2> QED BY <1>9, <2>1, <2>2
    <1> QED BY <1>5, <1>7, <1>11, <1>12 DEF NewsIn, n, size

\* The steps of a parse: what is pushed, the nodes with it, and the order in
\* which relations are heard, which names every new node.
Done(d, p, all) ==
    LET s == Clobbered(d)
        map == Named(ids, DocTitle[d], d)
        u == Updated(s, d, p)
        state == Hearing(u, map, all)[Len(all)]
    IN  /\ Coherent(s, map) /\ Len(s) = Len(known)
        /\ PushedOK(s, map, d, Claims(text[d]), p)
        /\ Len(p) = Len(text[d]) /\ NotesKept(sections[d], p)
        /\ After(s, d, p, u) /\ Coherent(u, map)
        /\ all \in Seq(1..Len(u)) /\ \A i \in 1..Len(all) : u[all[i]].doc = d
        /\ \A b \in (Len(s) + 1)..Len(u) : \E i \in 1..Len(all) : all[i] = b
        /\ known' = state.nodes /\ ids' = state.map /\ HeardOK(u, map, state)
        /\ text' = [text EXCEPT ![d] = HeadingsAfter(d, p, Rewritten(s, d, p))]
        /\ sections' = [sections EXCEPT ![d] = SectionsAfter(d, p)]
        /\ fresh' = (fresh \ {s[b].doc : b \in {b \in DOMAIN known : s[b] # known[b]}}) \union {d}
        /\ changes' = changes

LEMMA ParseDoes ==
    ASSUME IInv, NEW d \in Docs, Parse(d)
    PROVE  \E p, all : Done(d, p, all)
    <1> DEFINE n == Len(text[d])
               t == DocTitle[d]
               s == Clobbered(d)
               map == Named(ids, t, d)
               p == PushAll(s, map, d)
               u == Updated(s, d, p)
               claims == Claims(text[d])
               news == [i \in 1..News(p) |-> Len(s) + i]
    <1>1. TypeOK /\ Coherent(known, ids) /\ text[d] \in Seq(Texted) /\ sections[d] \in Tables
          /\ AnchorsOK(text[d], known) /\ TableOK(d, sections[d], known)
        BY DEF IInv, TypeOK
    <1>2. known \in Seq(Node) /\ DOMAIN known = 1..Len(known) /\ Len(known) \in Nat
        BY <1>1 DEF TypeOK
    <1>3. Coherent(s, map) /\ Len(s) = Len(known)
          /\ (\A b \in 1..Len(known) : s[b].doc = known[b].doc /\ s[b].written = known[b].written)
        BY <1>1, ClobberedIs
    <1>4. s \in Seq(Node)
        BY <1>3 DEF Coherent
    <1>5. \A i \in 1..n : text[d][i].anchor \in Anchors(s)
        <2>1. DOMAIN s = DOMAIN known
            <3>1. DOMAIN s = 1..Len(s)
                BY <1>4
            <3> QED BY <1>2, <1>3, <3>1
        <2>2. Anchors(s) = Anchors(known)
            BY <1>2, <1>3, <2>1 DEF Anchors
        <2> QED BY <1>1, <2>2 DEF AnchorsOK
    <1>6. /\ PushedOK(s, map, d, claims, p) /\ Len(p) = n
          /\ \A i \in 1..n : /\ p[i].title = text[d][i].title
                             /\ p[i].note = NoNote /\ p[i].id \in DOMAIN sections[d]
                                    => sections[d][p[i].id].note = NoNote
        BY <1>1, <1>3, <1>5, PushAllIs
    <1>7. PushedOK(s, map, d, claims, p) /\ Len(p) = n /\ NotesKept(sections[d], p)
        BY <1>6 DEF NotesKept
    <1>8. p \in Seq(PushedOnes) /\ News(p) \in Nat
        BY <1>7, NewsIs DEF PushedOK
    <1>9. ParseWith(d, s, map, p)
        BY DEF Parse
    <1>10. After(s, d, p, u) /\ Coherent(u, map)
        BY <1>3, <1>4, <1>7, UpdatedIs, UpdatedCoherent
    <1>11. text' = [text EXCEPT ![d] = HeadingsAfter(d, p, Rewritten(s, d, p))]
           /\ sections' = [sections EXCEPT ![d] = SectionsAfter(d, p)]
           /\ fresh' = (fresh \ {s[b].doc : b \in {b \in DOMAIN known : s[b] # known[b]}}) \union {d}
           /\ changes' = changes
        <2> HIDE DEF t, s, map, p, u, claims, news
        <2> QED BY <1>9 DEF ParseWith
    <1> HIDE DEF t, s, map, p, u, claims, news
    <1>12. PICK moved \in Moved(d, p) \union {{}} : \E order \in SetToSeqs(moved) :
              LET all   == news \o order
                  state == Hearing(Updated(s, d, p), map, all)[Len(all)]
              IN  known' = state.nodes /\ ids' = state.map
        BY <1>9 DEF ParseWith, news
    <1>13. PICK order \in SetToSeqs(moved) :
              LET all   == news \o order
                  state == Hearing(Updated(s, d, p), map, all)[Len(all)]
              IN  known' = state.nodes /\ ids' = state.map
        BY <1>12
    <1> DEFINE all == news \o order
               state == Hearing(u, map, all)[Len(all)]
    <1>14. known' = state.nodes /\ ids' = state.map
        BY <1>13 DEF u
    <1>15. moved \in SUBSET (1..Len(s)) /\ \A b \in moved : s[b].doc = d
        <2>1. moved \subseteq DOMAIN known /\ \A b \in moved : known[b].doc = d
            BY DEF Moved
        <2> QED BY <1>2, <1>3, <2>1
    <1>16. HeardOK(u, map, state) /\ NewsIn(s, u, moved, all)
        <2>1. all = [i \in 1..News(p) |-> Len(s) + i] \o order
            BY DEF news
        <2>2. state = Hearing(u, map, all)[Len(all)]
            OBVIOUS
        <2> HIDE DEF all, state
        <2>3. moved \in SUBSET (1..Len(s)) /\ order \in SetToSeqs(moved) /\ News(p) \in Nat
            BY <1>8, <1>15
        <2>4. HeardOK(u, map, Hearing(u, map, all)[Len(all)]) /\ NewsIn(s, u, moved, all)
            BY <1>4, <1>10, <2>1, <2>3, AllHeard
        <2> QED BY <2>2, <2>4
    <1> HIDE DEF all, state
    <1>17. ASSUME NEW i \in 1..Len(all) PROVE u[all[i]].doc = d
        <2> DEFINE b == all[i]
        <2>1. b \in 1..Len(u) /\ (b \in moved \/ b \in (Len(s) + 1)..Len(u))
            BY <1>16 DEF NewsIn
        <2>2. (b \in moved => s[b].doc = d) /\ (b \in moved \/ b \notin DOMAIN s)
            <3>1. DOMAIN s = 1..Len(s) /\ Len(s) \in Nat
                BY <1>4
            <3>2. b \in (Len(s) + 1)..Len(u) => b \notin 1..Len(s)
                BY <3>1
            <3> QED BY <1>15, <2>1, <3>1, <3>2
        <2> HIDE DEF b
        <2>3. ASSUME \E j \in 1..Len(p) : p[j].node = b PROVE u[b].doc = d
            BY <1>10, <2>3 DEF After
        <2>4. ASSUME \A j \in 1..Len(p) : p[j].node # b PROVE u[b].doc = d
            <3>1. b \in DOMAIN s /\ u[b] = s[b]
                BY <1>10, <2>1, <2>4 DEF After
            <3> QED BY <2>2, <3>1
        <2> QED BY <2>3, <2>4 DEF b
    <1> QED BY <1>3, <1>7, <1>10, <1>11, <1>14, <1>16, <1>17 DEF Done, NewsIn, s, map, u, t, claims, state, n

LEMMA DoneParsed ==
    ASSUME IInv, NEW d \in Docs, NEW p, NEW all, Done(d, p, all)
    PROVE  Parsed(d, p, known', ids')
    <1> DEFINE s == Clobbered(d)
               map == Named(ids, DocTitle[d], d)
               claims == Claims(text[d])
    <1>1. PushedOK(s, map, d, claims, p) /\ Coherent(known, ids)
        BY DEF Done, IInv
    <1>2. \E state : HeardOK(Updated(s, d, p), map, state) /\ known' = state.nodes /\ ids' = state.map
        BY DEF Done
    <1> HIDE DEF claims
    <1> QED BY <1>1, <1>2, ParsedIs

LEMMA ParseKeeps ==
    ASSUME IInv, NEW d \in Docs, Parse(d)
    PROVE  IInv'
    <1> DEFINE n == Len(text[d])
               s == Clobbered(d)
               map == Named(ids, DocTitle[d], d)
               claims == Claims(text[d])
    <1>0. PICK p, all : Done(d, p, all)
        BY ParseDoes
    <1> DEFINE row(i) == [title |-> text[d][i].title, node |-> p[i].node,
                          anchor |-> IF Rewritten(s, d, p) THEN p[i].id ELSE text[d][i].anchor]
    <1>1. TypeOK /\ Coherent(known, ids) /\ text[d] \in Seq(Texted) /\ sections[d] \in Tables
          /\ AnchorsOK(text[d], known) /\ TableOK(d, sections[d], known)
        BY DEF IInv, TypeOK
    <1>2. known \in Seq(Node) /\ DOMAIN known = 1..Len(known) /\ Len(known) \in Nat
        BY <1>1 DEF TypeOK
    <1>3. Coherent(s, map) /\ Len(s) = Len(known)
          /\ (\A b \in 1..Len(known) : s[b].doc = known[b].doc /\ s[b].written = known[b].written)
        BY <1>1, ClobberedIs
    <1>7. PushedOK(s, map, d, claims, p) /\ Len(p) = n /\ NotesKept(sections[d], p)
        BY <1>0 DEF Done
    <1>8. p \in Seq(PushedOnes)
        BY <1>7 DEF PushedOK
    <1>11. text' = [text EXCEPT ![d] = [i \in DOMAIN text[d] |-> row(i)]]
           /\ sections' = [sections EXCEPT ![d] = SectionsAfter(d, p)]
           /\ fresh' = (fresh \ {s[b].doc : b \in {b \in DOMAIN known : s[b] # known[b]}}) \union {d}
           /\ changes' = changes
        BY <1>0 DEF Done, HeadingsAfter
    <1>17. Parsed(d, p, known', ids')
        BY <1>0, DoneParsed
    <1> HIDE DEF s, map, claims, row
    <1> DEFINE headings == text'[d]
               table == SectionsAfter(d, p)
    <1>18. headings = [i \in 1..n |-> row(i)] /\ \A e \in Docs \ {d} : text'[e] = text[e]
        <2>1. DOMAIN text = Docs /\ DOMAIN text[d] = 1..n
            BY <1>1 DEF TypeOK
        <2> QED BY <1>11, <2>1
    <1>19. sections'[d] = table /\ \A e \in Docs \ {d} : sections'[e] = sections[e]
        BY <1>1, <1>11 DEF TypeOK
    <1>20. n \in Nat /\ \A i \in 1..n : text[d][i] \in Texted /\ p[i] \in PushedOnes
        BY <1>1, <1>7, <1>8
    <1> HIDE DEF table, n, headings
    <1>21. Taken(text[d], p, headings)
        <2>1. ASSUME NEW i \in 1..n
              PROVE  /\ headings[i] \in Texted /\ headings[i].node = p[i].node
                     /\ headings[i].anchor \in {p[i].id, text[d][i].anchor}
            <3>1. headings[i] = row(i)
                BY <1>18
            <3>2. text[d][i] \in Texted /\ p[i].node \in Nat /\ p[i].id \in Claim
                BY <1>20 DEF PushedOnes, Claim
            <3>3. headings[i].node = p[i].node /\ headings[i].title = text[d][i].title
                BY <3>1, <3>2 DEF Texted, row
            <3>4. headings[i].anchor \in {p[i].id, text[d][i].anchor}
                BY <3>1, <3>2 DEF Texted, row
            <3>5. headings[i] = [title |-> headings[i].title, anchor |-> headings[i].anchor,
                                 node |-> headings[i].node]
                BY <3>1, <3>2 DEF Texted, row
            <3>6. headings[i].anchor \in Claim /\ headings[i].title \in Titles /\ headings[i].node \in Nat
                BY <3>2, <3>3, <3>4 DEF Texted
            <3> QED BY <3>3, <3>4, <3>5, <3>6 DEF Texted
        <2>2. DOMAIN headings = 1..n /\ headings = [i \in 1..n |-> headings[i]]
            BY <1>18
        <2>3. headings \in Seq(Texted) /\ Len(headings) = n
            BY <1>20, <2>1, <2>2
        <2> QED BY <1>7, <2>1, <2>3 DEF Taken, n
    <1>22. table \in Tables /\ Tells(table, p)
        BY <1>1, <1>2, <1>3, <1>7, <1>17, TableAfter DEF table
    <1>23. \A i \in 1..Len(p) : p[i].id \in Titles \union {p[i].node}
        BY <1>7 DEF PushedOK, Fits
    <1>24. /\ AnchorsOK(headings, known') /\ TableOK(d, table, known')
           /\ FreshOK(d, headings, known', ids') /\ TableNames(headings, table, known')
        BY <1>1, <1>2, <1>17, <1>21, <1>22, <1>23, OwnDocument
    <1>25. Coherent(known', ids')
        BY <1>17 DEF Parsed
    <1>26. TypeOK'
        <2>1. text' \in [Docs -> Seq(Texted)]
            BY <1>1, <1>11, <1>18, <1>21 DEF TypeOK, Taken, headings
        <2>2. sections' \in [Docs -> Tables]
            BY <1>1, <1>11, <1>22 DEF TypeOK, table
        <2>3. fresh' \in SUBSET Docs /\ changes' \in Nat
            BY <1>1, <1>11 DEF TypeOK
        <2>4. known' \in Seq(Node) /\ ids' \in Maps(Len(known'))
            BY <1>25 DEF Coherent
        <2> QED BY <2>1, <2>2, <2>3, <2>4 DEF TypeOK
    <1>27. ASSUME NEW e \in Docs
           PROVE  AnchorsOK(text'[e], known') /\ TableOK(e, sections'[e], known')
        <2>1. CASE e = d
            <3>1. AnchorsOK(text'[d], known') /\ TableOK(d, sections'[d], known')
                BY <1>24, <1>19 DEF headings
            <3> QED BY <2>1, <3>1
        <2>2. CASE e # d
            <3>1. AnchorsOK(text[e], known) /\ TableOK(e, sections[e], known)
                BY DEF IInv
            <3>2. AnchorsOK(text[e], known')
                BY <1>2, <1>17, <3>1, AnchorsStay
            <3>3. TableOK(e, sections[e], known')
                BY <1>2, <1>17, <2>2, <3>1, OtherDocument
            <3> QED BY <1>18, <1>19, <2>2, <3>2, <3>3
        <2> QED BY <2>1, <2>2
    <1>28. ASSUME NEW e \in fresh'
           PROVE  FreshOK(e, text'[e], known', ids') /\ TableNames(text'[e], sections'[e], known')
        <2>1. CASE e = d
            <3>1. FreshOK(d, text'[d], known', ids') /\ TableNames(text'[d], sections'[d], known')
                BY <1>24, <1>19 DEF headings
            <3> QED BY <2>1, <3>1
        <2>2. CASE e # d
            <3>1. e \in fresh /\ e \notin {s[b].doc : b \in {b \in DOMAIN known : s[b] # known[b]}}
                BY <1>11, <2>2
            <3>2. \A b \in DOMAIN known : known[b].doc = e => Clobbered(d)[b] = known[b]
                BY <1>2, <1>3, <3>1 DEF s
            <3>3. e \in Docs \ {d} /\ FreshOK(e, text[e], known, ids) /\ TableNames(text[e], sections[e], known)
                  /\ TableOK(e, sections[e], known)
                BY <1>1, <2>2, <3>1 DEF IInv, TypeOK
            <3>4. FreshOK(e, text[e], known', ids') /\ TableNames(text[e], sections[e], known')
                BY <1>2, <1>17, <3>2, <3>3, OtherDocument
            <3> QED BY <1>18, <1>19, <3>3, <3>4
        <2> QED BY <2>1, <2>2
    <1> QED BY <1>25, <1>26, <1>27, <1>28 DEF IInv

-----------------------------------------------------------------------------
(* Authors.                                                                *)

\* The headings that a text can have.
Rows == {h \in Texted : h.anchor \in Anchors(known)}

LEMMA RowsOfTexts ==
    ASSUME IInv
    PROVE  \A d \in Docs : text[d] \in Seq(Rows)
    <1>1. SUFFICES ASSUME NEW d \in Docs PROVE text[d] \in Seq(Rows)
        OBVIOUS
    <1>2. text[d] \in Seq(Texted) /\ AnchorsOK(text[d], known)
        BY DEF IInv, TypeOK
    <1>3. \A i \in 1..Len(text[d]) : text[d][i] \in Rows
        BY <1>2 DEF AnchorsOK, Rows
    <1>4. Len(text[d]) \in Nat /\ text[d] = [i \in 1..Len(text[d]) |-> text[d][i]]
        BY <1>2
    <1> QED BY <1>3, <1>4

LEMMA Inserted ==
    ASSUME NEW S, NEW s \in Seq(S), NEW i \in 1..(Len(s) + 1), NEW e \in S
    PROVE  InsertAt(s, i, e) \in Seq(S)
    <1> DEFINE a == SubSeq(s, 1, i - 1)
               c == SubSeq(s, i, Len(s))
    <1>1. Len(s) \in Nat /\ \A j \in 1..Len(s) : s[j] \in S
        OBVIOUS
    <1>2. a \in Seq(S) /\ c \in Seq(S)
        <2>1. \A j \in 1..(i - 1) : s[j] \in S
            BY <1>1
        <2>2. \A j \in i..Len(s) : s[j] \in S
            BY <1>1
        <2>3. i \in Int /\ i - 1 \in Int /\ 1 \in Int /\ Len(s) \in Int
            BY <1>1
        <2> QED BY <2>1, <2>2, <2>3, SubSeqProperties
    <1> HIDE DEF a, c
    <1>3. a \o <<e>> \o c \in Seq(S)
        BY <1>2
    <1> QED BY <1>3 DEF InsertAt, a, c

LEMMA Removed ==
    ASSUME NEW S, NEW s \in Seq(S), NEW i \in DOMAIN s
    PROVE  RemoveAt(s, i) \in Seq(S)
    <1> DEFINE a == SubSeq(s, 1, i - 1)
               c == SubSeq(s, i + 1, Len(s))
    <1>1. Len(s) \in Nat /\ \A j \in 1..Len(s) : s[j] \in S
        OBVIOUS
    <1>2. a \in Seq(S) /\ c \in Seq(S)
        <2>1. \A j \in 1..(i - 1) : s[j] \in S
            BY <1>1
        <2>2. \A j \in (i + 1)..Len(s) : s[j] \in S
            BY <1>1
        <2>3. i + 1 \in Int /\ i - 1 \in Int /\ 1 \in Int /\ Len(s) \in Int
            BY <1>1
        <2> QED BY <2>1, <2>2, <2>3, SubSeqProperties
    <1> HIDE DEF a, c
    <1>3. a \o c \in Seq(S)
        BY <1>2
    <1> QED BY <1>3 DEF RemoveAt, a, c

\* Any text of such headings.
LEMMA ChangeKeeps ==
    ASSUME IInv, NEW d \in Docs, NEW headings \in Seq(Rows), Change(d, headings)
    PROVE  IInv'
    <1>1. text' = [text EXCEPT ![d] = headings] /\ fresh' = fresh \ {d} /\ changes' = changes + 1
          /\ sections' = sections /\ known' = known /\ ids' = ids
        BY DEF Change
    <1>2. TypeOK /\ Coherent(known, ids)
        BY DEF IInv
    <1>3. text'[d] = headings /\ \A e \in Docs \ {d} : text'[e] = text[e]
        BY <1>1, <1>2 DEF TypeOK
    <1>4. headings \in Seq(Texted) /\ AnchorsOK(headings, known)
        <2>1. \A i \in 1..Len(headings) : headings[i] \in Texted /\ headings[i].anchor \in Anchors(known)
            BY DEF Rows
        <2>2. Len(headings) \in Nat /\ headings = [i \in 1..Len(headings) |-> headings[i]]
            OBVIOUS
        <2> QED BY <2>1, <2>2 DEF AnchorsOK
    <1>5. TypeOK'
        BY <1>1, <1>2, <1>4 DEF TypeOK
    <1>6. ASSUME NEW e \in Docs PROVE AnchorsOK(text'[e], known) /\ TableOK(e, sections[e], known)
        <2>1. AnchorsOK(text[e], known) /\ TableOK(e, sections[e], known)
            BY DEF IInv
        <2>2. CASE e = d
            BY <1>3, <1>4, <2>1, <2>2
        <2>3. CASE e # d
            BY <1>3, <2>1, <2>3
        <2> QED BY <2>2, <2>3
    <1>7. ASSUME NEW e \in fresh'
          PROVE  FreshOK(e, text'[e], known, ids) /\ TableNames(text'[e], sections[e], known)
        <2>1. e \in fresh /\ e \in Docs \ {d}
            BY <1>1, <1>2 DEF TypeOK
        <2>2. FreshOK(e, text[e], known, ids) /\ TableNames(text[e], sections[e], known)
            BY <2>1 DEF IInv
        <2> QED BY <1>3, <2>1, <2>2
    <1> QED BY <1>1, <1>2, <1>5, <1>6, <1>7 DEF IInv

\* What authors write has headings of any set that has new ones and copies,
\* and with a heading the same one with another title or without its anchor.
Open(S) ==
    /\ \A t \in Titles, a \in Titles \union {NoId} : Heading(t, a) \in S
    /\ \A e \in Docs : \A h \in Range(text[e]) : Heading(h.title, h.anchor) \in S
    /\ \A h \in S : /\ \A t \in Titles : [h EXCEPT !.title = t] \in S
                    /\ [h EXCEPT !.anchor = NoId] \in S

LEMMA AuthorsWrite ==
    ASSUME NEW d \in Docs, NEW S, text[d] \in Seq(S), Open(S),
           Write(d) \/ Copy(d) \/ Delete(d) \/ Retitle(d) \/ Strip(d) \/ Swap(d)
    PROVE  \E headings \in Seq(S) : Change(d, headings)
    <1>1. text[d] \in Seq(S)
        OBVIOUS
    <1>2. Len(text[d]) \in Nat /\ DOMAIN text[d] = 1..Len(text[d])
          /\ \A i \in DOMAIN text[d] : text[d][i] \in S
        BY <1>1
    <1>3. \A t \in Titles, a \in Titles \union {NoId} : Heading(t, a) \in S
        BY DEF Open
    <1>4. CASE Write(d)
        <2>1. PICK i \in 1..(Len(text[d]) + 1), w \in Written :
                    Change(d, InsertAt(text[d], i, Heading(w[1], w[2])))
            BY <1>4 DEF Write
        <2>2. w[1] \in Titles /\ w[2] \in Titles \union {NoId}
            BY IdentityAssumption
        <2>3. InsertAt(text[d], i, Heading(w[1], w[2])) \in Seq(S)
            BY <1>1, <1>3, <2>2, Inserted
        <2> QED BY <2>1, <2>3
    <1>5. CASE Copy(d)
        <2>0. PICK i \in 1..(Len(text[d]) + 1), e \in Docs :
                    \E h \in Range(text[e]) : Change(d, InsertAt(text[d], i, Heading(h.title, h.anchor)))
            BY <1>5 DEF Copy
        <2>1. PICK h \in Range(text[e]) : Change(d, InsertAt(text[d], i, Heading(h.title, h.anchor)))
            BY <2>0
        <2>3. Heading(h.title, h.anchor) \in S
            BY DEF Open
        <2>4. InsertAt(text[d], i, Heading(h.title, h.anchor)) \in Seq(S)
            BY <1>1, <2>3, Inserted
        <2> QED BY <2>1, <2>4
    <1>6. CASE Delete(d)
        <2>1. PICK i \in DOMAIN text[d] : Change(d, RemoveAt(text[d], i))
            BY <1>6 DEF Delete
        <2>2. RemoveAt(text[d], i) \in Seq(S)
            BY <1>1, Removed
        <2> QED BY <2>1, <2>2
    <1>7. CASE Retitle(d)
        <2>1. PICK i \in DOMAIN text[d], t \in Titles : Change(d, [text[d] EXCEPT ![i].title = t])
            BY <1>7 DEF Retitle
        <2>2. [text[d][i] EXCEPT !.title = t] \in S
            BY <1>2 DEF Open
        <2>3. [text[d] EXCEPT ![i].title = t] \in Seq(S)
            BY <1>1, <1>2, <2>2
        <2> QED BY <2>1, <2>3
    <1>8. CASE Strip(d)
        <2>1. PICK i \in DOMAIN text[d] : Change(d, [text[d] EXCEPT ![i].anchor = NoId])
            BY <1>8 DEF Strip
        <2>2. [text[d][i] EXCEPT !.anchor = NoId] \in S
            BY <1>2 DEF Open
        <2>3. [text[d] EXCEPT ![i].anchor = NoId] \in Seq(S)
            BY <1>1, <1>2, <2>2
        <2> QED BY <2>1, <2>3
    <1>9. CASE Swap(d)
        <2>1. PICK i \in DOMAIN text[d] \ {1} :
                    Change(d, [text[d] EXCEPT ![i] = text[d][i - 1], ![i - 1] = text[d][i]])
            BY <1>9 DEF Swap
        <2>2. i - 1 \in DOMAIN text[d]
            BY <1>2
        <2>3. text[d][i - 1] \in S /\ text[d][i] \in S
            BY <1>2, <2>2
        <2>4. [text[d] EXCEPT ![i] = text[d][i - 1], ![i - 1] = text[d][i]] \in Seq(S)
            BY <1>1, <1>2, <2>2, <2>3
        <2> QED BY <2>1, <2>4
    <1> QED BY <1>4, <1>5, <1>6, <1>7, <1>8, <1>9

LEMMA RowsOpen ==
    ASSUME IInv
    PROVE  Open(Rows)
    <1>1. \A t \in Titles, a \in Titles \union {NoId} : Heading(t, a) \in Rows
        BY DEF Heading, Rows, Texted, Anchors, Claim, Ids, Unparsed
    <1>2. ASSUME NEW e \in Docs, NEW h \in Range(text[e]) PROVE Heading(h.title, h.anchor) \in Rows
        <2>1. h \in Rows
            BY RowsOfTexts DEF Range
        <2> QED BY <2>1 DEF Heading, Rows, Texted, Unparsed
    <1>3. ASSUME NEW h \in Rows, NEW t \in Titles
          PROVE  [h EXCEPT !.title = t] \in Rows
        BY DEF Rows, Texted
    <1>4. ASSUME NEW h \in Rows
          PROVE  [h EXCEPT !.anchor = NoId] \in Rows
        BY DEF Rows, Texted, Anchors, Claim
    <1> QED BY <1>1, <1>2, <1>3, <1>4 DEF Open

LEMMA AuthorsKeep ==
    ASSUME IInv, NEW d \in Docs,
           Write(d) \/ Copy(d) \/ Delete(d) \/ Retitle(d) \/ Strip(d) \/ Swap(d)
    PROVE  IInv'
    <1>1. text[d] \in Seq(Rows) /\ Open(Rows)
        BY RowsOfTexts, RowsOpen
    <1>2. PICK headings \in Seq(Rows) : Change(d, headings)
        BY <1>1, AuthorsWrite
    <1> QED BY <1>2, ChangeKeeps

\* A note that an author writes.
LEMMA AnnotateKeeps ==
    ASSUME IInv, NEW d \in Docs, Annotate(d)
    PROVE  IInv'
    <1>1. PICK id \in DOMAIN sections[d], n \in Notes :
              /\ sections' = [sections EXCEPT ![d][id].note = n]
              /\ fresh' = fresh \ {d} /\ changes' = changes + 1
              /\ UNCHANGED <<text, known, ids>>
        BY DEF Annotate
    <1>2. TypeOK /\ Coherent(known, ids) /\ sections[d] \in Tables
        BY DEF IInv, TypeOK
    <1> DEFINE table == [sections[d] EXCEPT ![id].note = n]
    <1>3. sections' = [sections EXCEPT ![d] = table]
        BY <1>1
    <1>4. sections'[d] = table /\ \A e \in Docs \ {d} : sections'[e] = sections[e]
        BY <1>2, <1>3 DEF TypeOK
    <1>5. PICK S \in SUBSET Ids : sections[d] \in [S -> [node : Nat, note : Noting]]
        BY <1>2 DEF Tables
    <1>6. table \in [S -> [node : Nat, note : Noting]] /\ \A x \in S : table[x].node = sections[d][x].node
        <2> DEFINE Rec == [node : Nat, note : Noting]
                   row == [sections[d][id] EXCEPT !.note = n]
        <2>1. id \in S /\ sections[d][id] \in Rec
            BY <1>5
        <2>2. row \in Rec /\ row.node = sections[d][id].node
            BY <2>1 DEF Noting
        <2>3. table = [sections[d] EXCEPT ![id] = row]
            OBVIOUS
        <2>4. \A x \in S : table[x] = IF x = id THEN row ELSE sections[d][x]
            BY <1>5, <2>3
        <2> HIDE DEF Rec, row
        <2>5. sections[d] \in [S -> Rec]
            BY <1>5 DEF Rec
        <2>6. table \in [S -> Rec]
            BY <2>2, <2>3, <2>5
        <2> QED BY <2>2, <2>4, <2>6 DEF Rec
    <1>7. table \in Tables /\ DOMAIN table = DOMAIN sections[d]
        BY <1>5, <1>6 DEF Tables
    <1> HIDE DEF table
    <1>8. TypeOK'
        <2>1. sections \in [Docs -> Tables] /\ fresh \in SUBSET Docs /\ changes \in Nat
            BY <1>2 DEF TypeOK
        <2>2. sections' \in [Docs -> Tables]
            BY <1>3, <1>7, <2>1
        <2>3. fresh' \in SUBSET Docs /\ changes' \in Nat
            BY <1>1, <2>1
        <2>4. text' = text /\ known' = known /\ ids' = ids
            BY <1>1
        <2> QED BY <1>2, <2>2, <2>3, <2>4 DEF TypeOK
    <1>9. ASSUME NEW e \in Docs PROVE AnchorsOK(text[e], known) /\ TableOK(e, sections'[e], known)
        <2>1. AnchorsOK(text[e], known) /\ TableOK(e, sections[e], known)
            BY DEF IInv
        <2>2. CASE e = d
            BY <1>4, <1>5, <1>6, <1>7, <2>1, <2>2 DEF TableOK
        <2>3. CASE e # d
            BY <1>4, <2>1, <2>3
        <2> QED BY <2>2, <2>3
    <1>10. ASSUME NEW e \in fresh'
           PROVE  FreshOK(e, text[e], known, ids) /\ TableNames(text[e], sections'[e], known)
        <2>1. e \in fresh /\ e \in Docs \ {d}
            BY <1>1, <1>2 DEF TypeOK
        <2>2. FreshOK(e, text[e], known, ids) /\ TableNames(text[e], sections[e], known)
            BY <2>1 DEF IInv
        <2> QED BY <1>4, <2>1, <2>2
    <1> QED BY <1>1, <1>2, <1>8, <1>9, <1>10 DEF IInv

-----------------------------------------------------------------------------
(* Paths: where push looks for the nodes of headings.                      *)

\* The nodes of a document have their identifiers: none has lost its own.
KeepsIds(nodes, d) == \A b \in DOMAIN nodes : nodes[b].doc = d => nodes[b].id # b

\* Then their identifiers are their paths: no name is taken when it is heard.
Placed(nodes, d) ==
    KeepsIds(nodes, d) =>
        \A b \in DOMAIN nodes : nodes[b].doc = d => nodes[b].path = nodes[b].id

\* What holds of the paths of a document while some of its nodes, those of S,
\* are heard, and of those of the others.
PathsAt(d, nodes, heard, S) ==
    \A b \in 1..Len(nodes) : nodes[b].doc = d =>
        heard[b].path \in {nodes[b].id, NoId} /\ (b \in S => heard[b].path = nodes[b].id)
OthersAt(d, nodes, heard) ==
    \A b \in 1..Len(nodes) : nodes[b].doc # d => heard[b].path = nodes[b].path

LEMMA PathHeardElsewhere ==
    ASSUME NEW nodes \in Seq(Node), NEW d, NEW state, SameButPaths(nodes, state.nodes),
           NEW b \in 1..Len(nodes), nodes[b].doc = d, OthersAt(d, nodes, state.nodes)
    PROVE  OthersAt(d, nodes, PathHeard(state, b).nodes)
    <1> DEFINE v == state.nodes
               w == PathHeard(state, b).nodes
    <1>1. v \in Seq(Node) /\ DOMAIN v = 1..Len(nodes)
        BY DEF SameButPaths
    <1>2. w = v \/ \E x : w = [v EXCEPT ![b].path = x]
        BY DEF PathHeard
    <1> HIDE DEF v, w
    <1>3. \A c \in 1..Len(nodes) : c # b => w[c] = v[c]
        BY <1>1, <1>2
    <1> QED BY <1>3 DEF OthersAt, v, w

LEMMA PathHeardPlaces ==
    ASSUME NEW nodes \in Seq(Node), NEW d, NEW state, SameButPaths(nodes, state.nodes),
           NEW b \in 1..Len(nodes), nodes[b].doc = d, KeepsIds(nodes, d), Apart(nodes),
           OwnNames(nodes), NEW S, PathsAt(d, nodes, state.nodes, S)
    PROVE  PathsAt(d, nodes, PathHeard(state, b).nodes, S \union {b})
    <1> DEFINE v == state.nodes
               w == PathHeard(state, b).nodes
               name == Name(b, v[b].id, v[b].title)
               taken == \E c \in DOMAIN v \ {b} : v[c].doc = v[b].doc /\ v[c].path = name
               path == IF taken THEN b ELSE name
    <1>1. v \in Seq(Node) /\ DOMAIN v = 1..Len(nodes) /\ DOMAIN nodes = 1..Len(nodes)
          /\ \A c \in 1..Len(nodes) : v[c].doc = nodes[c].doc /\ v[c].id = nodes[c].id
        BY DEF SameButPaths
    <1>2. w = IF path = v[b].path THEN v ELSE [v EXCEPT ![b].path = path]
        BY DEF PathHeard
    <1>3. \A c \in 1..Len(nodes) : nodes[c].doc = d =>
              nodes[c].id # c /\ nodes[c].id = nodes[c].written
        BY <1>1 DEF KeepsIds, OwnNames
    <1>4. name = nodes[b].id /\ name # NoId
        <2>1. name = nodes[b].id
            BY <1>1, <1>3 DEF Name
        <2>2. nodes[b] \in Node
            BY <1>1
        <2> HIDE DEF name
        <2> QED BY <2>1, <2>2, IdentityAssumption DEF Node, Ids
    <1> HIDE DEF v, w, name
    <1>5. ~ taken
        <2>1. SUFFICES ASSUME NEW c \in DOMAIN v, c # b, v[c].doc = v[b].doc, v[c].path = name
                       PROVE  FALSE
            OBVIOUS
        <2>2. nodes[c].doc = d /\ v[c].path \in {nodes[c].id, NoId}
            BY <1>1, <2>1 DEF PathsAt, v
        <2>3. nodes[c].id = nodes[b].id
            BY <1>4, <2>1, <2>2
        <2> QED BY <1>1, <1>3, <2>1, <2>2, <2>3 DEF Apart
    <1>6. path = nodes[b].id
        BY <1>4, <1>5
    <1> HIDE DEF path, taken
    <1>7. w[b].path = nodes[b].id /\ \A c \in 1..Len(nodes) : c # b => w[c] = v[c]
        BY <1>1, <1>2, <1>6
    <1> QED BY <1>7 DEF PathsAt, v, w

\* All in their order.
Members(order) == {order[i] : i \in 1..Len(order)}

LEMMA HearingPlaces ==
    ASSUME NEW nodes, NEW map, Coherent(nodes, map), NEW d,
           NEW order \in Seq(1..Len(nodes)), \A i \in 1..Len(order) : nodes[order[i]].doc = d,
           NEW S
    PROVE  LET heard == Hearing(nodes, map, order)[Len(order)].nodes
           IN  /\ OthersAt(d, nodes, heard)
               /\ KeepsIds(nodes, d) /\ PathsAt(d, nodes, nodes, S) =>
                    PathsAt(d, nodes, heard, S \union Members(order))
    <1> DEFINE k == Len(order)
               h == Hearing(nodes, map, order)
               some(i) == S \union {order[j] : j \in 1..i}
               ok == KeepsIds(nodes, d) /\ PathsAt(d, nodes, nodes, S)
               OK(i) == /\ OthersAt(d, nodes, h[i].nodes)
                        /\ ok => PathsAt(d, nodes, h[i].nodes, some(i))
               T == {i \in 0..k : ~ OK(i)}
    <1>1. k \in Nat /\ \A i \in 1..k : order[i] \in 1..Len(nodes)
        OBVIOUS
    <1>2. nodes \in Seq(Node) /\ Apart(nodes) /\ OwnNames(nodes)
        BY DEF Coherent
    <1>3. /\ h[0] = [nodes |-> nodes, map |-> map]
          /\ \A i \in 1..k : h[i] = PathHeard(h[i - 1], order[i])
          /\ \A i \in 0..k : SameButPaths(nodes, h[i].nodes)
        <2>1. map \in Maps(Len(nodes)) /\ DocsKeep(nodes, map)
            BY DEF Coherent
        <2> QED BY <1>2, <2>1, HearingDefined DEF HeardOK
    <1> HIDE DEF h, k
    <1>4. OK(0)
        <2>1. h[0].nodes = nodes /\ some(0) = S
            BY <1>3
        <2> HIDE DEF some
        <2> QED BY <2>1 DEF OthersAt
    <1>5. ASSUME NEW i \in 1..k, OK(i - 1) PROVE OK(i)
        <2>1. i - 1 \in 0..k /\ SameButPaths(nodes, h[i - 1].nodes)
            BY <1>1, <1>3
        <2>2. h[i] = PathHeard(h[i - 1], order[i]) /\ order[i] \in 1..Len(nodes) /\ nodes[order[i]].doc = d
            BY <1>1, <1>3 DEF k
        <2>3. some(i) = some(i - 1) \union {order[i]}
            <3>1. \A j : j \in 1..i <=> j \in 1..(i - 1) \/ j = i
                BY <1>1
            <3> QED BY <3>1
        <2> HIDE DEF some, ok
        <2>4. OthersAt(d, nodes, h[i].nodes)
            BY <1>2, <1>5, <2>1, <2>2, PathHeardElsewhere
        <2>5. ASSUME ok PROVE PathsAt(d, nodes, h[i].nodes, some(i))
            <3>1. KeepsIds(nodes, d) /\ PathsAt(d, nodes, h[i - 1].nodes, some(i - 1))
                BY <1>5, <2>5 DEF ok
            <3>2. PathsAt(d, nodes, PathHeard(h[i - 1], order[i]).nodes, some(i - 1) \union {order[i]})
                BY <1>2, <2>1, <2>2, <3>1, PathHeardPlaces
            <3> QED BY <2>2, <2>3, <3>2
        <2> QED BY <2>4, <2>5
    <1> HIDE DEF OK
    <1>6. ASSUME T # {} PROVE FALSE
        <2>1. PICK i \in T : \A j \in T : i <= j
            <3>1. T \in SUBSET Nat
                BY <1>1
            <3> HIDE DEF T
            <3> QED BY <1>6, <3>1, SmallestExists
        <2>2. i \in 1..k /\ i - 1 \in 0..k /\ ~ (i <= i - 1)
            BY <1>1, <1>4, <2>1
        <2> QED BY <1>5, <2>1, <2>2
    <1>7. OK(k)
        <2>1. k \in 0..k
            BY <1>1
        <2> QED BY <1>6, <2>1
    <1> QED BY <1>7 DEF OK, h, k, Members

-----------------------------------------------------------------------------
(* Headings that keep their nodes.                                         *)

\* A node that does not have the identifier stored of it lost it to a document.
LostOK(nodes, map) ==
    \A b \in DOMAIN nodes : nodes[b].id = b /\ nodes[b].written # b =>
        nodes[b].written \in DOMAIN map /\ map[nodes[b].written] \in Docs

\* The nodes of headings are those of their documents.
Owned(h, d) == h.node # Unparsed => h.node \in DOMAIN known /\ known[h.node].doc = d

AInv ==
    /\ \A d \in Docs : Placed(known, d) /\ \A i \in 1..Len(text[d]) : Owned(text[d][i], d)
    /\ LostOK(known, ids)

LEMMA LostBefore ==
    ASSUME Coherent(known, ids), LostOK(known, ids), NEW d \in Docs
    PROVE  LostOK(Clobbered(d), Named(ids, DocTitle[d], d))
    <1> DEFINE t == DocTitle[d]
               s == Clobbered(d)
               map == Named(ids, t, d)
    <1>1. known \in Seq(Node) /\ DOMAIN known = 1..Len(known) /\ OwnNames(known) /\ DocsKeep(known, ids)
        BY DEF Coherent
    <1>2. /\ t \in DOMAIN map /\ map[t] = d
          /\ \A b \in 1..Len(known) : s[b].written = known[b].written
          /\ \A x \in DOMAIN ids : ids[x] \in Docs \ {d} => x \in DOMAIN map /\ map[x] = ids[x]
        BY ClobberedIs
    <1>3. DOMAIN s = DOMAIN known /\ \A b \in DOMAIN known :
              s[b].id # known[b].id => b \in Having(known, ids, t)
        BY DEF Clobbered
    <1> HIDE DEF s, map, t
    <1>4. SUFFICES ASSUME NEW b \in DOMAIN known, s[b].id = b, s[b].written # b
                   PROVE  s[b].written \in DOMAIN map /\ map[s[b].written] \in Docs
        BY <1>3 DEF LostOK, s, map, t
    <1>5. s[b].written = known[b].written /\ known[b].written # b
        BY <1>1, <1>2, <1>4
    <1>6. CASE known[b].id = b
        <2>1. known[b].written \in DOMAIN ids /\ ids[known[b].written] \in Docs
            BY <1>5, <1>6 DEF LostOK
        <2>2. ids[known[b].written] = d => known[b].written = t
            BY <1>1, <2>1 DEF DocsKeep, t
        <2> QED BY <1>2, <1>5, <2>1, <2>2
    <1>7. CASE known[b].id # b
        <2>1. b \in Having(known, ids, t) /\ known[b].id = known[b].written
            BY <1>1, <1>3, <1>4, <1>7 DEF OwnNames
        <2>2. b \notin Docs
            BY <1>1, NumbersApart
        <2>3. known[b].written = t
            BY <2>1, <2>2 DEF Having
        <2> QED BY <1>2, <1>5, <2>3
    <1> QED BY <1>6, <1>7

\* A node that lost its identifier does not get it again in a parse, so where
\* none has lost it after a parse, none had before.
LEMMA KeptBefore ==
    ASSUME NEW d \in Docs, NEW s, NEW map, Coherent(s, map), LostOK(s, map), NEW claims, NEW p,
           PushedOK(s, map, d, claims, p), NEW u, After(s, d, p, u), KeepsIds(u, d)
    PROVE  KeepsIds(s, d)
    <1>1. s \in Seq(Node) /\ DOMAIN s = 1..Len(s) /\ Len(s) \in Nat
          /\ u \in Seq(Node) /\ DOMAIN u = 1..Len(u) /\ Len(s) <= Len(u) /\ Len(u) \in Nat
        BY DEF Coherent, After
    <1>2. SUFFICES ASSUME NEW b \in DOMAIN s, s[b].doc = d, s[b].id = b PROVE FALSE
        BY DEF KeepsIds
    <1>3. b \in DOMAIN u /\ b \in Nat
        BY <1>1
    <1>4. CASE \E j \in 1..Len(p) : p[j].node = b
        <2>1. PICK j \in 1..Len(p) : p[j].node = b
            BY <1>4
        <2>2. Fits(s, map, d, claims[j], p[j]) /\ u[b].doc = d /\ u[b].id = p[j].id
            BY <2>1 DEF PushedOK, After
        <2>3. ~ p[j].new
            BY <1>1, <2>1, <2>2 DEF Fits
        <2>4. p[j].id \in {s[b].id, s[b].written, b} /\ (p[j].id # b => Only(s, map, p[j].id, b))
            BY <2>1, <2>2, <2>3 DEF Fits
        <2>5. p[j].id # b
            BY <1>3, <2>2 DEF KeepsIds
        <2>6. p[j].id = s[b].written /\ s[b].written # b /\ Only(s, map, s[b].written, b)
            BY <1>2, <2>4, <2>5
        <2>7. StoredOnly(s, map, s[b].written, b)
            BY <1>3, <2>6, Holder, NumbersApart
        <2> QED BY <1>2, <2>6, <2>7 DEF StoredOnly, LostOK
    <1>5. CASE \A j \in 1..Len(p) : p[j].node # b
        <2>1. u[b] = s[b]
            BY <1>1, <1>3, <1>5 DEF After
        <2> QED BY <1>2, <1>3, <2>1 DEF KeepsIds
    <1> QED BY <1>4, <1>5

\* Nodes that are where they belong before, are there when they are pushed, and
\* new ones are nowhere yet.
LEMMA PlacedBefore ==
    ASSUME NEW d \in Docs, NEW s, NEW map, Coherent(s, map), LostOK(s, map), NEW claims, NEW p,
           PushedOK(s, map, d, claims, p), NEW u, After(s, d, p, u), KeepsIds(u, d),
           \A b \in DOMAIN s : s[b].doc = d => s[b].path = s[b].id
    PROVE  PathsAt(d, u, u, 1..Len(s))
    <1>1. s \in Seq(Node) /\ DOMAIN s = 1..Len(s) /\ Len(s) \in Nat /\ OwnNames(s)
          /\ u \in Seq(Node) /\ DOMAIN u = 1..Len(u) /\ Len(s) <= Len(u) /\ Len(u) \in Nat
        BY DEF Coherent, After
    <1>2. KeepsIds(s, d)
        BY KeptBefore
    <1>3. SUFFICES ASSUME NEW b \in 1..Len(u), u[b].doc = d
                   PROVE  u[b].path \in {u[b].id, NoId} /\ (b \in 1..Len(s) => u[b].path = u[b].id)
        BY DEF PathsAt
    <1>4. CASE \E j \in 1..Len(p) : p[j].node = b
        <2>1. PICK j \in 1..Len(p) : p[j].node = b
            BY <1>4
        <2>2. Fits(s, map, d, claims[j], p[j]) /\ u[b].id = p[j].id
              /\ u[b].path = IF p[j].new THEN NoId ELSE s[b].path
            BY <2>1 DEF PushedOK, After
        <2>3. CASE p[j].new
            <3>1. b > Len(s) /\ u[b].path = NoId
                BY <2>1, <2>2, <2>3 DEF Fits
            <3> QED BY <1>1, <3>1
        <2>4. CASE ~ p[j].new
            <3>1. b \in DOMAIN s /\ s[b].doc = d /\ u[b].id \in {s[b].id, s[b].written, b}
                BY <2>1, <2>2, <2>4 DEF Fits
            <3>2. s[b].id # b /\ s[b].id = s[b].written /\ u[b].id # b
                BY <1>1, <1>2, <1>3, <3>1 DEF KeepsIds, OwnNames
            <3> QED BY <2>2, <2>4, <3>1, <3>2
        <2> QED BY <2>3, <2>4
    <1>5. CASE \A j \in 1..Len(p) : p[j].node # b
        <2>1. b \in DOMAIN s /\ u[b] = s[b]
            BY <1>1, <1>3, <1>5 DEF After
        <2> QED BY <1>3, <2>1
    <1> QED BY <1>4, <1>5

\* What a parse takes over of a node, if only its identifier may change before.
LEMMA ClobberedPaths ==
    ASSUME IInv, NEW d \in Docs, NEW b \in DOMAIN known
    PROVE  LET s == Clobbered(d)[b]
           IN  /\ s.doc = known[b].doc /\ s.title = known[b].title /\ s.path = known[b].path
               /\ s.written = known[b].written /\ s.id \in {known[b].id, b}
    <1>1. known \in Seq(Node)
        BY DEF IInv, TypeOK
    <1>2. known[b] \in Node
        BY <1>1
    <1>3. Clobbered(d)[b] = known[b] \/ Clobbered(d)[b] = [known[b] EXCEPT !.id = b]
        BY DEF Clobbered
    <1> QED BY <1>2, <1>3 DEF Node

LEMMA ParsePlaces ==
    ASSUME IInv, AInv, NEW d \in Docs, NEW p, NEW all, Done(d, p, all)
    PROVE  LostOK(known', ids') /\ \A e \in Docs : Placed(known', e)
    <1> DEFINE s == Clobbered(d)
               map == Named(ids, DocTitle[d], d)
               u == Updated(s, d, p)
               state == Hearing(u, map, all)[Len(all)]
    <1>1. Coherent(s, map) /\ Len(s) = Len(known) /\ PushedOK(s, map, d, Claims(text[d]), p)
          /\ After(s, d, p, u) /\ Coherent(u, map)
        BY DEF Done
    <1>2. /\ all \in Seq(1..Len(u)) /\ \A i \in 1..Len(all) : u[all[i]].doc = d
          /\ \A b \in (Len(s) + 1)..Len(u) : \E i \in 1..Len(all) : all[i] = b
        BY DEF Done
    <1>3. known' = state.nodes /\ ids' = state.map /\ HeardOK(u, map, state)
        BY DEF Done
    <1>4. Coherent(known, ids) /\ known \in Seq(Node) /\ DOMAIN known = 1..Len(known)
        BY DEF IInv, TypeOK
    <1>5. LostOK(s, map)
        BY <1>4, LostBefore DEF AInv
    <1>6. \A b \in DOMAIN known :
              /\ s[b].doc = known[b].doc /\ s[b].path = known[b].path
              /\ s[b].written = known[b].written /\ s[b].id \in {known[b].id, b}
        BY ClobberedPaths
    <1>7. DOMAIN s = DOMAIN known /\ s \in Seq(Node)
        BY <1>1, <1>4 DEF Clobbered, Coherent
    <1> HIDE DEF s, map, u, state
    <1>8. DOMAIN known' = 1..Len(u) /\ known' \in Seq(Node)
          /\ \A b \in 1..Len(u) : known'[b].doc = u[b].doc /\ known'[b].id = u[b].id
                                  /\ known'[b].written = u[b].written
        BY <1>3 DEF HeardOK, SameButPaths
    <1>9. u \in Seq(Node) /\ DOMAIN u = 1..Len(u) /\ Len(s) <= Len(u) /\ Len(s) \in Nat /\ Len(u) \in Nat
        BY <1>1, <1>7 DEF After
    <1>10. ASSUME NEW b \in 1..Len(u), u[b].doc # d \/ u[b].written # u[b].id
           PROVE  b \in DOMAIN s /\ u[b] = s[b]
        <2>1. \A j \in 1..Len(p) : p[j].node # b
            BY <1>1, <1>10 DEF After
        <2> QED BY <1>1, <2>1 DEF After
    <1>11. LostOK(known', ids')
        <2>1. SUFFICES ASSUME NEW b \in DOMAIN known', known'[b].id = b, known'[b].written # b
                       PROVE  known'[b].written \in DOMAIN ids' /\ ids'[known'[b].written] \in Docs
            BY DEF LostOK
        <2>2. b \in 1..Len(u) /\ u[b].id = b /\ u[b].written # b /\ u[b].written = known'[b].written
            BY <1>8, <2>1
        <2>3. b \in DOMAIN s /\ u[b] = s[b]
            BY <1>10, <2>2
        <2>4. s[b].written \in DOMAIN map /\ map[s[b].written] \in Docs
            BY <1>5, <2>2, <2>3 DEF LostOK
        <2> QED BY <1>3, <2>2, <2>3, <2>4 DEF HeardOK, DocsStay
    <1> DEFINE after == Members(all)
    <1>12. /\ OthersAt(d, u, known')
           /\ KeepsIds(u, d) /\ PathsAt(d, u, u, 1..Len(s)) => PathsAt(d, u, known', 1..Len(s) \union after)
        <2>1. known' = Hearing(u, map, all)[Len(all)].nodes
            BY <1>3 DEF state
        <2> HIDE DEF after
        <2>2. LET heard == Hearing(u, map, all)[Len(all)].nodes
              IN  /\ OthersAt(d, u, heard)
                  /\ KeepsIds(u, d) /\ PathsAt(d, u, u, 1..Len(s)) =>
                        PathsAt(d, u, heard, 1..Len(s) \union after)
            <3>1. \A S : LET heard == Hearing(u, map, all)[Len(all)].nodes
                        IN  /\ OthersAt(d, u, heard)
                            /\ KeepsIds(u, d) /\ PathsAt(d, u, u, S) =>
                                  PathsAt(d, u, heard, S \union Members(all))
                BY <1>1, <1>2, HearingPlaces
            <3> QED BY <3>1 DEF after
        <2> QED BY <2>1, <2>2
    <1>13. ASSUME NEW e \in Docs, KeepsIds(known', e), NEW b \in DOMAIN known', known'[b].doc = e
           PROVE  known'[b].path = known'[b].id
        <2>1. b \in 1..Len(u) /\ u[b].doc = e /\ known'[b].id = u[b].id
            BY <1>8, <1>13
        <2>2. KeepsIds(u, e)
            BY <1>8, <1>9, <1>13 DEF KeepsIds
        <2>3. ASSUME KeepsIds(s, e) PROVE \A c \in DOMAIN s : s[c].doc = e => s[c].path = s[c].id
            <3>1. \A c \in DOMAIN s : s[c].doc = e => s[c].id = known[c].id /\ known[c].doc = e
                BY <1>6, <1>7, <2>3 DEF KeepsIds
            <3>2. KeepsIds(known, e)
                BY <1>6, <1>7, <2>3, <3>1 DEF KeepsIds
            <3>3. \A c \in DOMAIN known : known[c].doc = e => known[c].path = known[c].id
                BY <3>2 DEF AInv, Placed
            <3> QED BY <1>6, <1>7, <3>1, <3>3
        <2>4. CASE e = d
            <3>1. KeepsIds(u, d)
                BY <2>2, <2>4
            <3>2. KeepsIds(s, d)
                BY <1>1, <1>5, <3>1, KeptBefore
            <3>3. \A c \in DOMAIN s : s[c].doc = d => s[c].path = s[c].id
                BY <2>3, <2>4, <3>2
            <3>4. PathsAt(d, u, u, 1..Len(s))
                BY <1>1, <1>5, <3>1, <3>3, PlacedBefore
            <3>5. b \in 1..Len(s) \union after
                <4>1. b \in 1..Len(s) \/ b \in (Len(s) + 1)..Len(u)
                    BY <1>9, <2>1
                <4> QED BY <1>2, <4>1 DEF Members
            <3>6. PathsAt(d, u, known', 1..Len(s) \union after)
                BY <1>12, <3>1, <3>4
            <3> HIDE DEF after
            <3> QED BY <2>1, <2>4, <3>5, <3>6 DEF PathsAt
        <2>5. CASE e # d
            <3>1. \A c \in DOMAIN s : s[c].doc = e => c \in 1..Len(u) /\ u[c] = s[c]
                <4>1. SUFFICES ASSUME NEW c \in DOMAIN s, s[c].doc = e
                               PROVE  c \in 1..Len(u) /\ u[c] = s[c]
                    OBVIOUS
                <4>2. c \in 1..Len(u) /\ c <= Len(s)
                    BY <1>7, <1>9, <4>1
                <4>3. ASSUME NEW j \in 1..Len(p), p[j].node = c PROVE FALSE
                    <5>1. Fits(s, map, d, Claims(text[d])[j], p[j])
                        BY <1>1 DEF PushedOK
                    <5>2. s[c].doc = d \/ c > Len(s)
                        BY <4>3, <5>1 DEF Fits
                    <5> QED BY <1>9, <2>5, <4>1, <4>2, <5>2
                <4> QED BY <1>1, <4>2, <4>3 DEF After
            <3>2. KeepsIds(s, e)
                BY <1>9, <2>2, <3>1 DEF KeepsIds
            <3>3. b \in DOMAIN s /\ u[b] = s[b]
                BY <1>10, <2>1, <2>5
            <3>4. known'[b].path = u[b].path
                BY <1>12, <2>1, <2>5 DEF OthersAt
            <3> QED BY <2>1, <2>3, <3>2, <3>3, <3>4
        <2> QED BY <2>4, <2>5
    <1> QED BY <1>11, <1>13 DEF Placed

\* Push finds the node of a heading that has its anchor where its path is.
LEMMA ParseFinds ==
    ASSUME IInv, AInv, NEW d \in Docs, NEW p, NEW all, Done(d, p, all), KeepsIds(known, d),
           NEW i \in 1..Len(text[d]), text[d][i].node # Unparsed,
           text[d][i].anchor = known[text[d][i].node].id,
           text[d][i].anchor = Claims(text[d])[i]
    PROVE  p[i].node = text[d][i].node
    <1> DEFINE s == Clobbered(d)
               map == Named(ids, DocTitle[d], d)
               claim == Claims(text[d])[i]
               b == text[d][i].node
               c == p[i].node
    <1>1. PushedOK(s, map, d, Claims(text[d]), p) /\ Len(p) = Len(text[d])
        BY DEF Done
    <1>2. Fits(s, map, d, claim, p[i])
        BY <1>1 DEF PushedOK
    <1>3. b \in DOMAIN known /\ known[b].doc = d /\ claim = known[b].id
        BY DEF AInv, Owned
    <1>4. known \in Seq(Node) /\ OwnNames(known) /\ Apart(known)
        BY DEF IInv, Coherent
    <1>5. \A x \in DOMAIN known :
              /\ s[x].doc = known[x].doc /\ s[x].path = known[x].path
              /\ s[x].written = known[x].written
        BY ClobberedPaths
    <1>6. DOMAIN s = DOMAIN known
        BY DEF Clobbered
    <1>7. \A x \in DOMAIN known : known[x].doc = d =>
              known[x].path = known[x].written /\ known[x].id = known[x].written /\ known[x].id # x
        BY <1>4 DEF AInv, Placed, KeepsIds, OwnNames
    <1>8. claim # NoId
        <2>1. known[b] \in Node
            BY <1>3, <1>4
        <2>2. known[b].id \in Titles \union Nat
            BY <2>1 DEF Node, Ids
        <2> QED BY <1>3, <2>2, IdentityAssumption
    <1>9. InDatabase(s, b, claim)
        BY <1>3, <1>5, <1>7 DEF InDatabase, Name
    <1> HIDE DEF s, map, claim, b, c
    <1>10. b \in At(s, d, claim)
        BY <1>3, <1>5, <1>6, <1>7, <1>9 DEF At
    <1>11. ~ p[i].new
        BY <1>2, <1>8, <1>10 DEF Fits
    <1>12. c \in DOMAIN known /\ s[c].doc = d /\ s[c].path = claim
        BY <1>2, <1>6, <1>11 DEF Fits, c
    <1>13. known[c].written = known[b].written
        BY <1>3, <1>5, <1>7, <1>12
    <1>14. c = b
        BY <1>3, <1>4, <1>12, <1>13 DEF Apart
    <1> QED BY <1>14 DEF b, c

\* The nodes of headings after a parse.
LEMMA ParseOwns ==
    ASSUME IInv, AInv, NEW d \in Docs, NEW p, NEW all, Done(d, p, all)
    PROVE  /\ \A e \in Docs : \A i \in 1..Len(text'[e]) :
                 LET b == text'[e][i].node
                 IN  b # Unparsed => b \in DOMAIN known' /\ known'[b].doc = e
           /\ Len(text'[d]) = Len(text[d])
           /\ \A i \in 1..Len(text[d]) : text'[d][i].node = p[i].node
    <1> DEFINE s == Clobbered(d)
               u == Updated(s, d, p)
               rows == HeadingsAfter(d, p, Rewritten(s, d, p))
    <1>1. text' = [text EXCEPT ![d] = rows] /\ Len(p) = Len(text[d]) /\ After(s, d, p, u)
          /\ \E map, state : known' = state.nodes /\ HeardOK(u, map, state)
        BY DEF Done
    <1>2. known \in Seq(Node) /\ DOMAIN text = Docs /\ \A e \in Docs : text[e] \in Seq(Texted)
        BY DEF IInv, TypeOK
    <1>3. DOMAIN known' = 1..Len(u) /\ \A b \in 1..Len(u) : known'[b].doc = u[b].doc
        BY <1>1 DEF HeardOK, SameButPaths
    <1>5. DOMAIN rows = 1..Len(text[d]) /\ Len(rows) = Len(text[d])
          /\ \A i \in 1..Len(text[d]) : rows[i].node = p[i].node
        BY <1>2 DEF HeadingsAfter
    <1>6. text'[d] = rows /\ \A e \in Docs \ {d} : text'[e] = text[e]
        BY <1>1, <1>2
    <1> HIDE DEF s, u, rows
    <1>7. ASSUME NEW i \in 1..Len(text[d])
          PROVE  rows[i].node \in DOMAIN known' /\ known'[rows[i].node].doc = d
        <2>1. p[i].node \in 1..Len(u) /\ u[p[i].node].doc = d
            BY <1>1 DEF After
        <2> QED BY <1>3, <1>5, <2>1
    <1>8. ASSUME NEW e \in Docs \ {d}, NEW i \in 1..Len(text[e]), text[e][i].node # Unparsed
          PROVE  text[e][i].node \in DOMAIN known' /\ known'[text[e][i].node].doc = e
        <2> DEFINE b == text[e][i].node
        <2>1. b \in DOMAIN known /\ known[b].doc = e
            BY <1>8 DEF AInv, Owned
        <2>2. Parsed(d, p, known', ids')
            BY DoneParsed
        <2> QED BY <1>2, <2>1, <2>2 DEF Parsed, Coherent
    <1> QED BY <1>5, <1>6, <1>7, <1>8

LEMMA ParseKeepsAnchors ==
    ASSUME IInv, AInv, NEW d \in Docs, Parse(d)
    PROVE  AInv'
    <1>1. PICK p, all : Done(d, p, all)
        BY ParseDoes
    <1>2. LostOK(known', ids') /\ \A e \in Docs : Placed(known', e)
        BY <1>1, ParsePlaces
    <1>3. \A e \in Docs : \A i \in 1..Len(text'[e]) : Owned(text[e][i], e)'
        BY <1>1, ParseOwns DEF Owned
    <1> QED BY <1>2, <1>3 DEF AInv

\* Authors write headings without nodes, and leave others in their documents.
LEMMA AuthorsKeepAnchors ==
    ASSUME IInv, AInv, NEW d \in Docs,
           Write(d) \/ Copy(d) \/ Delete(d) \/ Retitle(d) \/ Strip(d) \/ Swap(d)
    PROVE  AInv'
    <1> DEFINE S == {h \in Texted : Owned(h, d)}
    <1>1. text \in [Docs -> Seq(Texted)]
        BY DEF IInv, TypeOK
    <1>2. text[d] \in Seq(S)
        <2>1. \A i \in 1..Len(text[d]) : text[d][i] \in S
            BY <1>1 DEF AInv
        <2>2. Len(text[d]) \in Nat /\ text[d] = [i \in 1..Len(text[d]) |-> text[d][i]]
            BY <1>1
        <2> HIDE DEF S
        <2> QED BY <2>1, <2>2
    <1>3. \A t \in Titles, a \in Claim : Heading(t, a) \in S
        BY DEF Heading, Texted, Owned, Unparsed
    <1>4. Open(S)
        <2>1. \A t \in Titles, a \in Titles \union {NoId} : Heading(t, a) \in S
            BY <1>3 DEF Claim, Ids
        <2>2. ASSUME NEW e \in Docs, NEW h \in Range(text[e]) PROVE Heading(h.title, h.anchor) \in S
            <3>1. h \in Texted
                BY <1>1 DEF Range
            <3> HIDE DEF S
            <3> QED BY <1>3, <3>1 DEF Texted
        <2>3. ASSUME NEW h \in S, NEW t \in Titles
              PROVE  [h EXCEPT !.title = t] \in S
            BY DEF Texted, Owned
        <2>4. ASSUME NEW h \in S PROVE [h EXCEPT !.anchor = NoId] \in S
            BY DEF Texted, Owned, Claim
        <2> HIDE DEF S
        <2> QED BY <2>1, <2>2, <2>3, <2>4 DEF Open
    <1> HIDE DEF S
    <1>5. PICK headings \in Seq(S) : Change(d, headings)
        BY <1>2, <1>4, AuthorsWrite
    <1>6. text' = [text EXCEPT ![d] = headings] /\ known' = known /\ ids' = ids
        BY <1>5 DEF Change
    <1>7. text'[d] = headings /\ \A e \in Docs \ {d} : text'[e] = text[e]
        BY <1>1, <1>6
    <1>8. \A i \in 1..Len(headings) : Owned(headings[i], d)
        <2>1. \A i \in 1..Len(headings) : headings[i] \in S
            OBVIOUS
        <2> QED BY <2>1 DEF S
    <1>9. ASSUME NEW e \in Docs, NEW i \in 1..Len(text'[e]) PROVE Owned(text[e][i], e)'
        <2>1. Owned(text'[e][i], e)
            <3>1. CASE e = d
                BY <1>7, <1>8, <1>9, <3>1
            <3>2. CASE e # d
                BY <1>7, <1>9, <3>2 DEF AInv
            <3> QED BY <3>1, <3>2
        <2> QED BY <1>6, <2>1 DEF Owned
    <1>10. LostOK(known', ids') /\ \A e \in Docs : Placed(known', e)
        BY <1>6 DEF AInv
    <1> QED BY <1>9, <1>10 DEF AInv

LEMMA NextKeepsAnchors ==
    ASSUME IInv, AInv, [Next]_vars
    PROVE  AInv'
    <1>1. ASSUME NEW d \in Docs,
                 Write(d) \/ Copy(d) \/ Delete(d) \/ Retitle(d) \/ Strip(d) \/ Swap(d)
          PROVE  AInv'
        BY <1>1, AuthorsKeepAnchors
    <1>2. ASSUME NEW d \in Docs, Parse(d) PROVE AInv'
        BY <1>2, ParseKeepsAnchors
    <1>3. ASSUME text' = text /\ known' = known /\ ids' = ids PROVE AInv'
        BY <1>3 DEF AInv, Owned
    <1>4. ASSUME NEW d \in Docs, Annotate(d) PROVE AInv'
        BY <1>3, <1>4 DEF Annotate
    <1> QED BY <1>1, <1>2, <1>3, <1>4 DEF Next, vars

-----------------------------------------------------------------------------
(* The theorems.                                                           *)

LEMMA InitHas ==
    ASSUME Init
    PROVE  IInv
    <1>1. \A d \in Docs : text[d] = <<>> /\ sections[d] = <<>>
        BY DEF Init
    <1>2. known = <<>> /\ ids = <<>> /\ fresh = {} /\ changes = 0
        BY DEF Init
    <1>3. <<>> \in Tables /\ <<>> \in Maps(0)
        <2>1. {} \in SUBSET Ids /\ <<>> \in [{} -> [node : Nat, note : Noting]]
              /\ <<>> \in [{} -> Docs \union 1..0]
            OBVIOUS
        <2>2. <<>> \in Tables
            BY <2>1 DEF Tables
        <2>3. <<>> \in Maps(0)
            BY <2>1 DEF Maps
        <2> QED BY <2>2, <2>3
    <1>4. TypeOK
        <2>1. text \in [Docs -> Seq(Texted)]
            BY DEF Init
        <2>2. sections \in [Docs -> Tables]
            BY <1>3 DEF Init
        <2>3. known \in Seq(Node) /\ ids \in Maps(Len(known))
            BY <1>2, <1>3
        <2> QED BY <1>2, <2>1, <2>2, <2>3 DEF TypeOK
    <1>5. Coherent(known, ids)
        BY <1>2, <1>4 DEF Coherent, TypeOK, OwnNames, Apart, DocsKeep
    <1>6. \A d \in Docs : AnchorsOK(text[d], known) /\ TableOK(d, sections[d], known)
        BY <1>1 DEF AnchorsOK, TableOK
    <1> QED BY <1>2, <1>4, <1>5, <1>6 DEF IInv

LEMMA NextKeeps ==
    ASSUME IInv, [Next]_vars
    PROVE  IInv'
    <1>1. ASSUME NEW d \in Docs,
                 Write(d) \/ Copy(d) \/ Delete(d) \/ Retitle(d) \/ Strip(d) \/ Swap(d)
          PROVE  IInv'
        BY <1>1, AuthorsKeep
    <1>2. ASSUME NEW d \in Docs, Annotate(d) PROVE IInv'
        BY <1>2, AnnotateKeeps
    <1>3. ASSUME NEW d \in Docs, Parse(d) PROVE IInv'
        BY <1>3, ParseKeeps
    <1>4. CASE UNCHANGED vars
        <2>1. text' = text /\ sections' = sections /\ known' = known /\ ids' = ids
              /\ fresh' = fresh /\ changes' = changes
            BY <1>4 DEF vars
        <2>2. TypeOK'
            BY <2>1 DEF IInv, TypeOK
        <2>3. Coherent(known', ids')
            BY <2>1 DEF IInv
        <2>4. \A d \in Docs : AnchorsOK(text'[d], known') /\ TableOK(d, sections'[d], known')
            BY <2>1 DEF IInv
        <2>5. \A d \in fresh' : FreshOK(d, text'[d], known', ids') /\ TableNames(text'[d], sections'[d], known')
            BY <2>1 DEF IInv
        <2> QED BY <2>2, <2>3, <2>4, <2>5 DEF IInv
    <1> QED BY <1>1, <1>2, <1>3, <1>4 DEF Next

LEMMA AlwaysIInv == Spec => []IInv
    <1>1. Init => IInv
        BY InitHas
    <1>2. IInv /\ [Next]_vars => IInv'
        BY NextKeeps
    <1> QED BY <1>1, <1>2, PTL DEF Spec

\* Headings are in texts with titles, anchors and nodes of their own kinds;
\* what is known of nodes, the identifiers and the tables of sections too.
THEOREM IdentityTypeCorrect == Spec => []TypeOK
    <1>1. IInv => TypeOK
        BY DEF IInv
    <1> QED BY <1>1, AlwaysIInv, PTL

\* An identifier names one heading or one document of the network, as long as
\* the texts have not changed since they were parsed: the check in push, and
\* that a document takes its identifier from the heading that has it.
THEOREM IdentifiersStayApart == Spec => []IdsApart
    <1>1. ASSUME IInv PROVE IdsApart
        <2>1. Coherent(known, ids) /\ fresh \in SUBSET Docs
            BY <1>1 DEF IInv, TypeOK
        <2>2. ASSUME NEW b \in Live
              PROVE  b \in DOMAIN known /\ known[b].id = known[b].written
            <3>1. PICK d \in fresh : \E h \in Range(text[d]) : h.node = b
                BY DEF Live
            <3>2. text[d] \in Seq(Texted)
                BY <1>1, <2>1 DEF IInv, TypeOK
            <3>3. PICK i \in 1..Len(text[d]) : text[d][i].node = b
                BY <3>1, <3>2 DEF Range
            <3>4. FreshOK(d, text[d], known, ids)
                BY <1>1 DEF IInv
            <3> QED BY <3>3, <3>4 DEF FreshOK
        <2>3. ASSUME NEW b \in Live, NEW c \in Live \ {b} PROVE known[b].id # known[c].id
            BY <2>1, <2>2 DEF Coherent, Apart
        <2>4. ASSUME NEW b \in Live, NEW d \in fresh PROVE known[b].id # DocTitle[d]
            <3>1. DocTitle[d] \in DOMAIN ids /\ ids[DocTitle[d]] = d
                BY <1>1 DEF IInv, FreshOK
            <3> QED BY <2>1, <2>2, <3>1 DEF Coherent, DocsKeep
        <2> QED BY <2>3, <2>4 DEF IdsApart
    <1> QED BY <1>1, AlwaysIInv, PTL

\* The table of sections in a parsed text leads from the identifiers of its
\* headings to their nodes, and no note is lost in the node when finalize
\* builds the table anew or leaves it.
THEOREM SectionsAlwaysNameNodes == Spec => []SectionsNameNodes
    <1>1. ASSUME IInv PROVE SectionsNameNodes
        <2>1. ASSUME NEW d \in fresh
              PROVE  /\ DOMAIN sections[d] = {known[h.node].id : h \in Range(text[d])}
                     /\ \A h \in Range(text[d]) :
                           LET entry == sections[d][known[h.node].id]
                           IN  /\ entry.node = h.node
                               /\ entry.note # NoNote => known[h.node].note # NoNote
            <3>1. TableNames(text[d], sections[d], known)
                BY <1>1 DEF IInv
            <3>2. text[d] \in Seq(Texted)
                BY <1>1 DEF IInv, TypeOK
            <3> DEFINE m == Len(text[d])
            <3>3. /\ \A h \in Range(text[d]) : \E i \in 1..m : h = text[d][i]
                  /\ \A i \in 1..m : text[d][i] \in Range(text[d])
                BY <3>2 DEF Range
            <3>4. \A x : x \in DOMAIN sections[d] <=> \E i \in 1..m : x = known[text[d][i].node].id
                BY <3>1 DEF TableNames
            <3>5. \A i \in 1..m : LET entry == sections[d][known[text[d][i].node].id]
                                  IN  /\ entry.node = text[d][i].node
                                      /\ entry.note # NoNote => known[text[d][i].node].note # NoNote
                BY <3>1 DEF TableNames
            <3> HIDE DEF m
            <3>6. DOMAIN sections[d] = {known[h.node].id : h \in Range(text[d])}
                BY <3>3, <3>4
            <3>7. ASSUME NEW h \in Range(text[d])
                  PROVE  LET entry == sections[d][known[h.node].id]
                         IN  /\ entry.node = h.node
                             /\ entry.note # NoNote => known[h.node].note # NoNote
                <4>1. PICK i \in 1..m : h = text[d][i]
                    BY <3>3
                <4> QED BY <3>5, <4>1
            <3> QED BY <3>6, <3>7
        <2> QED BY <2>1 DEF SectionsNameNodes
    <1> QED BY <1>1, AlwaysIInv, PTL

LEMMA AlwaysAInv == Spec => [](IInv /\ AInv)
    <1>1. Init => IInv /\ AInv
        <2>1. ASSUME Init PROVE AInv
            BY <2>1 DEF Init, AInv, Placed, KeepsIds, LostOK
        <2> QED BY <2>1, InitHas
    <1>2. IInv /\ AInv /\ [Next]_vars => (IInv /\ AInv)'
        BY NextKeeps, NextKeepsAnchors
    <1> QED BY <1>1, <1>2, PTL DEF Spec

\* A heading whose anchor is the identifier of its node is this node again after
\* a parse, retitled or elsewhere in its document, unless a heading above it
\* claims the anchor or one of the document has ever lost its identifier: then
\* its path is its anchor, where push looks for it.
THEOREM AnchorsAlwaysKeepNodes == Spec => AnchorsKeepNodes
    <1> DEFINE Keep(d) ==
                  Parse(d) /\ (\A b \in DOMAIN known : known[b].doc = d => known[b].id # b)
                  => \A i \in DOMAIN text[d] :
                        LET h == text[d][i]
                        IN  /\ h.node # Unparsed /\ h.anchor = known[h.node].id
                            /\ h.anchor = Claims(text[d])[i]
                            => text'[d][i].node = h.node
    <1>1. ASSUME IInv, AInv, NEW d \in Docs PROVE Keep(d)
        <2>1. SUFFICES ASSUME Parse(d), KeepsIds(known, d), NEW i \in DOMAIN text[d],
                              text[d][i].node # Unparsed,
                              text[d][i].anchor = known[text[d][i].node].id,
                              text[d][i].anchor = Claims(text[d])[i]
                       PROVE  text'[d][i].node = text[d][i].node
            BY DEF KeepsIds
        <2>2. PICK p, all : Done(d, p, all)
            BY <1>1, <2>1, ParseDoes
        <2>3. i \in 1..Len(text[d])
            BY <1>1 DEF IInv, TypeOK
        <2>4. p[i].node = text[d][i].node
            BY <1>1, <2>1, <2>2, <2>3, ParseFinds
        <2>5. text'[d][i].node = p[i].node
            BY <1>1, <2>2, <2>3, ParseOwns
        <2> QED BY <2>4, <2>5
    <1> HIDE DEF Keep
    <1>2. IInv /\ AInv => [\A d \in Docs : Keep(d)]_vars
        BY <1>1
    <1>3. Spec => [][\A d \in Docs : Keep(d)]_vars
        BY <1>2, AlwaysAInv, PTL
    <1> QED BY <1>3 DEF AnchorsKeepNodes, Keep
=============================================================================
