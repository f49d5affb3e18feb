--------------------------- MODULE Workspace_proofs ---------------------------
(***************************************************************************)
(* Proofs about Workspace: what a tool touches and what its result tells,  *)
(* for every disk, workspace, call, permission policy and meddling.        *)
(***************************************************************************)
EXTENDS Workspace, Induction, SequenceTheorems

-----------------------------------------------------------------------------
(* Paths. *)

LEMMA Part ==
  ASSUME NEW path \in Seq(STRING), NEW n \in 0..Len(path)
  PROVE  /\ SubSeq(path, 1, n) \in Seq(STRING)
         /\ Len(SubSeq(path, 1, n)) = n
         /\ \A i \in 1..n : SubSeq(path, 1, n)[i] = path[i]
<1>1. Len(path) \in Nat /\ 1 \in 1..(Len(path) + 1) /\ n \in (1 - 1)..Len(path)
  BY LenProperties
<1>2. \A i \in 1..(n - 1 + 1) : SubSeq(path, 1, n)[i] = path[1 + i - 1]
  BY <1>1, SubSeqProperties
<1>3. Len(SubSeq(path, 1, n)) = IF 1 <= n THEN n - 1 + 1 ELSE 0
  BY <1>1, SubSeqProperties
<1>4. \A i \in 1..n : 1 + i - 1 = i
  OBVIOUS
<1>5. n - 1 + 1 = n /\ (~(1 <= n) => n = 0)
  OBVIOUS
<1>6. SubSeq(path, 1, n) \in Seq(STRING)
  BY <1>1, SubSeqProperties
<1> QED BY <1>2, <1>3, <1>4, <1>5, <1>6

LEMMA Rest ==
  ASSUME NEW path \in Seq(STRING), NEW n \in 0..Len(path), NEW k \in 0..n
  PROVE  /\ SubSeq(path, k + 1, n) \in Seq(STRING)
         /\ Len(SubSeq(path, k + 1, n)) = n - k
         /\ \A i \in 1..(n - k) : SubSeq(path, k + 1, n)[i] = path[k + i]
<1>1. Len(path) \in Nat /\ k + 1 \in 1..(Len(path) + 1) /\ n \in (k + 1 - 1)..Len(path)
  BY LenProperties
<1>2. SubSeq(path, k + 1, n) \in Seq(STRING)
  BY <1>1, SubSeqProperties
<1>3. \A i \in 1..(n - (k + 1) + 1) : SubSeq(path, k + 1, n)[i] = path[k + 1 + i - 1]
  BY <1>1, SubSeqProperties
<1>4. Len(SubSeq(path, k + 1, n)) = IF k + 1 <= n THEN n - (k + 1) + 1 ELSE 0
  BY <1>1, SubSeqProperties
<1>5. \A i \in 1..(n - k) : k + 1 + i - 1 = k + i
  OBVIOUS
<1>6. n - (k + 1) + 1 = n - k /\ (~(k + 1 <= n) => n - k = 0)
  OBVIOUS
<1> QED BY <1>2, <1>3, <1>4, <1>5, <1>6

LEMMA PartOfPart ==
  ASSUME NEW path \in Seq(STRING), NEW m \in 0..Len(path), NEW n \in 0..m
  PROVE  SubSeq(SubSeq(path, 1, m), 1, n) = SubSeq(path, 1, n)
<1> DEFINE part == SubSeq(path, 1, m)
<1>1. Len(path) \in Nat /\ n \in 0..Len(path)
  BY LenProperties
<1>2. part \in Seq(STRING) /\ Len(part) = m /\ \A i \in 1..m : part[i] = path[i]
  BY Part
<1> HIDE DEF part
<1>3. /\ SubSeq(part, 1, n) \in Seq(STRING) /\ Len(SubSeq(part, 1, n)) = n
      /\ \A i \in 1..n : SubSeq(part, 1, n)[i] = part[i]
  <2>1. n \in 0..Len(part)
    BY <1>2
  <2> QED BY <1>2, <2>1, Part
<1>4. /\ SubSeq(path, 1, n) \in Seq(STRING) /\ Len(SubSeq(path, 1, n)) = n
      /\ \A i \in 1..n : SubSeq(path, 1, n)[i] = path[i]
  BY <1>1, Part
<1>5. \A i \in 1..n : i \in 1..m
  BY <1>1
<1>6. \A i \in 1..n : SubSeq(part, 1, n)[i] = SubSeq(path, 1, n)[i]
  BY <1>2, <1>3, <1>4, <1>5
<1>7. SubSeq(part, 1, n) = SubSeq(path, 1, n)
  BY <1>3, <1>4, <1>6, SeqEqual
<1> QED BY <1>7 DEF part

LEMMA WholePart ==
  ASSUME NEW path \in Seq(STRING)
  PROVE  SubSeq(path, 1, Len(path)) = path
<1>1. Len(path) \in Nat /\ Len(path) \in 0..Len(path)
  BY LenProperties
<1>2. /\ SubSeq(path, 1, Len(path)) \in Seq(STRING) /\ Len(SubSeq(path, 1, Len(path))) = Len(path)
      /\ \A i \in 1..Len(path) : SubSeq(path, 1, Len(path))[i] = path[i]
  BY <1>1, Part
<1> QED BY <1>1, <1>2, SeqEqual

LEMMA Concat ==
  ASSUME NEW a \in Seq(STRING), NEW b \in Seq(STRING)
  PROVE  /\ a \o b \in Seq(STRING) /\ Len(a \o b) = Len(a) + Len(b)
         /\ \A i \in 1..(Len(a) + Len(b)) : (a \o b)[i] = IF i <= Len(a) THEN a[i] ELSE b[i - Len(a)]
BY ConcatProperties

\* A path with its end cut off, and what is put before both.
LEMMA Joined ==
  ASSUME NEW to \in Seq(STRING), NEW path \in Seq(STRING), NEW n \in 0..Len(path), NEW k \in 0..n
  PROVE  LET part == to \o SubSeq(path, k + 1, n)
             all  == to \o SubSeq(path, k + 1, Len(path))
         IN  /\ part \in Seq(STRING) /\ all \in Seq(STRING)
             /\ Len(part) = Len(to) + n - k /\ Len(all) = Len(to) + Len(path) - k
             /\ IsPrefix(part, all) /\ IsPrefix(to, all)
             /\ part \o SubSeq(path, n + 1, Len(path)) = all
<1> DEFINE l == Len(path)
           t == Len(to)
           head == SubSeq(path, k + 1, n)
           end  == SubSeq(path, k + 1, l)
           last == SubSeq(path, n + 1, l)
           part == to \o head
           all  == to \o end
           both == part \o last
<1>1. l \in Nat /\ t \in Nat /\ n \in Nat /\ k \in Nat /\ k <= n /\ n <= l
  BY LenProperties
<1>2. head \in Seq(STRING) /\ Len(head) = n - k /\ \A i \in 1..(n - k) : head[i] = path[k + i]
  BY Rest
<1>3. end \in Seq(STRING) /\ Len(end) = l - k /\ \A i \in 1..(l - k) : end[i] = path[k + i]
  <2>1. l \in 0..Len(path) /\ k \in 0..l
    BY <1>1
  <2> QED BY <2>1, Rest
<1>4. last \in Seq(STRING) /\ Len(last) = l - n /\ \A i \in 1..(l - n) : last[i] = path[n + i]
  <2>1. l \in 0..Len(path) /\ n \in 0..l
    BY <1>1
  <2> QED BY <2>1, Rest
<1> HIDE DEF head, end, last, t, l
<1>5. /\ part \in Seq(STRING) /\ Len(part) = t + (n - k)
      /\ \A i \in 1..(t + (n - k)) : part[i] = IF i <= t THEN to[i] ELSE path[k + (i - t)]
  <2>1. /\ part \in Seq(STRING) /\ Len(part) = t + (n - k)
        /\ \A i \in 1..(t + (n - k)) : part[i] = IF i <= t THEN to[i] ELSE head[i - t]
    <3>1. /\ part \in Seq(STRING) /\ Len(part) = Len(to) + Len(head)
          /\ \A i \in 1..(Len(to) + Len(head)) : part[i] = IF i <= Len(to) THEN to[i] ELSE head[i - Len(to)]
      BY <1>2, Concat
    <3> HIDE DEF part
    <3> QED BY <1>2, <3>1 DEF t
  <2>2. \A i \in 1..(t + (n - k)) : ~(i <= t) => i - t \in 1..(n - k)
    BY <1>1
  <2> QED BY <1>2, <2>1, <2>2
<1>6. /\ all \in Seq(STRING) /\ Len(all) = t + (l - k)
      /\ \A i \in 1..(t + (l - k)) : all[i] = IF i <= t THEN to[i] ELSE path[k + (i - t)]
  <2>1. /\ all \in Seq(STRING) /\ Len(all) = t + (l - k)
        /\ \A i \in 1..(t + (l - k)) : all[i] = IF i <= t THEN to[i] ELSE end[i - t]
    <3>1. /\ all \in Seq(STRING) /\ Len(all) = Len(to) + Len(end)
          /\ \A i \in 1..(Len(to) + Len(end)) : all[i] = IF i <= Len(to) THEN to[i] ELSE end[i - Len(to)]
      BY <1>3, Concat
    <3> HIDE DEF all
    <3> QED BY <1>3, <3>1 DEF t
  <2>2. \A i \in 1..(t + (l - k)) : ~(i <= t) => i - t \in 1..(l - k)
    BY <1>1
  <2> QED BY <1>3, <2>1, <2>2
<1> HIDE DEF part, all
<1>7. /\ both \in Seq(STRING) /\ Len(both) = t + (l - k)
      /\ \A i \in 1..(t + (l - k)) : both[i] = all[i]
  <2>1. /\ both \in Seq(STRING) /\ Len(both) = (t + (n - k)) + (l - n)
        /\ \A i \in 1..((t + (n - k)) + (l - n)) :
             both[i] = IF i <= t + (n - k) THEN part[i] ELSE last[i - (t + (n - k))]
    <3>1. /\ both \in Seq(STRING) /\ Len(both) = Len(part) + Len(last)
          /\ \A i \in 1..(Len(part) + Len(last)) : both[i] = IF i <= Len(part) THEN part[i] ELSE last[i - Len(part)]
      BY <1>4, <1>5, Concat
    <3> HIDE DEF both
    <3> QED BY <1>4, <1>5, <3>1 DEF t
  <2>2. (t + (n - k)) + (l - n) = t + (l - k)
    BY <1>1
  <2> HIDE DEF both
  <2>3. ASSUME NEW i \in 1..(t + (l - k)) PROVE both[i] = all[i]
    <3>1. CASE i <= t + (n - k)
      <4>1. i \in 1..(t + (n - k))
        BY <1>1, <3>1
      <4>2. both[i] = part[i]
        BY <2>1, <2>2, <3>1
      <4> QED BY <1>5, <1>6, <4>1, <4>2
    <3>2. CASE ~(i <= t + (n - k))
      <4> DEFINE j == i - (t + (n - k))
      <4>1. j \in 1..(l - n) /\ n + j = k + (i - t) /\ ~(i <= t)
        BY <1>1, <3>2
      <4>2. both[i] = last[j]
        BY <2>1, <2>2, <3>2
      <4> HIDE DEF j
      <4>3. last[j] = path[n + j]
        BY <1>4, <4>1
      <4>4. all[i] = path[k + (i - t)]
        BY <1>6, <4>1
      <4> QED BY <4>1, <4>2, <4>3, <4>4
    <3> QED BY <3>1, <3>2
  <2> QED BY <2>1, <2>2, <2>3
<1> HIDE DEF both
<1>8. both = all
  BY <1>6, <1>7, SeqEqual
<1>9. ASSUME NEW p \in Seq(STRING), Len(p) <= Len(all), \A i \in 1..Len(p) : p[i] = all[i]
      PROVE  IsPrefix(p, all)
  <2>1. Len(p) \in 0..Len(p) /\ Len(p) \in 0..Len(all)
    BY <1>1, <1>6, <1>9, LenProperties
  <2>2. /\ SubSeq(p, 1, Len(p)) \in Seq(STRING) /\ Len(SubSeq(p, 1, Len(p))) = Len(p)
        /\ \A i \in 1..Len(p) : SubSeq(p, 1, Len(p))[i] = p[i]
    BY <2>1, Part
  <2>3. /\ SubSeq(all, 1, Len(p)) \in Seq(STRING) /\ Len(SubSeq(all, 1, Len(p))) = Len(p)
        /\ \A i \in 1..Len(p) : SubSeq(all, 1, Len(p))[i] = all[i]
    BY <1>6, <2>1, Part
  <2>4. SubSeq(p, 1, Len(p)) = SubSeq(all, 1, Len(p))
    BY <1>9, <2>2, <2>3, SeqEqual
  <2> QED BY <1>9, <2>4 DEF IsPrefix
<1>10. IsPrefix(part, all)
  <2>1. t + (n - k) <= t + (l - k) /\ \A i \in 1..(t + (n - k)) : i \in 1..(t + (l - k))
    BY <1>1
  <2>2. \A i \in 1..Len(part) : part[i] = all[i]
    BY <1>5, <1>6, <2>1
  <2> QED BY <1>5, <1>6, <1>9, <2>1, <2>2
<1>11. IsPrefix(to, all)
  <2>1. t <= t + (l - k) /\ \A i \in 1..t : i \in 1..(t + (l - k)) /\ i <= t
    BY <1>1
  <2>2. \A i \in 1..Len(to) : to[i] = all[i]
    BY <1>6, <2>1 DEF t
  <2> QED BY <1>6, <1>9, <2>1, <2>2 DEF t
<1>12. Len(part) = t + n - k /\ Len(all) = t + l - k
  BY <1>1, <1>5, <1>6
<1> QED BY <1>5, <1>6, <1>8, <1>10, <1>11, <1>12 DEF part, all, both, head, end, last, t, l

-----------------------------------------------------------------------------
(* Links. *)

LinksOn(d, path) == {n \in DOMAIN path : SubSeq(path, 1, n) \in Links(d)}

\* k is where the first link on the path is.
FirstLink(d, path, k) == k \in LinksOn(d, path) /\ \A n \in LinksOn(d, path) : k <= n

Followed(d, path, k, to) == to \o SubSeq(path, k + 1, Len(path))

LEMMA RealIs ==
  ASSUME NEW d, NEW path \in Seq(STRING)
  PROVE  \/ LinksOn(d, path) = {} /\ Real(d, path) = path
         \/ \E k \in 1..Len(path) :
              FirstLink(d, path, k) /\ Real(d, path) = Followed(d, path, k, d[SubSeq(path, 1, k)].to)
<1> DEFINE links == {n \in DOMAIN path : SubSeq(path, 1, n) \in DOMAIN d /\ d[SubSeq(path, 1, n)].is = "link"}
           first == Min(links)
<1>1. links = LinksOn(d, path)
  BY DEF LinksOn, Links
<1>2. Real(d, path) = IF links = {} THEN path
                      ELSE d[SubSeq(path, 1, first)].to \o SubSeq(path, first + 1, Len(path))
  BY DEF Real
<1>3. links \subseteq 1..Len(path) /\ links \in SUBSET Nat
  BY LenProperties
<1> HIDE DEF links
<1>4. CASE links = {}
  BY <1>1, <1>2, <1>4
<1>5. CASE links # {}
  <2>1. \E x \in links : \A y \in links : x <= y
    BY <1>3, <1>5, LeastExists
  <2>2. first \in links /\ \A y \in links : first <= y
    BY <2>1 DEF Min
  <2> HIDE DEF first
  <2>3. FirstLink(d, path, first) /\ first \in 1..Len(path)
    BY <1>1, <1>3, <2>2 DEF FirstLink
  <2>4. Real(d, path) = Followed(d, path, first, d[SubSeq(path, 1, first)].to)
    BY <1>2, <1>5 DEF Followed
  <2> QED BY <2>3, <2>4
<1> QED BY <1>4, <1>5

\* There is one first link.
LEMMA RealUnique ==
  ASSUME NEW d, NEW path \in Seq(STRING), NEW k \in 1..Len(path), FirstLink(d, path, k)
  PROVE  Real(d, path) = Followed(d, path, k, d[SubSeq(path, 1, k)].to)
<1>1. LinksOn(d, path) # {}
  BY DEF FirstLink
<1>2. PICK j \in 1..Len(path) :
        FirstLink(d, path, j) /\ Real(d, path) = Followed(d, path, j, d[SubSeq(path, 1, j)].to)
  BY <1>1, RealIs
<1>3. j <= k /\ k <= j /\ j \in Nat /\ k \in Nat
  BY <1>2, LenProperties DEF FirstLink
<1>4. j = k
  BY <1>3
<1> QED BY <1>2, <1>4

\* Where a path leads depends only on the links.
LEMMA RealSame ==
  ASSUME NEW d, NEW e, NEW path \in Seq(STRING),
         Links(e) = Links(d), \A link \in Links(d) : e[link] = d[link]
  PROVE  Real(e, path) = Real(d, path)
<1>1. LinksOn(e, path) = LinksOn(d, path)
  BY DEF LinksOn
<1>2. CASE LinksOn(d, path) = {}
  <2>1. \A k : ~FirstLink(d, path, k) /\ ~FirstLink(e, path, k)
    BY <1>1, <1>2 DEF FirstLink
  <2>2. Real(d, path) = path
    BY <2>1, RealIs
  <2>3. Real(e, path) = path
    BY <2>1, RealIs
  <2> QED BY <2>2, <2>3
<1>3. CASE LinksOn(d, path) # {}
  <2>1. PICK k \in 1..Len(path) :
          FirstLink(d, path, k) /\ Real(d, path) = Followed(d, path, k, d[SubSeq(path, 1, k)].to)
    BY <1>3, RealIs
  <2>2. FirstLink(e, path, k) /\ SubSeq(path, 1, k) \in Links(d)
    BY <1>1, <2>1 DEF FirstLink, LinksOn
  <2>3. Real(e, path) = Followed(e, path, k, e[SubSeq(path, 1, k)].to)
    BY <2>2, RealUnique
  <2> QED BY <2>1, <2>2, <2>3 DEF Followed
<1> QED BY <1>2, <1>3

\* What a path leads to is a path, and no link.
LEMMA RealIsNoLink ==
  ASSUME NEW d, IsTree(d), LinksLeadOnce(d), NEW path \in Seq(STRING)
  PROVE  Real(d, path) \in Seq(STRING) \ Links(d)
<1>0. Len(path) \in Nat
  BY LenProperties
<1>1. CASE LinksOn(d, path) = {}
  <2>1. Real(d, path) = path
    BY <1>1, RealIs DEF FirstLink
  <2>2. path \notin Links(d)
    <3> SUFFICES ASSUME path \in Links(d) PROVE FALSE
      OBVIOUS
    <3>1. path # <<>>
      BY DEF IsTree
    <3>2. Len(path) \in DOMAIN path
      BY <1>0, <3>1, EmptySeq, LenProperties
    <3>3. SubSeq(path, 1, Len(path)) = path
      BY WholePart
    <3> QED BY <1>1, <3>2, <3>3 DEF LinksOn
  <2> QED BY <2>1, <2>2
<1>2. CASE LinksOn(d, path) # {}
  <2>1. PICK k \in 1..Len(path) :
          FirstLink(d, path, k) /\ Real(d, path) = Followed(d, path, k, d[SubSeq(path, 1, k)].to)
    BY <1>2, RealIs
  <2> DEFINE link == SubSeq(path, 1, k)
             to   == d[link].to
  <2>2. link \in Links(d)
    BY <2>1 DEF FirstLink, LinksOn
  <2>3. to \in Seq(STRING) /\ \A other \in Links(d) : ~IsPrefix(to, other)
    BY <2>2 DEF LinksLeadOnce
  <2> HIDE DEF link, to
  <2>4. Len(path) \in 0..Len(path) /\ k \in 0..Len(path)
    BY <1>0
  <2>5. Followed(d, path, k, to) \in Seq(STRING) /\ IsPrefix(to, Followed(d, path, k, to))
    BY <2>3, <2>4, Joined DEF Followed
  <2> QED BY <2>1, <2>3, <2>5 DEF link, to
<1> QED BY <1>1, <1>2

\* What is made in a directory, or replaces something that is no link there,
\* leaves a tree with the same links.
LEMMA TreeGrows ==
  ASSUME NEW d, NEW e, IsTree(d), LinksLeadOnce(d),
         NEW new \in Seq(STRING), new # <<>>, Front(new) \in DOMAIN d, new \notin Links(d),
         DOMAIN e = DOMAIN d \cup {new}, \A path \in DOMAIN d \ {new} : e[path] = d[path],
         e[new].is # "link"
  PROVE  /\ IsTree(e) /\ LinksLeadOnce(e)
         /\ Links(e) = Links(d) /\ \A link \in Links(d) : e[link] = d[link]
<1>1. \A link \in Links(d) : link \in DOMAIN d \ {new} /\ e[link] = d[link] /\ link \in Links(e)
  <2> SUFFICES ASSUME NEW link \in Links(d)
               PROVE  link \in DOMAIN d \ {new} /\ e[link] = d[link] /\ link \in Links(e)
    OBVIOUS
  <2>1. link \in DOMAIN d \ {new} /\ d[link].is = "link"
    BY DEF Links
  <2> QED BY <2>1 DEF Links
<1>2. Links(e) \subseteq Links(d)
  <2> SUFFICES ASSUME NEW link \in Links(e) PROVE link \in Links(d)
    OBVIOUS
  <2>1. link \in DOMAIN e /\ e[link].is = "link" /\ link # new
    BY DEF Links
  <2>2. link \in DOMAIN d \ {new}
    BY <2>1
  <2> QED BY <2>1, <2>2 DEF Links
<1>3. Links(e) = Links(d)
  BY <1>1, <1>2
<1>4. LinksLeadOnce(e)
  BY <1>1, <1>3 DEF LinksLeadOnce
<1>5. ASSUME NEW path \in DOMAIN e
      PROVE  path \in Seq(STRING) /\ \A n \in 0..Len(path) : SubSeq(path, 1, n) \in DOMAIN e
  <2>1. CASE path \in DOMAIN d
    BY <2>1 DEF IsTree
  <2>2. CASE path = new
    <3> SUFFICES ASSUME NEW n \in 0..Len(new) PROVE SubSeq(new, 1, n) \in DOMAIN e
      BY <2>2
    <3>1. Len(new) \in Nat /\ Len(new) # 0
      BY EmptySeq, LenProperties
    <3>2. CASE n = Len(new)
      BY <3>2, WholePart
    <3>3. CASE n # Len(new)
      <4>1. n \in 0..(Len(new) - 1) /\ Len(new) - 1 \in 0..Len(new)
        BY <3>1, <3>3
      <4>2. Len(Front(new)) = Len(new) - 1 /\ Front(new) = SubSeq(new, 1, Len(new) - 1)
        BY <4>1, Part DEF Front
      <4>3. SubSeq(Front(new), 1, n) = SubSeq(new, 1, n)
        BY <4>1, <4>2, PartOfPart
      <4>4. SubSeq(Front(new), 1, n) \in DOMAIN d
        BY <4>1, <4>2 DEF IsTree
      <4> QED BY <4>3, <4>4
    <3> QED BY <3>2, <3>3
  <2> QED BY <2>1, <2>2
<1>6. <<>> \in DOMAIN e \ Links(e)
  BY <1>3 DEF IsTree
<1>7. IsTree(e)
  BY <1>5, <1>6 DEF IsTree
<1> QED BY <1>1, <1>3, <1>4, <1>7

\* The part of a path up to n has the links of the path up to n.
LEMMA LinksOnPart ==
  ASSUME NEW d, NEW path \in Seq(STRING), NEW n \in 0..Len(path)
  PROVE  LinksOn(d, SubSeq(path, 1, n)) = LinksOn(d, path) \cap (1..n)
<1> DEFINE part == SubSeq(path, 1, n)
<1>1. Len(path) \in Nat /\ DOMAIN path = 1..Len(path)
  BY LenProperties
<1>2. part \in Seq(STRING) /\ Len(part) = n /\ DOMAIN part = 1..n
  <2>1. part \in Seq(STRING) /\ Len(part) = n
    BY Part
  <2> HIDE DEF part
  <2> QED BY <2>1, LenProperties
<1>3. \A i \in 1..n : SubSeq(part, 1, i) = SubSeq(path, 1, i)
  <2> SUFFICES ASSUME NEW i \in 1..n PROVE SubSeq(part, 1, i) = SubSeq(path, 1, i)
    OBVIOUS
  <2>1. i \in 0..n
    OBVIOUS
  <2> QED BY <2>1, PartOfPart
<1> HIDE DEF part
<1>4. LinksOn(d, part) = LinksOn(d, path) \cap (1..n)
  <2>1. \A i \in 1..n : i \in 1..Len(path)
    BY <1>1
  <2> QED BY <1>1, <1>2, <1>3, <2>1 DEF LinksOn
<1> QED BY <1>4 DEF part

\* Beyond the last link, a part of a path leads to a part of where it leads.
LEMMA RealOfPart ==
  ASSUME NEW d, LinksLeadOnce(d), NEW path \in Seq(STRING), NEW n \in 0..Len(path),
         \A k \in LinksOn(d, path) : k <= n
  PROVE  LET part == Real(d, SubSeq(path, 1, n))
         IN  /\ part \in Seq(STRING) /\ Real(d, path) \in Seq(STRING)
             /\ IsPrefix(part, Real(d, path))
             /\ part \o SubSeq(path, n + 1, Len(path)) = Real(d, path)
             /\ n < Len(path) => part # Real(d, path)
<1> DEFINE piece == SubSeq(path, 1, n)
           rest  == SubSeq(path, n + 1, Len(path))
<1>1. Len(path) \in Nat /\ n \in Nat /\ n <= Len(path) /\ DOMAIN path = 1..Len(path)
  BY LenProperties
<1>2. piece \in Seq(STRING) /\ Len(piece) = n
  BY Part
<1>3. LinksOn(d, path) \subseteq 1..n
  <2>1. \A k \in LinksOn(d, path) : k \in 1..Len(path) /\ k <= n
    BY <1>1 DEF LinksOn
  <2> QED BY <1>1, <2>1
<1>4. LinksOn(d, piece) = LinksOn(d, path)
  <2>1. LinksOn(d, piece) = LinksOn(d, path) \cap (1..n)
    BY LinksOnPart
  <2> QED BY <1>3, <2>1
<1>5. CASE LinksOn(d, path) = {}
  <2>1. Real(d, path) = path
    BY <1>5, RealIs DEF FirstLink
  <2>2. Real(d, piece) = piece
    <3> HIDE DEF piece
    <3> QED BY <1>2, <1>4, <1>5, RealIs DEF FirstLink
  <2>3. <<>> \in Seq(STRING) /\ Len(<<>>) = 0 /\ 0 \in 0..n /\ SubSeq(path, 0 + 1, n) = piece
        /\ SubSeq(path, 0 + 1, Len(path)) = path
    BY <1>1, EmptySeq, WholePart
  <2>4. <<>> \o piece = piece /\ <<>> \o path = path
    <3> HIDE DEF piece
    <3> QED BY <1>2, ConcatEmptySeq
  <2>5. IsPrefix(piece, path) /\ piece \o rest = path
    <3>1. LET part == <<>> \o SubSeq(path, 0 + 1, n)
              all  == <<>> \o SubSeq(path, 0 + 1, Len(path))
          IN  IsPrefix(part, all) /\ part \o rest = all
      BY <2>3, Joined
    <3> HIDE DEF piece, rest
    <3> QED BY <2>3, <2>4, <3>1
  <2>6. n < Len(path) => piece # path
    <3> HIDE DEF piece
    <3> QED BY <1>1, <1>2
  <2> QED BY <1>2, <2>1, <2>2, <2>5, <2>6
<1>6. CASE LinksOn(d, path) # {}
  <2>1. PICK k \in 1..Len(path) :
          FirstLink(d, path, k) /\ Real(d, path) = Followed(d, path, k, d[SubSeq(path, 1, k)].to)
    BY <1>6, RealIs
  <2> DEFINE to == d[SubSeq(path, 1, k)].to
  <2>2. k \in 1..n /\ k \in 0..n
    <3>1. k \in 1..n
      BY <1>3, <2>1 DEF FirstLink
    <3> QED BY <3>1
  <2>3. SubSeq(piece, 1, k) = SubSeq(path, 1, k)
    BY <2>2, PartOfPart
  <2>4. FirstLink(d, piece, k)
    BY <1>4, <2>1 DEF FirstLink
  <2>5. Real(d, piece) = Followed(d, piece, k, to)
    <3>1. k \in 1..Len(piece)
      BY <1>2, <2>2
    <3>2. Real(d, piece) = Followed(d, piece, k, d[SubSeq(piece, 1, k)].to)
      <4> HIDE DEF piece
      <4> QED BY <1>2, <2>4, <3>1, RealUnique
    <3> QED BY <2>3, <3>2
  <2>6. to \in Seq(STRING)
    <3>1. SubSeq(path, 1, k) \in Links(d)
      BY <2>1 DEF FirstLink, LinksOn
    <3> QED BY <3>1 DEF LinksLeadOnce
  <2>7. SubSeq(piece, k + 1, Len(piece)) = SubSeq(path, k + 1, n)
    <3>1. /\ SubSeq(piece, k + 1, n) \in Seq(STRING) /\ Len(SubSeq(piece, k + 1, n)) = n - k
          /\ \A i \in 1..(n - k) : SubSeq(piece, k + 1, n)[i] = piece[k + i]
      <4>1. n \in 0..Len(piece)
        BY <1>1, <1>2
      <4> HIDE DEF piece
      <4> QED BY <1>2, <2>2, <4>1, Rest
    <3>2. /\ SubSeq(path, k + 1, n) \in Seq(STRING) /\ Len(SubSeq(path, k + 1, n)) = n - k
          /\ \A i \in 1..(n - k) : SubSeq(path, k + 1, n)[i] = path[k + i]
      BY <2>2, Rest
    <3>3. \A i \in 1..n : piece[i] = path[i]
      BY Part
    <3>4. \A i \in 1..(n - k) : k + i \in 1..n
      BY <1>1, <2>2
    <3>5. \A i \in 1..(n - k) : SubSeq(piece, k + 1, n)[i] = SubSeq(path, k + 1, n)[i]
      BY <3>1, <3>2, <3>3, <3>4
    <3>6. SubSeq(piece, k + 1, n) = SubSeq(path, k + 1, n)
      BY <3>1, <3>2, <3>5, SeqEqual
    <3> QED BY <1>2, <3>6
  <2>8. Real(d, piece) = to \o SubSeq(path, k + 1, n) /\ Real(d, path) = to \o SubSeq(path, k + 1, Len(path))
    BY <2>1, <2>5, <2>7 DEF Followed
  <2>9. LET part == to \o SubSeq(path, k + 1, n)
            all  == to \o SubSeq(path, k + 1, Len(path))
        IN  /\ part \in Seq(STRING) /\ all \in Seq(STRING)
            /\ Len(part) = Len(to) + n - k /\ Len(all) = Len(to) + Len(path) - k
            /\ IsPrefix(part, all) /\ part \o rest = all
    <3> HIDE DEF to
    <3> QED BY <2>2, <2>6, Joined
  <2>10. n < Len(path) => Len(Real(d, piece)) # Len(Real(d, path))
    <3>1. Len(to) \in Nat /\ k \in Nat
      BY <2>2, <2>6, LenProperties
    <3> HIDE DEF to, piece
    <3> QED BY <1>1, <2>8, <2>9, <3>1
  <2> HIDE DEF to
  <2> QED BY <2>8, <2>9, <2>10
<1> QED BY <1>5, <1>6

\* Unless a link leads nowhere, the check resolves a path to where it leads.
LEMMA ResolveIsReal ==
  ASSUME NEW d, IsTree(d), LinksLeadOnce(d), NEW path \in Seq(STRING),
         \A n \in DOMAIN path : SubSeq(path, 1, n) \in DOMAIN d => Exists(d, SubSeq(path, 1, n))
  PROVE  resolve_real_path(d, path) = Real(d, path)
<1> DEFINE found == {n \in 0..Len(path) : Exists(d, SubSeq(path, 1, n))}
           m     == Max(found)
<1>1. Len(path) \in Nat /\ DOMAIN path = 1..Len(path)
  BY LenProperties
<1>2. found \in SUBSET (0..Len(path)) /\ found # {}
  <2>1. SubSeq(path, 1, 0) = <<>>
    <3>1. 0 \in 0..Len(path)
      BY <1>1
    <3> QED BY <3>1, Part, EmptySeq
  <2>2. Real(d, <<>>) = <<>>
    <3>1. <<>> \in Seq(STRING) /\ \A k : k \notin 1..Len(<<>>)
      BY EmptySeq
    <3> QED BY <3>1, RealIs
  <2>3. Exists(d, SubSeq(path, 1, 0))
    BY <2>1, <2>2 DEF Exists, IsTree
  <2> QED BY <1>1, <2>3
<1>3. \A k \in LinksOn(d, path) : k \in found
  BY <1>1 DEF LinksOn, Links
<1>4. nearest_existing_ancestor(d, path) = SubSeq(path, 1, m)
  BY DEF nearest_existing_ancestor
<1> HIDE DEF found
<1>5. m \in found /\ \A n \in found : m >= n
  <2>1. \E x \in found : \A y \in found : x >= y
    BY <1>1, <1>2, GreatestExists
  <2> QED BY <2>1 DEF Max
<1> HIDE DEF m
<1>6. m \in 0..Len(path) /\ \A k \in LinksOn(d, path) : k <= m
  BY <1>2, <1>3, <1>5
<1>7. Real(d, SubSeq(path, 1, m)) \o SubSeq(path, m + 1, Len(path)) = Real(d, path)
  BY <1>6, RealOfPart
<1>8. Len(SubSeq(path, 1, m)) = m
  BY <1>6, Part
<1> QED BY <1>4, <1>7, <1>8 DEF resolve_real_path

\* A directory still to be made is on the way to where the path leads.
LEMMA RealOfParent ==
  ASSUME NEW d, IsTree(d), LinksLeadOnce(d), NEW path \in Seq(STRING),
         NEW n \in 0..(Len(path) - 1), SubSeq(path, 1, n) \notin DOMAIN d
  PROVE  LET real == Real(d, SubSeq(path, 1, n))
         IN  real \in Seq(STRING) /\ IsPrefix(real, Real(d, path)) /\ real # Real(d, path)
<1>1. Len(path) \in Nat /\ n \in 0..Len(path) /\ n < Len(path) /\ DOMAIN path = 1..Len(path)
  BY LenProperties
<1>2. ASSUME NEW k \in LinksOn(d, path) PROVE k <= n
  <2> SUFFICES ASSUME n < k PROVE FALSE
    BY <1>1 DEF LinksOn
  <2>1. k \in 1..Len(path) /\ SubSeq(path, 1, k) \in DOMAIN d
    BY <1>1 DEF LinksOn, Links
  <2>2. k \in 0..Len(path) /\ n \in 0..k
    BY <1>1, <2>1
  <2>3. SubSeq(SubSeq(path, 1, k), 1, n) = SubSeq(path, 1, n) /\ Len(SubSeq(path, 1, k)) = k
    BY <2>2, PartOfPart, Part
  <2>4. SubSeq(SubSeq(path, 1, k), 1, n) \in DOMAIN d
    BY <2>1, <2>2, <2>3 DEF IsTree
  <2> QED BY <2>3, <2>4
<1> QED BY <1>1, <1>2, RealOfPart

-----------------------------------------------------------------------------
(* The invariant. *)

\* Where a call of each tool is.
PhaseOfCall ==
  \/ at \in {"called", "returned"}
  \/ at = "reading" /\ input.tool = "read_file"
  \/ at = "listing" /\ input.tool = "list_dir"
  \/ at \in {"making dirs", "opening", "writing"} /\ input.tool = "write_file" /\ input.content # {}
  \/ at \in {"spawning", "running"} /\ input.tool = "shell"

\* Nothing is touched before the disk is used.
UntouchedBefore == at \in {"called", "reading", "listing", "spawning", "running"} => touched = {}

\* As long as nobody else changes it the disk is a tree, in which the tool has
\* changed only what it touched; that is its target and what is on the way there.
DiskInStep ==
  ~meddled =>
    /\ IsTree(disk) /\ LinksLeadOnce(disk)
    /\ touched = {} \/ input.tool # "write_file" => disk = before
    /\ \A path \in DOMAIN disk : path \in touched \/ disk[path] = before[path]
    /\ \A path \in touched : IsPrefix(path, Target)
    /\ at = "writing" => opened = {Target} /\ Target # <<>> /\ Target \in touched \cap DOMAIN disk

\* What is about to be used was checked.
AllowedInUse ==
  ~meddled /\ ~nowhere /\ at \in {"reading", "listing", "making dirs", "opening", "writing"} =>
    is_path_allowed_syntactic(Target, workspace)

Inv ==
  /\ input \in Inputs /\ safe_path \in Seq(STRING)
  /\ PhaseOfCall
  /\ UntouchedBefore
  /\ DiskInStep
  /\ AllowedInUse
  /\ TouchesOnlyAllowed
  /\ ResultTellsWhatHappened

-----------------------------------------------------------------------------
(* The check of the path. *)

LEMMA NormalizeStepType ==
  ASSUME NEW out \in Seq(STRING), NEW part \in STRING
  PROVE  NormalizeStep(out, part) \in Seq(STRING)
<1>1. out # <<>> => Front(out) \in Seq(STRING)
  <2> SUFFICES ASSUME out # <<>> PROVE Front(out) \in Seq(STRING)
    OBVIOUS
  <2>1. Len(out) - 1 \in 0..Len(out)
    BY EmptySeq, LenProperties
  <2> QED BY <2>1, Part DEF Front
<1>2. Append(out, part) \in Seq(STRING)
  BY AppendProperties
<1> HIDE DEF Front
<1> QED BY <1>1, <1>2 DEF NormalizeStep

LEMMA NormalizedIsPath ==
  ASSUME NEW parts \in Seq(STRING)
  PROVE  normalize_path(parts) \in Seq(STRING)
<1> DEFINE k == Len(parts)
           out == CHOOSE f : f = [n \in 0..k |-> IF n = 0 THEN <<>> ELSE NormalizeStep(f[n - 1], parts[n])]
           step == [n \in 1..k |-> [seen \in Seq(STRING) |-> NormalizeStep(seen, parts[n])]]
<1>1. k \in Nat /\ \A n \in 1..k : parts[n] \in STRING
  BY LenProperties, ElementOfSeq
<1>2. <<>> \in Seq(STRING)
  BY EmptySeq
<1>3. normalize_path(parts) = out[k]
  BY DEF normalize_path
<1> HIDE DEF k
<1>4. step \in [1..k -> [Seq(STRING) -> Seq(STRING)]]
  <2> DEFINE S == Seq(STRING)
  <2>1. \A n \in 1..k : \A seen \in S : NormalizeStep(seen, parts[n]) \in S
    BY <1>1, NormalizeStepType
  <2> HIDE DEF S
  <2>2. [n \in 1..k |-> [seen \in S |-> NormalizeStep(seen, parts[n])]] \in [1..k -> [S -> S]]
    BY <2>1
  <2> QED BY <2>2 DEF S
<1>5. \A n \in 1..k : \A seen \in Seq(STRING) : step[n][seen] = NormalizeStep(seen, parts[n])
  OBVIOUS
<1> HIDE DEF step
<1>6. PICK f \in [0..k -> Seq(STRING)] : \A n \in 0..k : f[n] = IF n = 0 THEN <<>> ELSE step[n][f[n - 1]]
  <2> DEFINE S == Seq(STRING)
             nothing == <<>>
  <2>1. nothing \in S /\ step \in [1..k -> [S -> S]]
    BY <1>2, <1>4
  <2> HIDE DEF S, nothing
  <2>2. PICK f : IsRun(f, S, nothing, step, k)
    BY <1>1, <2>1, RunExists
  <2>3. f \in [0..k -> S] /\ \A n \in 0..k : f[n] = IF n = 0 THEN nothing ELSE step[n][f[n - 1]]
    BY <2>2 DEF IsRun
  <2> QED BY <2>3 DEF S, nothing
<1>7. \A n \in 0..k : f[n] = IF n = 0 THEN <<>> ELSE NormalizeStep(f[n - 1], parts[n])
  <2> SUFFICES ASSUME NEW n \in 0..k PROVE f[n] = IF n = 0 THEN <<>> ELSE NormalizeStep(f[n - 1], parts[n])
    OBVIOUS
  <2>1. n # 0 => n \in 1..k /\ n - 1 \in 0..k
    BY <1>1
  <2>2. n # 0 => f[n - 1] \in Seq(STRING)
    BY <1>6, <2>1
  <2> QED BY <1>5, <1>6, <2>1, <2>2
<1>8. f = [n \in 0..k |-> IF n = 0 THEN <<>> ELSE NormalizeStep(f[n - 1], parts[n])]
  <2>1. f = [n \in 0..k |-> f[n]]
    BY <1>6
  <2>2. [n \in 0..k |-> f[n]] = [n \in 0..k |-> IF n = 0 THEN <<>> ELSE NormalizeStep(f[n - 1], parts[n])]
    BY <1>7
  <2> QED BY <2>1, <2>2
<1>9. out = [n \in 0..k |-> IF n = 0 THEN <<>> ELSE NormalizeStep(out[n - 1], parts[n])]
  BY <1>8
<1> HIDE DEF out
<1> DEFINE T == {n \in 0..k : out[n] \in Seq(STRING)}
<1>10. 0..k \subseteq T
  <2>1. 0 \in T
    BY <1>1, <1>2, <1>9
  <2>2. ASSUME NEW n \in 0..(k - 1), n \in T PROVE n + 1 \in T
    <3>1. n + 1 \in 0..k /\ n + 1 # 0 /\ (n + 1) - 1 = n /\ n + 1 \in 1..k
      BY <1>1
    <3>2. out[n + 1] = NormalizeStep(out[n], parts[n + 1])
      BY <1>9, <3>1
    <3>3. out[n] \in Seq(STRING)
      BY <2>2
    <3>4. out[n + 1] \in Seq(STRING)
      BY <1>1, <3>1, <3>2, <3>3, NormalizeStepType
    <3> QED BY <3>1, <3>4
  <2> HIDE DEF T
  <2> QED BY <1>1, <2>1, <2>2, IntervalFromZero
<1>11. k \in T
  BY <1>1, <1>10
<1> QED BY <1>3, <1>11 DEF T

LEMMA ResolvedIsPath ==
  ASSUME NEW called \in Inputs, NEW path \in called.path
  PROVE  Resolved(path, working_dir) \in Seq(STRING)
<1>1. path.parts \in Seq(STRING) /\ working_dir \in Seq(STRING)
  BY WorkspaceAssumption
<1>2. working_dir \o path.parts \in Seq(STRING)
  BY <1>1, ConcatProperties
<1> QED BY <1>1, <1>2, NormalizedIsPath DEF Resolved

\* An allowed path that goes through no link to nowhere leads to an allowed one.
LEMMA CheckedLeadsToAllowed ==
  ASSUME NEW d, IsTree(d), LinksLeadOnce(d), NEW path, NEW config,
         Resolved(path, working_dir) \in Seq(STRING),
         resolve_and_check_path(d, path, working_dir, config) # {},
         \A n \in DOMAIN Resolved(path, working_dir) :
           SubSeq(Resolved(path, working_dir), 1, n) \in DOMAIN d =>
             Exists(d, SubSeq(Resolved(path, working_dir), 1, n))
  PROVE  is_path_allowed_syntactic(Real(d, Resolved(path, working_dir)), config)
<1> DEFINE safe == Resolved(path, working_dir)
<1>1. is_path_allowed(d, safe, config)
  BY DEF resolve_and_check_path
<1> HIDE DEF safe
<1>2. is_path_allowed_syntactic(resolve_real_path(d, safe), config)
  BY <1>1 DEF is_path_allowed
<1>3. resolve_real_path(d, safe) = Real(d, safe)
  BY ResolveIsReal DEF safe
<1> QED BY <1>2, <1>3 DEF safe

-----------------------------------------------------------------------------
(* One step keeps the invariant. *)

LEMMA InvInit == WorkspaceInit => Inv
<1> SUFFICES ASSUME WorkspaceInit PROVE Inv
  OBVIOUS
<1> USE DEF WorkspaceInit
<1>1. safe_path \in Seq(STRING)
  BY EmptySeq
<1>2. DiskInStep
  BY WorkspaceAssumption DEF DiskInStep
<1>3. PhaseOfCall /\ UntouchedBefore /\ AllowedInUse /\ TouchesOnlyAllowed /\ ResultTellsWhatHappened
  BY DEF PhaseOfCall, UntouchedBefore, AllowedInUse, TouchesOnlyAllowed, ResultTellsWhatHappened
<1> QED BY <1>1, <1>2, <1>3 DEF Inv

LEMMA Told ==
  ASSUME NEW told, NEW kind, NEW text, told = [is |-> kind, text |-> text]
  PROVE  told.is = kind /\ told.text = text
OBVIOUS

\* A call that ends without touching anything more.
LEMMA EndsQuietly ==
  ASSUME Inv, UNCHANGED <<input, workspace, disk, safe_path, touched, nowhere, meddled, before, opened>>,
         at' = "returned", at # "returned",
         result'.is \notin {"PermissionDenied", "InvalidInput", "PathNotAllowed", "Ok"}
           \/ (result'.is \in {"PermissionDenied", "InvalidInput", "PathNotAllowed"} /\ touched = {})
           \/ (input.tool \in {"list_dir", "shell"} /\ result'.is = "Ok"),
         input.tool = "shell" => (result'.is = "Ok" <=> result'.text = "0")
  PROVE  Inv'
<1>1. Target' = Target
  BY DEF Target
<1>2. DiskInStep'
  BY <1>1 DEF Inv, DiskInStep
<1>3. PhaseOfCall' /\ UntouchedBefore' /\ AllowedInUse'
  BY DEF PhaseOfCall, UntouchedBefore, AllowedInUse
<1>4. TouchesOnlyAllowed'
  BY <1>1 DEF Inv, TouchesOnlyAllowed
<1>5. ResultTellsWhatHappened'
  BY <1>1, <1>2 DEF Inv, ResultTellsWhatHappened, DiskInStep
<1> QED BY <1>2, <1>3, <1>4, <1>5 DEF Inv

\* A call that goes on without touching anything more.
LEMMA GoesOn ==
  ASSUME Inv, UNCHANGED <<input, workspace, disk, safe_path, touched, nowhere, meddled, before, opened>>,
         PhaseOfCall', UntouchedBefore', AllowedInUse', at' \notin {"writing", "returned"}
  PROVE  Inv'
<1>1. Target' = Target
  BY DEF Target
<1>2. DiskInStep'
  BY <1>1 DEF Inv, DiskInStep
<1>3. TouchesOnlyAllowed'
  BY <1>1 DEF Inv, TouchesOnlyAllowed
<1>4. ResultTellsWhatHappened'
  BY DEF ResultTellsWhatHappened
<1> QED BY <1>2, <1>3, <1>4 DEF Inv

LEMMA StartIs ==
  /\ Start["read_file"] = "reading" /\ Start["write_file"] = "making dirs"
  /\ Start["list_dir"] = "listing"
BY DEF Start

LEMMA CheckFileCallKeeps ==
  ASSUME Inv, CheckFileCall
  PROVE  Inv'
<1>0. /\ at = "called" /\ input.tool \in {"read_file", "write_file", "list_dir"}
      /\ UNCHANGED <<input, workspace, before, disk, opened, elapsed, touched, meddled>>
      /\ touched = {}
  BY DEF CheckFileCall, IsFileTool, outside, Inv, UntouchedBefore
<1>1. CASE at' = "returned"
  <2>1. /\ UNCHANGED <<safe_path, nowhere>>
        /\ result'.is \in {"PermissionDenied", "InvalidInput", "PathNotAllowed"}
    <3>1. Start[input.tool] # "returned"
      BY <1>0, StartIs
    <3>2. /\ UNCHANGED <<safe_path, nowhere>>
          /\ \/ result' = [is |-> "PermissionDenied", text |-> ""]
             \/ result' = [is |-> "InvalidInput", text |-> ""]
             \/ result' = [is |-> "PathNotAllowed", text |-> ""]
      BY <1>1, <3>1 DEF CheckFileCall, Return
    <3>3. result'.is = "PermissionDenied" \/ result'.is = "InvalidInput" \/ result'.is = "PathNotAllowed"
      BY <3>2, Told
    <3> QED BY <3>2, <3>3
  <2> QED BY <1>0, <1>1, <2>1, EndsQuietly
<1>2. CASE at' # "returned"
  <2> DEFINE safe == Resolved(Asked, working_dir)
  <2>1. /\ ~MissingArgument
        /\ resolve_and_check_path(disk, Asked, working_dir, workspace) # {}
        /\ safe_path' = safe /\ at' = Start[input.tool]
        /\ nowhere' = \E n \in DOMAIN safe_path' :
             SubSeq(safe_path', 1, n) \in DOMAIN disk /\ ~Exists(disk, SubSeq(safe_path', 1, n))
    BY <1>2 DEF CheckFileCall, Return
  <2>2. safe \in Seq(STRING)
    <3>1. Asked \in input.path
      BY <2>1 DEF MissingArgument, Asked
    <3> QED BY <3>1, ResolvedIsPath DEF Inv
  <2> HIDE DEF safe
  <2>3. PhaseOfCall' /\ at' \in {"reading", "listing", "making dirs"}
    <3>1. CASE input.tool = "read_file"
      BY <1>0, <2>1, <3>1, StartIs DEF PhaseOfCall
    <3>2. CASE input.tool = "write_file"
      BY <1>0, <2>1, <3>2, StartIs DEF PhaseOfCall, MissingArgument
    <3>3. CASE input.tool = "list_dir"
      BY <1>0, <2>1, <3>3, StartIs DEF PhaseOfCall
    <3> QED BY <1>0, <3>1, <3>2, <3>3
  <2>4. UntouchedBefore'
    BY <1>0 DEF UntouchedBefore
  <2>5. AllowedInUse'
    <3> SUFFICES ASSUME ~meddled, ~nowhere' PROVE is_path_allowed_syntactic(Real(disk, safe), workspace)
      BY <1>0, <2>1 DEF AllowedInUse, Target
    <3>1. \A n \in DOMAIN safe : SubSeq(safe, 1, n) \in DOMAIN disk => Exists(disk, SubSeq(safe, 1, n))
      BY <2>1
    <3>2. IsTree(disk) /\ LinksLeadOnce(disk)
      BY DEF Inv, DiskInStep
    <3> QED BY <2>1, <2>2, <3>1, <3>2, CheckedLeadsToAllowed DEF safe
  <2>6. DiskInStep'
    BY <1>0, <2>3 DEF Inv, DiskInStep
  <2>7. TouchesOnlyAllowed' /\ ResultTellsWhatHappened'
    BY <1>0, <1>2 DEF TouchesOnlyAllowed, ResultTellsWhatHappened
  <2> QED BY <1>0, <2>1, <2>2, <2>3, <2>4, <2>5, <2>6, <2>7 DEF Inv
<1> QED BY <1>1, <1>2

\* On a tree a path is on the way to itself.
LEMMA TargetIs ==
  ASSUME Inv, ~meddled
  PROVE  /\ IsTree(disk) /\ LinksLeadOnce(disk)
         /\ Target \in Seq(STRING) \ Links(disk) /\ IsPrefix(Target, Target)
<1>1. IsTree(disk) /\ LinksLeadOnce(disk) /\ safe_path \in Seq(STRING)
  BY DEF Inv, DiskInStep
<1>2. Target \in Seq(STRING) \ Links(disk)
  BY <1>1, RealIsNoLink DEF Target
<1>3. Len(Target) <= Len(Target)
  BY <1>2, LenProperties
<1> QED BY <1>1, <1>2, <1>3 DEF IsPrefix

LEMMA UseKeeps ==
  ASSUME Inv, ReadFile \/ ListDir
  PROVE  Inv'
<1>1. /\ at \in {"reading", "listing"} /\ at' = "returned" /\ touched' = {Target}
      /\ UNCHANGED <<input, workspace, before, disk, safe_path, opened, nowhere, meddled>>
  BY DEF ReadFile, ListDir, Return, outside
<1>2. Target' = Target
  BY <1>1 DEF Target
<1>3. /\ input.tool \in {"read_file", "list_dir"} /\ result'.is = "Ok"
      /\ input.tool = "read_file" => result'.text = disk[Target].text
  <2>1. CASE ReadFile
    <3>1. result' = [is |-> "Ok", text |-> disk[Target].text] /\ at = "reading"
      BY <2>1 DEF ReadFile, Return
    <3> QED BY <3>1 DEF Inv, PhaseOfCall
  <2>2. CASE ListDir
    <3>1. result' = [is |-> "Ok", text |-> ""] /\ at = "listing"
      BY <2>2 DEF ListDir, Return
    <3> QED BY <3>1 DEF Inv, PhaseOfCall
  <2> QED BY <2>1, <2>2
<1>4. DiskInStep'
  BY <1>1, <1>2, <1>3, TargetIs DEF Inv, DiskInStep
<1>5. PhaseOfCall' /\ UntouchedBefore' /\ AllowedInUse'
  BY <1>1 DEF PhaseOfCall, UntouchedBefore, AllowedInUse
<1>6. TouchesOnlyAllowed'
  BY <1>1, <1>2 DEF Inv, TouchesOnlyAllowed, AllowedInUse
<1>7. ResultTellsWhatHappened'
  BY <1>1, <1>2, <1>3 DEF Inv, ResultTellsWhatHappened, DiskInStep
<1> QED BY <1>1, <1>4, <1>5, <1>6, <1>7 DEF Inv

LEMMA MakeDirKeeps ==
  ASSUME Inv, MakeDir
  PROVE  Inv'
<1>1. PICK parent \in Parents :
        /\ parent \notin DOMAIN disk /\ Real(disk, parent) \notin DOMAIN disk
        /\ Real(disk, parent) # <<>> /\ Is("dir", Front(Real(disk, parent)))
        /\ disk' = [path \in DOMAIN disk \cup {Real(disk, parent)} |->
                      IF path = Real(disk, parent) THEN Dir ELSE disk[path]]
        /\ touched' = touched \cup {Real(disk, parent)}
  BY DEF MakeDir
<1> DEFINE real == Real(disk, parent)
<1>2. at = "making dirs" /\ UNCHANGED <<input, workspace, before, at, safe_path, result, opened, nowhere, meddled>>
  BY DEF MakeDir, outside
<1>3. PhaseOfCall' /\ UntouchedBefore' /\ ResultTellsWhatHappened'
  BY <1>2 DEF Inv, PhaseOfCall, UntouchedBefore, ResultTellsWhatHappened
<1>4. CASE ~meddled
  <2>1. /\ IsTree(disk) /\ LinksLeadOnce(disk) /\ safe_path \in Seq(STRING)
        /\ \A path \in DOMAIN disk : path \in touched \/ disk[path] = before[path]
        /\ \A path \in touched : IsPrefix(path, Target)
        /\ input.tool = "write_file"
    BY <1>2, <1>4 DEF Inv, DiskInStep, PhaseOfCall
  <2>2. real \in Seq(STRING) /\ IsPrefix(real, Target) /\ real # Target
    <3>1. PICK n \in 0..(Len(safe_path) - 1) : parent = SubSeq(safe_path, 1, n)
      BY DEF Parents
    <3> QED BY <1>1, <2>1, <3>1, RealOfParent DEF Target
  <2>3. /\ DOMAIN disk' = DOMAIN disk \cup {real} /\ disk'[real] = Dir
        /\ \A path \in DOMAIN disk \ {real} : disk'[path] = disk[path]
        /\ real \notin Links(disk) /\ Front(real) \in DOMAIN disk /\ real # <<>>
    BY <1>1 DEF Links, Is
  <2> HIDE DEF real
  <2>4. /\ IsTree(disk') /\ LinksLeadOnce(disk')
        /\ Links(disk') = Links(disk) /\ \A link \in Links(disk) : disk'[link] = disk[link]
    <3>1. disk'[real].is # "link"
      <4>1. Dir.is = "dir"
        BY DEF Dir
      <4> QED BY <2>3, <4>1
    <3> QED BY <2>1, <2>2, <2>3, <3>1, TreeGrows
  <2>5. Target' = Target
    <3>1. Real(disk', safe_path) = Real(disk, safe_path)
      BY <2>1, <2>4, RealSame
    <3> QED BY <1>2, <3>1 DEF Target
  <2>6. touched' = touched \cup {real}
    BY <1>1 DEF real
  <2>7. \A path \in DOMAIN disk' : path \in touched' \/ disk'[path] = before'[path]
    BY <1>2, <2>1, <2>3, <2>6
  <2>8. DiskInStep'
    BY <1>2, <2>1, <2>2, <2>4, <2>5, <2>6, <2>7 DEF DiskInStep
  <2>9. AllowedInUse'
    BY <1>2, <2>5 DEF Inv, AllowedInUse
  <2>10. TouchesOnlyAllowed'
    BY <1>2, <2>2, <2>5, <2>6 DEF Inv, TouchesOnlyAllowed
  <2> QED BY <1>2, <1>3, <2>8, <2>9, <2>10 DEF Inv
<1>5. CASE meddled
  BY <1>2, <1>3, <1>5 DEF Inv, DiskInStep, AllowedInUse, TouchesOnlyAllowed
<1> QED BY <1>4, <1>5

LEMMA OpenFileKeeps ==
  ASSUME Inv, OpenFile
  PROVE  Inv'
<1>1. /\ at = "opening" /\ at' = "writing"
      /\ Target # <<>> /\ Front(Target) \in DOMAIN disk
      /\ disk' = [path \in DOMAIN disk \cup {Target} |-> IF path = Target THEN File("") ELSE disk[path]]
      /\ touched' = touched \cup {Target} /\ opened' = {Target}
      /\ UNCHANGED <<input, workspace, before, safe_path, result, nowhere, meddled>>
  BY DEF OpenFile, outside, Is
<1>2. PhaseOfCall' /\ UntouchedBefore' /\ ResultTellsWhatHappened'
  BY <1>1 DEF Inv, PhaseOfCall, UntouchedBefore, ResultTellsWhatHappened
<1>3. CASE ~meddled
  <2>1. /\ IsTree(disk) /\ LinksLeadOnce(disk) /\ safe_path \in Seq(STRING)
        /\ \A path \in DOMAIN disk : path \in touched \/ disk[path] = before[path]
        /\ \A path \in touched : IsPrefix(path, Target)
        /\ input.tool = "write_file"
    BY <1>1, <1>3 DEF Inv, DiskInStep, PhaseOfCall
  <2>2. Target \in Seq(STRING) \ Links(disk) /\ IsPrefix(Target, Target)
    BY <1>3, TargetIs
  <2>3. /\ DOMAIN disk' = DOMAIN disk \cup {Target} /\ disk'[Target].is # "link"
        /\ \A path \in DOMAIN disk \ {Target} : disk'[path] = disk[path]
    BY <1>1 DEF File
  <2>4. /\ IsTree(disk') /\ LinksLeadOnce(disk')
        /\ Links(disk') = Links(disk) /\ \A link \in Links(disk) : disk'[link] = disk[link]
    <3> DEFINE new == Target
    <3>1. /\ new \in Seq(STRING) /\ new \notin Links(disk) /\ new # <<>> /\ Front(new) \in DOMAIN disk
          /\ DOMAIN disk' = DOMAIN disk \cup {new} /\ disk'[new].is # "link"
          /\ \A path \in DOMAIN disk \ {new} : disk'[path] = disk[path]
      BY <1>1, <2>2, <2>3
    <3> HIDE DEF new
    <3> QED BY <2>1, <3>1, TreeGrows
  <2>5. Target' = Target
    <3>1. Real(disk', safe_path) = Real(disk, safe_path)
      BY <2>1, <2>4, RealSame
    <3> QED BY <1>1, <3>1 DEF Target
  <2>6. \A path \in DOMAIN disk' : path \in touched' \/ disk'[path] = before'[path]
    BY <1>1, <2>1, <2>3
  <2>7. DiskInStep'
    BY <1>1, <2>1, <2>2, <2>3, <2>4, <2>5, <2>6 DEF DiskInStep
  <2>8. AllowedInUse'
    BY <1>1, <2>5 DEF Inv, AllowedInUse
  <2>9. TouchesOnlyAllowed'
    BY <1>1, <2>5 DEF Inv, AllowedInUse, TouchesOnlyAllowed
  <2> QED BY <1>1, <1>2, <2>7, <2>8, <2>9 DEF Inv
<1>4. CASE meddled
  BY <1>1, <1>2, <1>4 DEF Inv, DiskInStep, AllowedInUse, TouchesOnlyAllowed
<1> QED BY <1>3, <1>4

LEMMA FillFileKeeps ==
  ASSUME Inv, FillFile
  PROVE  Inv'
<1>1. /\ at = "writing" /\ at' = "returned" /\ input.tool = "write_file" /\ input.content # {}
      /\ UNCHANGED <<input, workspace, before, safe_path, opened, touched, nowhere, meddled>>
  BY DEF FillFile, Return, WriteFails, outside, Inv, PhaseOfCall
<1>2. PICK text :
        /\ disk' = [path \in DOMAIN disk |-> IF path \in opened THEN File(text) ELSE disk[path]]
        /\ \/ result' = [is |-> "Ok", text |-> ""] /\ text \in input.content
           \/ result' = [is |-> "ExecutionFailed", text |-> ""]
  <2>1. CASE Fill(CHOOSE text \in input.content : TRUE) /\ Return("Ok", "")
    <3>1. (CHOOSE text \in input.content : TRUE) \in input.content
      BY <1>1
    <3> QED BY <2>1, <3>1 DEF Fill, Return
  <2>2. CASE Fill("part of it") /\ WriteFails
    BY <2>2 DEF Fill, WriteFails, Return
  <2> QED BY <2>1, <2>2 DEF FillFile
<1>3. PhaseOfCall' /\ UntouchedBefore' /\ AllowedInUse'
  BY <1>1 DEF PhaseOfCall, UntouchedBefore, AllowedInUse
<1>4. (result'.is = "Ok" /\ text \in input.content) \/ result'.is = "ExecutionFailed"
  BY <1>2, Told
<1>5. CASE ~meddled
  <2>1. /\ IsTree(disk) /\ LinksLeadOnce(disk) /\ safe_path \in Seq(STRING)
        /\ \A path \in DOMAIN disk : path \in touched \/ disk[path] = before[path]
        /\ \A path \in touched : IsPrefix(path, Target)
        /\ opened = {Target} /\ Target # <<>> /\ Target \in touched /\ Target \in DOMAIN disk
    BY <1>1, <1>5 DEF Inv, DiskInStep
  <2>2. Target \in Seq(STRING) \ Links(disk)
    BY <1>5, TargetIs
  <2>3. /\ DOMAIN disk' = DOMAIN disk /\ disk'[Target] = File(text)
        /\ \A path \in DOMAIN disk \ {Target} : disk'[path] = disk[path]
    BY <1>2, <2>1
  <2>4. File(text).is = "file" /\ File(text).text = text
    BY DEF File
  <2>5. /\ IsTree(disk') /\ LinksLeadOnce(disk')
        /\ Links(disk') = Links(disk) /\ \A link \in Links(disk) : disk'[link] = disk[link]
    <3> DEFINE new == Target
    <3>1. /\ new \in Seq(STRING) /\ new \notin Links(disk) /\ new # <<>> /\ new \in DOMAIN disk
          /\ DOMAIN disk' = DOMAIN disk \cup {new} /\ disk'[new].is # "link"
          /\ \A path \in DOMAIN disk \ {new} : disk'[path] = disk[path]
      BY <2>1, <2>2, <2>3, <2>4
    <3> HIDE DEF new
    <3>2. Front(new) \in DOMAIN disk
      <4>1. Len(new) - 1 \in 0..Len(new)
        BY <3>1, EmptySeq, LenProperties
      <4> QED BY <2>1, <3>1, <4>1 DEF IsTree, Front
    <3> QED BY <2>1, <3>1, <3>2, TreeGrows
  <2>6. Target' = Target
    <3>1. Real(disk', safe_path) = Real(disk, safe_path)
      BY <2>1, <2>5, RealSame
    <3> QED BY <1>1, <3>1 DEF Target
  <2>7. \A path \in DOMAIN disk' : path \in touched' \/ disk'[path] = before'[path]
    BY <1>1, <2>1, <2>3
  <2>8. DiskInStep'
    BY <1>1, <2>1, <2>5, <2>6, <2>7 DEF DiskInStep
  <2>9. TouchesOnlyAllowed'
    BY <1>1, <2>6 DEF Inv, TouchesOnlyAllowed
  <2>10. disk'[Target'].text = text
    BY <2>3, <2>4, <2>6
  <2>11. ResultTellsWhatHappened'
    BY <1>1, <1>4, <2>1, <2>6, <2>7, <2>10 DEF ResultTellsWhatHappened
  <2> QED BY <1>1, <1>3, <2>8, <2>9, <2>11 DEF Inv
<1>6. CASE meddled
  <2>1. ResultTellsWhatHappened'
    BY <1>1, <1>4, <1>6 DEF ResultTellsWhatHappened
  <2> QED BY <1>1, <1>3, <1>6, <2>1 DEF Inv, DiskInStep, TouchesOnlyAllowed
<1> QED BY <1>5, <1>6

LEMMA FailsKeeps ==
  ASSUME Inv, Fails
  PROVE  Inv'
<1>1. /\ at \in {"reading", "listing", "making dirs", "opening", "writing"} /\ at' = "returned"
      /\ result' = [is |-> "ExecutionFailed", text |-> ""]
      /\ UNCHANGED <<input, workspace, disk, safe_path, touched, nowhere, meddled, before, opened>>
  BY DEF Fails, Return, outside
<1>2. result'.is = "ExecutionFailed"
  BY <1>1
<1>3. input.tool # "shell"
  BY <1>1 DEF Inv, PhaseOfCall
<1> QED BY <1>1, <1>2, <1>3, EndsQuietly

LEMMA DirsMadeKeeps ==
  ASSUME Inv, DirsMade
  PROVE  Inv'
<1>1. /\ at = "making dirs" /\ at' = "opening"
      /\ UNCHANGED <<input, workspace, disk, safe_path, touched, nowhere, meddled, before, opened>>
  BY DEF DirsMade, outside
<1>2. PhaseOfCall' /\ UntouchedBefore'
  BY <1>1 DEF Inv, PhaseOfCall, UntouchedBefore
<1>3. AllowedInUse'
  <2>1. Target' = Target
    BY <1>1 DEF Target
  <2> QED BY <1>1, <2>1 DEF Inv, AllowedInUse
<1> QED BY <1>1, <1>2, <1>3, GoesOn

LEMMA ShellKeeps ==
  ASSUME Inv, Shell
  PROVE  Inv'
<1>1. /\ at \in {"called", "spawning", "running"} /\ input.tool = "shell" /\ touched = {}
      /\ UNCHANGED <<input, workspace, disk, safe_path, touched, nowhere, meddled, before, opened>>
  BY DEF Shell, CheckCommand, Spawn, Tick, CommandExits, outside, Inv, PhaseOfCall, UntouchedBefore
<1>2. CASE at' # "returned"
  <2>1. at' \in {"spawning", "running"}
    BY <1>2 DEF Shell, CheckCommand, Spawn, Tick, CommandExits, Return
  <2>2. PhaseOfCall' /\ UntouchedBefore' /\ AllowedInUse'
    BY <1>1, <2>1 DEF PhaseOfCall, UntouchedBefore, AllowedInUse
  <2> QED BY <1>1, <1>2, <2>1, <2>2, GoesOn
<1>3. CASE at' = "returned"
  <2>1. CASE CheckCommand
    <3>1. \E kind \in {"InvalidInput", "PermissionDenied", "ExecutionFailed"} :
            result' = [is |-> kind, text |-> ""]
      BY <1>3, <2>1 DEF CheckCommand, Return
    <3>2. result'.is \in {"InvalidInput", "PermissionDenied", "ExecutionFailed"} /\ result'.text = ""
      BY <3>1, Told
    <3> QED BY <1>1, <1>3, <3>2, EndsQuietly
  <2>2. CASE Spawn
    <3>1. result' = [is |-> "ExecutionFailed", text |-> ""]
      BY <1>3, <2>2 DEF Spawn, Return
    <3>2. result'.is = "ExecutionFailed" /\ result'.text = ""
      BY <3>1, Told
    <3> QED BY <1>1, <1>3, <3>2, EndsQuietly
  <2>3. CASE CommandExits
    <3>1. PICK exit_code \in {"0", "1", ""} :
            result' = [is |-> IF exit_code = "0" THEN "Ok" ELSE "OkIsError", text |-> exit_code]
      BY <2>3 DEF CommandExits, Return, success
    <3>2. result'.is = (IF exit_code = "0" THEN "Ok" ELSE "OkIsError") /\ result'.text = exit_code
      BY <3>1, Told
    <3> QED BY <1>1, <1>3, <3>2, EndsQuietly
  <2>4. ~Tick
    BY <1>3 DEF Tick
  <2> QED BY <2>1, <2>2, <2>3, <2>4 DEF Shell
<1> QED BY <1>2, <1>3

LEMMA MeddleKeeps ==
  ASSUME Inv, Meddle
  PROVE  Inv'
<1>1. /\ meddled' /\ at # "returned"
      /\ UNCHANGED <<input, workspace, before, at, safe_path, result, touched, nowhere>>
  BY DEF Meddle, outside
<1>2. PhaseOfCall' /\ UntouchedBefore' /\ ResultTellsWhatHappened'
  BY <1>1 DEF Inv, PhaseOfCall, UntouchedBefore, ResultTellsWhatHappened
<1>3. DiskInStep' /\ AllowedInUse' /\ TouchesOnlyAllowed'
  BY <1>1 DEF DiskInStep, AllowedInUse, TouchesOnlyAllowed
<1> QED BY <1>1, <1>2, <1>3 DEF Inv

LEMMA InvStep == Inv /\ [WorkspaceNext]_ws_vars => Inv'
<1> SUFFICES ASSUME Inv, [WorkspaceNext]_ws_vars PROVE Inv'
  OBVIOUS
<1>1. CASE WorkspaceNext
  BY <1>1, CheckFileCallKeeps, UseKeeps, MakeDirKeeps, DirsMadeKeeps, OpenFileKeeps, FillFileKeeps,
     FailsKeeps, ShellKeeps, MeddleKeeps DEF WorkspaceNext, FileTool
<1>2. CASE UNCHANGED ws_vars
  <2>1. UNCHANGED <<input, workspace, disk, at, safe_path, result, opened, before, touched, nowhere, meddled>>
    BY <1>2 DEF ws_vars
  <2>2. Target' = Target
    BY <2>1 DEF Target
  <2>3. PhaseOfCall' /\ UntouchedBefore' /\ AllowedInUse' /\ TouchesOnlyAllowed'
    BY <2>1, <2>2 DEF Inv, PhaseOfCall, UntouchedBefore, AllowedInUse, TouchesOnlyAllowed
  <2>4. DiskInStep'
    BY <2>1, <2>2 DEF Inv, DiskInStep
  <2>5. ResultTellsWhatHappened'
    BY <2>1, <2>2 DEF Inv, ResultTellsWhatHappened
  <2> QED BY <2>1, <2>3, <2>4, <2>5 DEF Inv
<1> QED BY <1>1, <1>2

-----------------------------------------------------------------------------
(* The theorems. *)

\* Inv is an invariant of a call of a tool: the disk stays a tree whose links lead
\* once, and what is about to be used was checked, whatever the tool has made on the
\* way and whichever call of the operating system has failed.
THEOREM Invariance == WorkspaceSpec => []Inv
<1> QED BY InvInit, InvStep, PTL DEF WorkspaceSpec

\* A file tool reads, lists, makes and writes only where the workspace allows, or
\* makes the directories on the way there, although the path it was given holds ".."
\* and links: the check and the use of a path by sc-sandbox and sc-tool-file agree on
\* where it leads, as long as nobody else changes the disk.
THEOREM OnlyAllowedIsTouched == WorkspaceSpec => []TouchesOnlyAllowed
<1>1. Inv => TouchesOnlyAllowed
  BY DEF Inv
<1> QED BY <1>1, Invariance, PTL

\* A refused call has touched nothing, a write that returned Ok left all of its
\* content, one that failed changed nothing but its file and the directories on the
\* way to it, and a command that failed is an error.
THEOREM ResultsTell == WorkspaceSpec => []ResultTellsWhatHappened
<1>1. Inv => ResultTellsWhatHappened
  BY DEF Inv
<1> QED BY <1>1, Invariance, PTL

=============================================================================
