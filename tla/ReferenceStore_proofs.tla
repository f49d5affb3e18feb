------------------------ MODULE ReferenceStore_proofs ------------------------
(***************************************************************************)
(* Proofs about ReferenceStore: the map in memory and the log agree, and   *)
(* the log implements MemoryMap, for every set of ids and entries and any  *)
(* number of operations, failing writes and crashes.                       *)
(***************************************************************************)
EXTENDS ReferenceStore, Induction, SequenceTheorems, TLAPS

-----------------------------------------------------------------------------
(* replay, one line at a time. *)

\* map is the function replay computes, up to the k-th line.
Replays(map, log, k) ==
  map = [n \in 0..k |-> IF n = 0 THEN <<>> ELSE Apply(map[n - 1], log[n])]

LEMMA ReplayExists ==
  ASSUME NEW log, NEW k \in Nat
  PROVE  \E map : Replays(map, log, k)
<1> DEFINE T == {i \in Nat : \E map : Replays(map, log, i)}
<1>1. 0 \in T
  <2> DEFINE m == [n \in 0..0 |-> <<>>]
  <2>1. m = [n \in 0..0 |-> IF n = 0 THEN <<>> ELSE Apply(m[n - 1], log[n])]
    OBVIOUS
  <2> QED BY <2>1 DEF Replays
<1>2. ASSUME NEW i \in Nat, i \in T PROVE i + 1 \in T
  <2>1. PICK map : Replays(map, log, i)
    BY <1>2
  <2> DEFINE m == [n \in 0..(i + 1) |-> IF n = i + 1 THEN Apply(map[i], log[i + 1]) ELSE map[n]]
  <2>2. \A n \in 0..(i + 1) : m[n] = IF n = 0 THEN <<>> ELSE Apply(m[n - 1], log[n])
    <3> SUFFICES ASSUME NEW n \in 0..(i + 1) PROVE m[n] = IF n = 0 THEN <<>> ELSE Apply(m[n - 1], log[n])
      OBVIOUS
    <3>1. \A j \in 0..i : map[j] = (IF j = 0 THEN <<>> ELSE Apply(map[j - 1], log[j])) /\ m[j] = map[j]
      BY <2>1 DEF Replays
    <3>2. CASE n = i + 1
      <4>1. m[n] = Apply(map[i], log[i + 1]) /\ n # 0 /\ n - 1 = i /\ m[i] = map[i]
        BY <3>1, <3>2
      <4> HIDE DEF m
      <4> QED BY <3>2, <4>1
    <3>3. CASE n \in 0..i
      <4>1. n # 0 => n - 1 \in 0..i
        BY <3>3
      <4> HIDE DEF m
      <4> QED BY <3>1, <3>3, <4>1
    <3> QED BY <3>2, <3>3
  <2>3. m = [n \in 0..(i + 1) |-> IF n = 0 THEN <<>> ELSE Apply(m[n - 1], log[n])]
    <3>1. m = [n \in 0..(i + 1) |-> m[n]]
      OBVIOUS
    <3> HIDE DEF m
    <3>2. [n \in 0..(i + 1) |-> m[n]] = [n \in 0..(i + 1) |-> IF n = 0 THEN <<>> ELSE Apply(m[n - 1], log[n])]
      BY <2>2
    <3> QED BY <3>1, <3>2
  <2> HIDE DEF m
  <2>4. Replays(m, log, i + 1)
    BY <2>3 DEF Replays
  <2> QED BY <2>4
<1> HIDE DEF T
<1>3. Nat \subseteq T
  BY <1>1, <1>2, NaturalsFromZero
<1> QED BY <1>3 DEF T

\* Two logs with the same first k lines are replayed to the same map up to there.
LEMMA ReplaySame ==
  ASSUME NEW log, NEW other, NEW k \in Nat, NEW a \in Nat, NEW b \in Nat, k <= a, k <= b,
         \A i \in 1..k : log[i] = other[i],
         NEW f, NEW g, Replays(f, log, a), Replays(g, other, b)
  PROVE  f[k] = g[k]
<1> DEFINE T == {i \in 0..k : f[i] = g[i]}
<1>1. /\ \A n \in 0..a : f[n] = IF n = 0 THEN <<>> ELSE Apply(f[n - 1], log[n])
      /\ \A n \in 0..b : g[n] = IF n = 0 THEN <<>> ELSE Apply(g[n - 1], other[n])
  BY DEF Replays
<1>2. 0 \in T
  BY <1>1
<1>3. ASSUME NEW i \in 0..(k - 1), i \in T PROVE i + 1 \in T
  <2>1. /\ i + 1 \in 0..a /\ i + 1 \in 0..b /\ i + 1 \in 1..k /\ i + 1 # 0 /\ (i + 1) - 1 = i
        /\ f[i] = g[i] /\ i + 1 \in 0..k
    BY <1>3
  <2>2. f[i + 1] = Apply(f[i], log[i + 1]) /\ g[i + 1] = Apply(g[i], other[i + 1])
    BY <1>1, <2>1
  <2> QED BY <2>1, <2>2
<1> HIDE DEF T
<1>4. 0..k \subseteq T
  BY <1>2, <1>3, IntervalFromZero
<1> QED BY <1>4 DEF T

LEMMA ReplayIs ==
  ASSUME NEW log, Len(log) \in Nat
  PROVE  \E f : Replays(f, log, Len(log)) /\ replay(log) = f[Len(log)]
<1> DEFINE f == CHOOSE map : map = [n \in 0..Len(log) |-> IF n = 0 THEN <<>> ELSE Apply(map[n - 1], log[n])]
<1>1. \E map : map = [n \in 0..Len(log) |-> IF n = 0 THEN <<>> ELSE Apply(map[n - 1], log[n])]
  BY ReplayExists DEF Replays
<1>2. f = [n \in 0..Len(log) |-> IF n = 0 THEN <<>> ELSE Apply(f[n - 1], log[n])]
  BY <1>1
<1>3. replay(log) = f[Len(log)]
  BY DEF replay
<1> HIDE DEF f
<1>4. Replays(f, log, Len(log))
  BY <1>2 DEF Replays
<1> QED BY <1>3, <1>4

LEMMA ReplayEmpty == replay(<<>>) = <<>>
<1>1. Len(<<>>) = 0
  BY EmptySeq
<1>2. PICK f : Replays(f, <<>>, 0) /\ replay(<<>>) = f[0]
  BY <1>1, ReplayIs
<1>3. f[0] = <<>>
  BY <1>2 DEF Replays
<1> QED BY <1>2, <1>3

LEMMA ReplayAppend ==
  ASSUME NEW S, NEW log \in Seq(S), NEW line \in S
  PROVE  replay(Append(log, line)) = Apply(replay(log), line)
<1> DEFINE more == Append(log, line)
           k == Len(log)
<1>1. /\ Len(more) = k + 1 /\ k \in Nat
      /\ \A i \in 1..k : more[i] = log[i]
      /\ more[k + 1] = line
  BY AppendProperties, LenProperties
<1> HIDE DEF more, k
<1>2. PICK f : Replays(f, log, k) /\ replay(log) = f[k]
  BY <1>1, ReplayIs DEF k
<1>3. PICK g : Replays(g, more, k + 1) /\ replay(more) = g[k + 1]
  BY <1>1, ReplayIs
<1>4. g[k] = f[k]
  BY <1>1, <1>2, <1>3, ReplaySame
<1>5. g[k + 1] = Apply(g[k], more[k + 1])
  <2>1. k + 1 \in 0..(k + 1) /\ k + 1 # 0 /\ (k + 1) - 1 = k
    BY <1>1
  <2> QED BY <1>3, <2>1 DEF Replays
<1> QED BY <1>1, <1>2, <1>3, <1>4, <1>5 DEF more

-----------------------------------------------------------------------------
(* The log. *)

Records ==
  {DeleteRecord(id) : id \in Ids}
    \cup {AddRecord(p[1], p[2]) : p \in Ids \X Entries}
    \cup {UpdateRecord(p[1], p[2]) : p \in Ids \X Entries}
Texts == {Garbage} \cup {Header(v) : v \in Nat} \cup Records
Line  == [text : Texts, ended : BOOLEAN]

LEMMA Kinds ==
  /\ Garbage.kind = "garbage"
  /\ \A v : Header(v).kind = "header" /\ Header(v).schema_version = v
  /\ \A r \in Records :
       /\ r.kind \in {"add", "update", "delete"} /\ r.id \in Ids
       /\ r.kind \in {"add", "update"} => r.entry \in Entries
       /\ r # Garbage
<1>1. Garbage.kind = "garbage" /\ \A v : Header(v).kind = "header" /\ Header(v).schema_version = v
  BY DEF Garbage, Header
<1>2. ASSUME NEW r \in Records
      PROVE  /\ r.kind \in {"add", "update", "delete"} /\ r.id \in Ids
             /\ r.kind \in {"add", "update"} => r.entry \in Entries
  <2>1. CASE \E id \in Ids : r = DeleteRecord(id)
    BY <2>1 DEF DeleteRecord
  <2>2. CASE \E p \in Ids \X Entries : r = AddRecord(p[1], p[2])
    BY <2>2 DEF AddRecord
  <2>3. CASE \E p \in Ids \X Entries : r = UpdateRecord(p[1], p[2])
    BY <2>3 DEF UpdateRecord
  <2> QED BY <2>1, <2>2, <2>3 DEF Records
<1>3. ASSUME NEW r \in Records PROVE r # Garbage
  <2>1. r.kind # Garbage.kind
    BY <1>1, <1>2
  <2> QED BY <2>1
<1> QED BY <1>1, <1>2, <1>3

\* What the kind of a text that can be read back tells.
LEMMA TextOfKind ==
  ASSUME NEW t \in Texts
  PROVE  /\ t.kind = "garbage" <=> t = Garbage
         /\ t.kind = "header" => Parses(t)
         /\ t.kind \in {"add", "update", "delete"} <=> t \in Records
<1>1. CASE t = Garbage
  BY <1>1, Kinds
<1>2. CASE \E v \in Nat : t = Header(v)
  <2>1. t.kind = "header"
    BY <1>2, Kinds
  <2>2. t # Garbage /\ t \notin Records
    BY <2>1, Kinds
  <2> QED BY <2>1, <2>2, Kinds DEF Parses
<1>3. CASE t \in Records
  BY <1>3, Kinds
<1> QED BY <1>1, <1>2, <1>3 DEF Texts

\* The lines open() reads.
Readable(log) ==
  /\ log # <<>> => Parses(log[1].text) /\ log[1].text.kind = "header" /\ log[1].text.schema_version = SCHEMA_VERSION
  /\ \A i \in 2..Len(log) : Parses(log[i].text) /\ log[i].text.kind # "header"

LEMMA ErrorIs ==
  ASSUME NEW log \in Seq(Line)
  PROVE  replay_error(log) = "None" <=> Readable(log)
<1>1. CASE log = <<>>
  <2>1. Len(log) = 0 /\ 2..0 = {}
    BY <1>1, EmptySeq
  <2> QED BY <1>1, <2>1 DEF replay_error, Readable
<1>2. CASE log # <<>>
  BY <1>2 DEF replay_error, Readable
<1> QED BY <1>1, <1>2

\* A line the next write does not continue.
Clean(log) == log = <<>> \/ Last(log).ended

LEMMA AppendedIs ==
  ASSUME NEW text \in Texts, NEW ended \in BOOLEAN, file \in Seq(Line)
  PROVE  LET line == [text |-> text, ended |-> ended] IN
         /\ Appended(text, ended) \in Seq(Line)
         /\ Appended(text, ended) # <<>>
         /\ Last(Appended(text, ended)).ended = ended
         /\ Clean(file) => line \in Line /\ Appended(text, ended) = Append(file, line)
         /\ ~Clean(file) =>
              /\ file # <<>> /\ Len(Appended(text, ended)) = Len(file)
              /\ \A i \in 1..(Len(file) - 1) : Appended(text, ended)[i] = file[i]
              /\ Appended(text, ended)[Len(file)].text = Garbage
<1> DEFINE line == [text |-> text, ended |-> ended]
           torn == [text |-> Garbage, ended |-> ended]
           n == Len(file)
<1>1. line \in Line /\ torn \in Line
  BY DEF Line, Texts
<1>2. n \in Nat
  BY LenProperties
<1>3. CASE Clean(file)
  <2>1. Appended(text, ended) = Append(file, line)
    BY <1>3 DEF Appended, Clean
  <2>2. line.ended = ended
    OBVIOUS
  <2> HIDE DEF line, n
  <2>3. /\ Append(file, line) \in Seq(Line) /\ Append(file, line) # <<>>
        /\ Len(Append(file, line)) = Len(file) + 1 /\ Append(file, line)[Len(file) + 1] = line
    BY <1>1, AppendProperties
  <2>4. Last(Append(file, line)) = line
    BY <2>3 DEF Last
  <2> QED BY <1>1, <1>3, <2>1, <2>2, <2>3, <2>4 DEF line
<1>4. CASE ~Clean(file)
  <2>1. Appended(text, ended) = Append(Front(file), torn) /\ file # <<>>
    BY <1>4 DEF Appended, Clean
  <2>2. n > 0
    BY <1>2, <2>1, EmptySeq
  <2>3. torn.ended = ended /\ torn.text = Garbage
    OBVIOUS
  <2>4. /\ Front(file) \in Seq(Line) /\ Len(Front(file)) = n - 1
        /\ \A i \in 1..(n - 1) : Front(file)[i] = file[i]
    <3>1. Front(file) = SubSeq(file, 1, n - 1)
      BY DEF Front
    <3>2. \A i \in 1..(n - 1) : file[i] \in Line
      BY <1>2, ElementOfSeq
    <3> HIDE DEF n
    <3>3. /\ SubSeq(file, 1, n - 1) \in Seq(Line)
          /\ Len(SubSeq(file, 1, n - 1)) = IF 1 <= n - 1 THEN (n - 1) - 1 + 1 ELSE 0
          /\ \A i \in 1..((n - 1) - 1 + 1) : SubSeq(file, 1, n - 1)[i] = file[1 + i - 1]
      BY <1>2, <3>2, SubSeqProperties
    <3>4. \A i \in 1..(n - 1) : i \in 1..((n - 1) - 1 + 1) /\ 1 + i - 1 = i
      BY <1>2
    <3> QED BY <1>2, <2>2, <3>1, <3>3, <3>4
  <2> HIDE DEF torn, n
  <2>5. /\ Append(Front(file), torn) \in Seq(Line) /\ Append(Front(file), torn) # <<>>
        /\ Len(Append(Front(file), torn)) = (n - 1) + 1
        /\ \A i \in 1..(n - 1) : Append(Front(file), torn)[i] = Front(file)[i]
        /\ Append(Front(file), torn)[(n - 1) + 1] = torn
    BY <1>1, <2>4, AppendProperties
  <2>6. (n - 1) + 1 = n
    BY <1>2
  <2>7. Last(Append(Front(file), torn)) = torn
    BY <2>5 DEF Last
  <2> QED BY <1>4, <2>1, <2>3, <2>4, <2>5, <2>6, <2>7 DEF n
<1> QED BY <1>3, <1>4

\* A log that open() reads after a write was appended cleanly.
LEMMA ReadableAppended ==
  ASSUME NEW text \in Texts, NEW ended \in BOOLEAN, file \in Seq(Line),
         Readable(Appended(text, ended))
  PROVE  /\ Clean(file) /\ Readable(file) /\ Parses(text)
         /\ Appended(text, ended) = Append(file, [text |-> text, ended |-> ended])
<1> DEFINE line == [text |-> text, ended |-> ended]
           then == Appended(text, ended)
           n == Len(file)
<1>1. n \in Nat /\ line.text = text
  BY LenProperties
<1> HIDE DEF line
<1>2. Clean(file)
  <2> SUFFICES ASSUME ~Clean(file) PROVE FALSE
    OBVIOUS
  <2>1. file # <<>> /\ then # <<>> /\ Len(then) = n /\ then[n].text = Garbage
    BY AppendedIs
  <2>2. n = 1 \/ n \in 2..Len(then)
    BY <1>1, <2>1, EmptySeq
  <2> QED BY <2>1, <2>2 DEF Readable, Parses
<1>3. line \in Line /\ then = Append(file, line) /\ then # <<>>
  BY <1>2, AppendedIs DEF line
<1>4. /\ Len(then) = n + 1 /\ then[n + 1] = line
      /\ \A i \in 1..n : then[i] = file[i]
  BY <1>3, AppendProperties
<1> HIDE DEF then
<1>5. Parses(text)
  <2>1. n + 1 = 1 \/ n + 1 \in 2..Len(then)
    BY <1>1, <1>4
  <2>2. then # <<>> => Parses(then[1].text)
    BY DEF Readable, then
  <2>3. \A i \in 2..Len(then) : Parses(then[i].text)
    BY DEF Readable, then
  <2>4. Parses(then[n + 1].text)
    BY <1>3, <2>1, <2>2, <2>3
  <2> QED BY <1>1, <1>4, <2>4
<1>6. Readable(file)
  <2>1. file # <<>> => n >= 1
    BY <1>1, EmptySeq
  <2>2. file # <<>> => then[1] = file[1]
    BY <1>1, <1>4, <2>1
  <2>3. \A i \in 2..n : i \in 2..Len(then) /\ then[i] = file[i]
    BY <1>1, <1>4
  <2>4. Readable(then)
    BY DEF then
  <2> QED BY <1>3, <2>2, <2>3, <2>4 DEF Readable, n
<1> QED BY <1>2, <1>3, <1>5, <1>6 DEF line, then

-----------------------------------------------------------------------------
(* The maps. *)

\* The map a record leaves.
Effect(map, record) ==
  IF record.kind = "delete" THEN Without(map, record.id) ELSE Put(map, record.id, record.entry)

\* One operation on one id, as MemoryMap has it.
OneStep(map1, map2) ==
  \E id \in Ids : \/ id \in DOMAIN map1 /\ map2 = Without(map1, id)
                  \/ \E entry \in Entries : map2 = Put(map1, id, entry)

LEMMA EmptyMap == <<>> \in Maps /\ DOMAIN <<>> = {}
<1>1. DOMAIN <<>> = {}
  OBVIOUS
<1>2. <<>> = [i \in DOMAIN <<>> |-> <<>>[i]]
  OBVIOUS
<1>3. <<>> \in [{} -> Entries]
  BY <1>1, <1>2
<1>4. {} \in SUBSET Ids
  OBVIOUS
<1> QED BY <1>1, <1>3, <1>4 DEF Maps

LEMMA MapsAre ==
  ASSUME NEW map
  PROVE  map \in Maps <=> DOMAIN map \subseteq Ids /\ map \in [DOMAIN map -> Entries]
<1>1. ASSUME map \in Maps PROVE DOMAIN map \subseteq Ids /\ map \in [DOMAIN map -> Entries]
  <2>1. PICK ids \in SUBSET Ids : map \in [ids -> Entries]
    BY <1>1 DEF Maps
  <2> QED BY <2>1
<1>2. ASSUME DOMAIN map \subseteq Ids, map \in [DOMAIN map -> Entries] PROVE map \in Maps
  BY <1>2 DEF Maps
<1> QED BY <1>1, <1>2

LEMMA PutIs ==
  ASSUME NEW map \in Maps, NEW id \in Ids, NEW entry \in Entries
  PROVE  /\ Put(map, id, entry) \in Maps
         /\ DOMAIN Put(map, id, entry) = DOMAIN map \cup {id}
         /\ Put(map, id, entry)[id] = entry
         /\ \A other \in Ids \ {id} : Same(Put(map, id, entry), map, other)
<1>1. DOMAIN map \subseteq Ids /\ map \in [DOMAIN map -> Entries]
  BY MapsAre
<1>2. /\ DOMAIN Put(map, id, entry) = DOMAIN map \cup {id}
      /\ \A i \in DOMAIN map \cup {id} : Put(map, id, entry)[i] = IF i = id THEN entry ELSE map[i]
  BY DEF Put
<1>3. Put(map, id, entry) \in [DOMAIN map \cup {id} -> Entries]
  BY <1>1 DEF Put
<1>4. Put(map, id, entry) \in Maps
  BY <1>1, <1>2, <1>3, MapsAre
<1> QED BY <1>2, <1>4 DEF Same

LEMMA WithoutIs ==
  ASSUME NEW map \in Maps, NEW id \in Ids
  PROVE  /\ Without(map, id) \in Maps
         /\ \A other \in Ids \ {id} : Same(Without(map, id), map, other)
<1>1. DOMAIN map \subseteq Ids /\ map \in [DOMAIN map -> Entries]
  BY MapsAre
<1>2. /\ DOMAIN Without(map, id) = DOMAIN map \ {id}
      /\ \A i \in DOMAIN map \ {id} : Without(map, id)[i] = map[i]
  BY DEF Without
<1>3. Without(map, id) \in [DOMAIN map \ {id} -> Entries]
  BY <1>1 DEF Without
<1>4. Without(map, id) \in Maps
  BY <1>1, <1>2, <1>3, MapsAre
<1> QED BY <1>2, <1>4 DEF Same

\* What a record does to a map: one operation, which leaves the other ids alone.
LEMMA EffectIs ==
  ASSUME NEW map \in Maps, NEW record \in Records
  PROVE  /\ Effect(map, record) \in Maps
         /\ record.id \in Ids
         /\ \A id \in Ids \ {record.id} : Same(Effect(map, record), map, id)
         /\ (record.kind = "delete" => record.id \in DOMAIN map) => OneStep(map, Effect(map, record))
<1>1. /\ record.id \in Ids
      /\ record.kind # "delete" => record.entry \in Entries
  BY Kinds
<1>2. CASE record.kind = "delete"
  BY <1>1, <1>2, WithoutIs DEF Effect, OneStep
<1>3. CASE record.kind # "delete"
  BY <1>1, <1>3, PutIs DEF Effect, OneStep
<1> QED BY <1>2, <1>3

LEMMA ApplyIs ==
  ASSUME NEW map, NEW line
  PROVE  /\ line.text \in Records => Apply(map, line) = Effect(map, line.text)
         /\ line.text.kind = "header" => Apply(map, line) = map
<1>1. ASSUME line.text \in Records PROVE Apply(map, line) = Effect(map, line.text)
  <2>1. line.text.kind \in {"add", "update", "delete"}
    BY <1>1, Kinds
  <2> QED BY <2>1 DEF Apply, ApplyRecord, Effect
<1> QED BY <1>1 DEF Apply, ApplyRecord

\* A log that open() reads holds a header and then records.
LEMMA ReadableLines ==
  ASSUME NEW log \in Seq(Line), Readable(log), NEW i \in 1..Len(log)
  PROVE  IF i = 1 THEN log[i].text.kind = "header" ELSE log[i].text \in Records
<1>1. log[i] \in Line
  BY ElementOfSeq
<1>2. log[i].text \in Texts
  BY <1>1 DEF Line
<1>3. log # <<>>
  BY EmptySeq
<1>4. CASE i = 1
  BY <1>3, <1>4 DEF Readable
<1>5. CASE i # 1
  <2>1. i \in 2..Len(log)
    BY <1>5, LenProperties
  <2>2. log[i].text # Garbage /\ log[i].text.kind # "header"
    BY <2>1 DEF Readable, Parses
  <2>3. log[i].text \in {Header(v) : v \in Nat} => log[i].text.kind = "header"
    BY Kinds
  <2>4. log[i].text \in Records
    BY <1>2, <2>2, <2>3 DEF Texts
  <2> QED BY <1>5, <2>4
<1> QED BY <1>4, <1>5

\* It is replayed to a map.
LEMMA ReadableMap ==
  ASSUME NEW log \in Seq(Line), Readable(log)
  PROVE  replay(log) \in Maps
<1> DEFINE n == Len(log)
<1>1. n \in Nat
  BY LenProperties
<1>2. PICK f : Replays(f, log, n) /\ replay(log) = f[n]
  BY <1>1, ReplayIs
<1>3. \A i \in 0..n : f[i] = IF i = 0 THEN <<>> ELSE Apply(f[i - 1], log[i])
  BY <1>2 DEF Replays
<1> DEFINE T == {i \in 0..n : f[i] \in Maps}
<1>4. 0 \in T
  BY <1>1, <1>3, EmptyMap
<1>5. ASSUME NEW i \in 0..(n - 1), i \in T PROVE i + 1 \in T
  <2>1. i + 1 \in 0..n /\ i + 1 # 0 /\ (i + 1) - 1 = i /\ i + 1 \in 1..n
    BY <1>1
  <2>2. f[i] \in Maps
    BY <1>5
  <2> HIDE DEF n
  <2>3. f[i + 1] = Apply(f[i], log[i + 1])
    BY <1>3, <2>1
  <2>4. log[i + 1].text.kind = "header" \/ log[i + 1].text \in Records
    BY <2>1, ReadableLines DEF n
  <2>5. Apply(f[i], log[i + 1]) \in Maps
    BY <2>2, <2>4, ApplyIs, EffectIs
  <2> QED BY <2>1, <2>3, <2>5
<1> HIDE DEF T, n
<1>6. 0..n \subseteq T
  BY <1>1, <1>4, <1>5, IntervalFromZero
<1> QED BY <1>1, <1>2, <1>6 DEF T

-----------------------------------------------------------------------------
(* Writes. *)

LEMMA CutIs ==
  ASSUME NEW text \in Texts, NEW log \in Cut(text)
  PROVE  log = file \/ log = Appended(Garbage, FALSE) \/ log = Appended(text, FALSE)
BY DEF Cut

\* A record that open() reads at the end of the log is applied to what the log was.
LEMMA RecordAppended ==
  ASSUME file \in Seq(Line), NEW record \in Records, NEW ended \in BOOLEAN,
         Readable(Appended(record, ended))
  PROVE  /\ Clean(file) /\ Readable(file)
         /\ replay(Appended(record, ended)) = Effect(replay(file), record)
<1> DEFINE line == [text |-> record, ended |-> ended]
<1>1. record \in Texts
  BY DEF Texts
<1>2. /\ Clean(file) /\ Readable(file)
      /\ Appended(record, ended) = Append(file, line)
  BY <1>1, ReadableAppended
<1>3. line \in Line /\ line.text = record
  BY <1>1 DEF Line
<1> HIDE DEF line
<1>4. replay(Append(file, line)) = Apply(replay(file), line)
  BY <1>3, ReplayAppend
<1> QED BY <1>2, <1>3, <1>4, ApplyIs

\* A header at the start of an empty log is replayed to the empty map.
LEMMA HeaderAppended ==
  ASSUME file = <<>>, NEW v \in Nat, NEW ended \in BOOLEAN
  PROVE  /\ Appended(Header(v), ended) \in Seq(Line)
         /\ Appended(Header(v), ended) # <<>>
         /\ Len(Appended(Header(v), ended)) = 1
         /\ Appended(Header(v), ended)[1].text = Header(v)
         /\ replay(Appended(Header(v), ended)) = <<>>
<1> DEFINE line == [text |-> Header(v), ended |-> ended]
<1>1. Header(v) \in Texts
  BY DEF Texts
<1>2. line \in Line /\ line.text = Header(v)
  BY <1>1 DEF Line
<1>3. Appended(Header(v), ended) = Append(file, line)
  BY DEF Appended
<1>4. file \in Seq(Line) /\ Len(file) = 0
  BY EmptySeq
<1> HIDE DEF line
<1>5. /\ Append(file, line) \in Seq(Line) /\ Append(file, line) # <<>>
      /\ Len(Append(file, line)) = 1 /\ Append(file, line)[1] = line
  BY <1>2, <1>4, AppendProperties
<1>6. replay(Append(file, line)) = Apply(replay(file), line)
  BY <1>2, <1>4, ReplayAppend
<1>7. line.text.kind = "header"
  BY <1>2, Kinds
<1> QED BY <1>2, <1>3, <1>5, <1>6, <1>7, ApplyIs, ReplayEmpty

\* A log with a line that cannot be parsed is refused.
Parsed(log) == \A i \in 1..Len(log) : Parses(log[i].text)

LEMMA ReadableParsed ==
  ASSUME NEW log \in Seq(Line), Readable(log)
  PROVE  Parsed(log)
<1> SUFFICES ASSUME NEW i \in 1..Len(log) PROVE Parses(log[i].text)
  BY DEF Parsed
<1>1. i = 1 \/ i \in 2..Len(log)
  BY LenProperties
<1>2. log # <<>>
  BY EmptySeq
<1> QED BY <1>1, <1>2 DEF Readable

\* Garbage makes a log unreadable for good.
LEMMA GarbageAppended ==
  ASSUME file \in Seq(Line), NEW ended \in BOOLEAN
  PROVE  ~Parsed(Appended(Garbage, ended)) /\ ~Readable(Appended(Garbage, ended))
<1> DEFINE then == Appended(Garbage, ended)
           n == Len(file)
           line == [text |-> Garbage, ended |-> ended]
<1>1. Garbage \in Texts /\ n \in Nat
  BY LenProperties DEF Texts
<1>2. ~Parses(Garbage)
  BY DEF Parses
<1>3. then \in Seq(Line)
  BY <1>1, AppendedIs
<1>4. \E i \in 1..Len(then) : then[i].text = Garbage
  <2>1. CASE Clean(file)
    <3>1. line \in Line /\ then = Append(file, line) /\ line.text = Garbage
      BY <1>1, <2>1, AppendedIs
    <3> HIDE DEF line, then, n
    <3>2. Len(then) = n + 1 /\ then[n + 1] = line
      BY <3>1, AppendProperties DEF n
    <3>3. n + 1 \in 1..Len(then)
      BY <1>1, <3>2
    <3> QED BY <3>1, <3>2, <3>3
  <2>2. CASE ~Clean(file)
    <3>1. file # <<>> /\ Len(then) = n /\ then[n].text = Garbage
      BY <1>1, <2>2, AppendedIs
    <3> HIDE DEF then
    <3>2. n \in 1..Len(then)
      BY <1>1, <3>1, EmptySeq
    <3> QED BY <3>1, <3>2
  <2> QED BY <2>1, <2>2
<1> HIDE DEF then, line, n
<1>5. ~Parsed(then)
  BY <1>2, <1>4 DEF Parsed
<1>6. ~Readable(then)
  BY <1>3, <1>5, ReadableParsed
<1> QED BY <1>5, <1>6 DEF then

\* A record that parses at the end of a readable log leaves it readable.
LEMMA ParsedAppended ==
  ASSUME file \in Seq(Line), NEW record \in Records, NEW ended \in BOOLEAN, file # <<>>,
         Parsed(Appended(record, ended))
  PROVE  Clean(file) /\ Parsed(file) /\ (Readable(file) => Readable(Appended(record, ended)))
<1> DEFINE then == Appended(record, ended)
           n == Len(file)
           line == [text |-> record, ended |-> ended]
<1>1. record \in Texts /\ n \in Nat /\ n >= 1 /\ line.text = record /\ record.kind # "header"
  BY LenProperties, EmptySeq, Kinds DEF Texts
<1>2. Clean(file)
  <2> SUFFICES ASSUME ~Clean(file) PROVE FALSE
    OBVIOUS
  <2>1. Len(then) = n /\ then[n].text = Garbage
    BY <1>1, AppendedIs
  <2>2. n \in 1..n
    BY <1>1
  <2> QED BY <2>1, <2>2 DEF Parsed, Parses
<1>3. line \in Line /\ then = Append(file, line)
  BY <1>1, <1>2, AppendedIs
<1> HIDE DEF line, then, n
<1>4. Len(then) = n + 1 /\ then[n + 1] = line /\ \A i \in 1..n : then[i] = file[i]
  BY <1>3, AppendProperties DEF n
<1>5. Parsed(then)
  BY DEF then
<1>6. Parsed(file)
  <2>1. \A i \in 1..n : i \in 1..Len(then)
    BY <1>1, <1>4
  <2> QED BY <1>4, <1>5, <2>1 DEF Parsed, n
<1>7. ASSUME Readable(file) PROVE Readable(then)
  <2>1. then[1] = file[1]
    BY <1>1, <1>4
  <2>2. \A i \in 2..Len(then) : Parses(then[i].text) /\ then[i].text.kind # "header"
    <3> SUFFICES ASSUME NEW i \in 2..Len(then) PROVE Parses(then[i].text) /\ then[i].text.kind # "header"
      OBVIOUS
    <3>1. i \in 1..Len(then)
      BY <1>1, <1>4
    <3>2. i = n + 1 \/ i \in 2..n
      BY <1>1, <1>4
    <3>3. Parses(then[i].text)
      BY <1>5, <3>1 DEF Parsed
    <3>4. i \in 2..n => then[i].text.kind # "header"
      <4>1. i \in 2..n => i \in 1..n
        OBVIOUS
      <4> QED BY <1>4, <1>7, <4>1 DEF Readable, n
    <3> QED BY <1>1, <1>4, <3>2, <3>3, <3>4
  <2> QED BY <1>7, <2>1, <2>2 DEF Readable
<1> QED BY <1>2, <1>6, <1>7 DEF then

-----------------------------------------------------------------------------
(* The invariant.  A log with an unended line is the hard case: the map in *)
(* memory may be one failed operation behind it, and the next write makes  *)
(* garbage of that line.                                                   *)

Opened   == phase = "open" => file # <<>> /\ acked = entries /\ (Parsed(file) => Readable(file))
Untried  == file = <<>> => acked = <<>>
MapOfLog ==
  phase = "open" /\ Readable(file) =>
    \/ replay(file) = entries
    \/ ~Clean(file) /\ OneStep(entries, replay(file))
LogHolds == Readable(file) => \A id \in Ids \ doubtful : Same(replay(file), acked, id)

Inv == TypeOK /\ file \in Seq(Line) /\ Opened /\ Untried /\ MapOfLog /\ LogHolds

LEMMA OperationIs ==
  ASSUME TypeOK, Operation
  PROVE  \E record \in Records :
           /\ record.kind = "delete" => record.id \in DOMAIN entries
           /\ Mutate(record, Effect(entries, record))
<1>1. PICK id \in Ids : delete(id) \/ \E entry \in Entries : add(id, entry) \/ update(id, entry)
  BY DEF Operation
<1>2. CASE delete(id)
  <2>1. DeleteRecord(id) \in Records
    BY DEF Records
  <2>2. DeleteRecord(id).kind = "delete" /\ DeleteRecord(id).id = id
    BY DEF DeleteRecord
  <2>3. id \in DOMAIN entries /\ Mutate(DeleteRecord(id), Without(entries, id))
    BY <1>2 DEF delete
  <2>4. Effect(entries, DeleteRecord(id)) = Without(entries, id)
    BY <2>2 DEF Effect
  <2> QED BY <2>1, <2>2, <2>3, <2>4
<1>3. ASSUME NEW entry \in Entries, add(id, entry)
      PROVE  \E record \in Records :
               record.kind # "delete" /\ Mutate(record, Effect(entries, record))
  <2>1. AddRecord(id, entry) \in Records
    <3>1. <<id, entry>> \in Ids \X Entries /\ <<id, entry>>[1] = id /\ <<id, entry>>[2] = entry
      OBVIOUS
    <3> QED BY <3>1 DEF Records
  <2>2. /\ AddRecord(id, entry).kind = "add" /\ AddRecord(id, entry).id = id
        /\ AddRecord(id, entry).entry = entry
    BY DEF AddRecord
  <2>3. Mutate(AddRecord(id, entry), Put(entries, id, entry))
    BY <1>3 DEF add
  <2>4. Effect(entries, AddRecord(id, entry)) = Put(entries, id, entry)
    BY <2>2 DEF Effect
  <2> QED BY <2>1, <2>2, <2>3, <2>4
<1>4. ASSUME NEW entry \in Entries, update(id, entry)
      PROVE  \E record \in Records :
               record.kind # "delete" /\ Mutate(record, Effect(entries, record))
  <2>1. UpdateRecord(id, entry) \in Records
    <3>1. <<id, entry>> \in Ids \X Entries /\ <<id, entry>>[1] = id /\ <<id, entry>>[2] = entry
      OBVIOUS
    <3> QED BY <3>1 DEF Records
  <2>2. /\ UpdateRecord(id, entry).kind = "update" /\ UpdateRecord(id, entry).id = id
        /\ UpdateRecord(id, entry).entry = entry
    BY DEF UpdateRecord
  <2>3. Mutate(UpdateRecord(id, entry), Put(entries, id, entry))
    BY <1>4 DEF update
  <2>4. Effect(entries, UpdateRecord(id, entry)) = Put(entries, id, entry)
    BY <2>2 DEF Effect
  <2> QED BY <2>1, <2>2, <2>3, <2>4
<1> QED BY <1>1, <1>2, <1>3, <1>4

\* The first line stays a header or an attempt at one.
LEMMA FirstLine ==
  ASSUME file \in Seq(Line), NEW text \in Texts, NEW ended \in BOOLEAN,
         IF file = <<>> THEN text.kind \in {"header", "garbage"}
                        ELSE file[1].text.kind \in {"header", "garbage"}
  PROVE  Appended(text, ended)[1].text.kind \in {"header", "garbage"}
<1> DEFINE then == Appended(text, ended)
           n == Len(file)
           line == [text |-> text, ended |-> ended]
<1>1. n \in Nat /\ line.text = text /\ (file # <<>> => n >= 1) /\ (file = <<>> => n = 0)
  BY LenProperties, EmptySeq
<1>2. CASE Clean(file)
  <2>1. line \in Line /\ then = Append(file, line)
    BY <1>2, AppendedIs
  <2> HIDE DEF line, then, n
  <2>2. then[n + 1] = line /\ \A i \in 1..n : then[i] = file[i]
    BY <2>1, AppendProperties DEF n
  <2>3. file # <<>> => then[1] = file[1]
    BY <1>1, <2>2
  <2>4. file = <<>> => then[1] = line
    BY <1>1, <2>2
  <2> QED BY <1>1, <2>3, <2>4 DEF then
<1>3. CASE ~Clean(file)
  <2>1. /\ file # <<>> /\ then[n].text = Garbage
        /\ \A i \in 1..(n - 1) : then[i] = file[i]
    BY <1>3, AppendedIs
  <2> HIDE DEF line, then, n
  <2>2. n = 1 \/ 1 \in 1..(n - 1)
    BY <1>1, <2>1
  <2> QED BY <2>1, <2>2, Kinds DEF then
<1> QED BY <1>2, <1>3

\* What a write for an operation, whole or cut, makes of the log of an open store.
LEMMA LogWritten ==
  ASSUME Inv, phase = "open", NEW record \in Records,
         record.kind = "delete" => record.id \in DOMAIN entries,
         NEW log \in Cut(record) \cup {Appended(record, TRUE)}
  PROVE  /\ log \in Seq(Line) /\ log # <<>> /\ log[1].text.kind \in {"header", "garbage"}
         /\ Parsed(log) => Readable(log)
         /\ Readable(log) =>
              /\ Readable(file)
              /\ \/ log = file
                 \/ Clean(file) /\ replay(log) = Effect(entries, record)
              /\ \A id \in Ids \ (doubtful \cup {record.id}) : Same(replay(log), acked, id)
<1>1. /\ record \in Texts /\ Garbage \in Texts
      /\ file \in Seq(Line) /\ file # <<>> /\ file[1].text.kind \in {"header", "garbage"}
      /\ Parsed(file) => Readable(file)
      /\ acked = entries /\ entries \in Maps
  BY DEF Inv, Texts, Opened, TypeOK
<1>2. CASE log = file
  BY <1>1, <1>2 DEF Inv, LogHolds
<1>3. CASE log = Appended(Garbage, FALSE)
  BY <1>1, <1>3, AppendedIs, FirstLine, GarbageAppended
<1>4. ASSUME NEW ended \in BOOLEAN, log = Appended(record, ended)
      PROVE  /\ log \in Seq(Line) /\ log # <<>> /\ log[1].text.kind \in {"header", "garbage"}
             /\ Parsed(log) => Readable(log)
             /\ Readable(log) =>
                  /\ Readable(file)
                  /\ Clean(file) /\ replay(log) = Effect(entries, record)
                  /\ \A id \in Ids \ (doubtful \cup {record.id}) : Same(replay(log), acked, id)
  <2>1. log \in Seq(Line) /\ log # <<>> /\ log[1].text.kind \in {"header", "garbage"}
    BY <1>1, <1>4, AppendedIs, FirstLine
  <2>2. Parsed(log) => Readable(log)
    BY <1>1, <1>4, ParsedAppended
  <2>3. ASSUME Readable(log)
        PROVE  Clean(file) /\ Readable(file) /\ replay(log) = Effect(entries, record)
    <3>1. Clean(file) /\ Readable(file) /\ replay(log) = Effect(replay(file), record)
      BY <1>1, <1>4, <2>3, RecordAppended
    <3>2. replay(file) = entries
      BY <3>1 DEF Inv, MapOfLog
    <3> QED BY <3>1, <3>2
  <2>4. \A id \in Ids \ (doubtful \cup {record.id}) : Same(Effect(entries, record), acked, id)
    BY <1>1, EffectIs
  <2> QED BY <2>1, <2>2, <2>3, <2>4
<1> QED BY <1>1, <1>2, <1>3, <1>4, CutIs

\* A cut write leaves the log as it was, or with an unended line.
LEMMA CutUnended ==
  ASSUME file \in Seq(Line), NEW text \in Texts, NEW log \in Cut(text)
  PROVE  log = file \/ ~Clean(log)
<1>1. Garbage \in Texts
  BY DEF Texts
<1> QED BY <1>1, CutIs, AppendedIs DEF Clean

-----------------------------------------------------------------------------
(* The steps. *)

LEMMA InvInit == Init => Inv
<1> SUFFICES ASSUME Init PROVE Inv
  OBVIOUS
<1> USE ReferenceAssumption
<1>1. CASE file = <<>>
  <2>1. file \in Seq(Line)
    BY <1>1, EmptySeq
  <2>2. replay(file) = <<>> /\ ~(phase = "open") /\ acked = <<>> /\ entries = <<>>
    BY <1>1, ReplayEmpty DEF Init
  <2>3. TypeOK
    BY <1>1, EmptyMap DEF Init, TypeOK
  <2> QED BY <2>1, <2>2, <2>3 DEF Inv, Opened, Untried, MapOfLog, LogHolds, Same
<1>2. CASE file = <<[text |-> Header(SCHEMA_VERSION + 1), ended |-> TRUE]>>
  <2> DEFINE line == [text |-> Header(SCHEMA_VERSION + 1), ended |-> TRUE]
  <2>1. line \in Line /\ line.text = Header(SCHEMA_VERSION + 1)
    BY DEF Line, Texts
  <2> HIDE DEF line
  <2>2. file \in Seq(Line) /\ file # <<>> /\ file[1] = line
    BY <1>2, <2>1 DEF line
  <2>3. line.text.kind = "header" /\ line.text.schema_version # SCHEMA_VERSION
    BY <2>1, Kinds
  <2>4. ~Readable(file)
    BY <2>2, <2>3 DEF Readable
  <2>5. phase # "open" /\ acked = <<>>
    BY DEF Init
  <2>6. TypeOK
    BY <2>2, <2>3, EmptyMap DEF Init, TypeOK
  <2> QED BY <2>2, <2>4, <2>5, <2>6 DEF Inv, Opened, Untried, MapOfLog, LogHolds
<1> QED BY <1>1, <1>2 DEF Init

\* The log and the map right after open().
LEMMA OpenIs ==
  ASSUME Inv, Open
  PROVE  /\ file' \in Seq(Line) /\ file' # <<>> /\ file'[1].text.kind \in {"header", "garbage"}
         /\ Readable(file) /\ Readable(file') /\ replay(file') = replay(file) /\ replay(file) \in Maps
         /\ entries' = replay(file) /\ acked' = replay(file) /\ phase' = "open"
<1>1. /\ file \in Seq(Line) /\ replay_error(file) = "None"
      /\ file # <<>> => file[1].text.kind \in {"header", "garbage"}
  BY DEF Inv, Open, TypeOK
<1>2. Readable(file) /\ replay(file) \in Maps
  BY <1>1, ErrorIs, ReadableMap
<1>3. entries' = replay(file) /\ acked' = replay(file) /\ phase' = "open"
  BY DEF Open
<1>4. CASE file = <<>>
  <2>1. file' = Appended(Header(SCHEMA_VERSION), TRUE)
    BY <1>4 DEF Open
  <2>2. /\ file' \in Seq(Line) /\ file' # <<>> /\ Len(file') = 1
        /\ file'[1].text = Header(SCHEMA_VERSION) /\ replay(file') = <<>>
    BY <1>4, <2>1, HeaderAppended, ReferenceAssumption
  <2>3. /\ Header(SCHEMA_VERSION).kind = "header" /\ Header(SCHEMA_VERSION).schema_version = SCHEMA_VERSION
        /\ Header(SCHEMA_VERSION) \in Texts
    BY Kinds, ReferenceAssumption DEF Texts
  <2>4. Parses(Header(SCHEMA_VERSION))
    BY <2>3, TextOfKind
  <2>5. 2..Len(file') = {}
    BY <2>2
  <2>6. Readable(file')
    BY <2>2, <2>3, <2>4, <2>5 DEF Readable
  <2> QED BY <1>2, <1>3, <1>4, <2>2, <2>3, <2>6, ReplayEmpty
<1>5. CASE file # <<>>
  <2>1. file' = file
    BY <1>5 DEF Open
  <2> QED BY <1>1, <1>2, <1>3, <1>5, <2>1
<1> QED BY <1>4, <1>5

LEMMA InvOpen ==
  ASSUME Inv, Open
  PROVE  Inv'
<1>1. /\ file' \in Seq(Line) /\ file' # <<>> /\ file'[1].text.kind \in {"header", "garbage"}
      /\ Readable(file') /\ replay(file') = entries' /\ entries' \in Maps
      /\ acked' = entries' /\ phase' = "open"
  BY OpenIs
<1>2. TypeOK'
  BY <1>1 DEF Inv, TypeOK, Open, bounds
<1>3. Opened' /\ Untried' /\ MapOfLog'
  BY <1>1 DEF Opened, Untried, MapOfLog
<1>4. LogHolds'
  BY <1>1 DEF LogHolds, Same
<1> QED BY <1>1, <1>2, <1>3, <1>4 DEF Inv

LEMMA InvOpenRefused ==
  ASSUME Inv, OpenRefused
  PROVE  Inv'
<1>1. /\ file' = file /\ phase' = phase /\ entries' = entries /\ acked' = acked
      /\ doubtful' = doubtful /\ error' = replay_error(file)
      /\ ops' = ops /\ faults' = faults /\ crashes' = crashes
  BY DEF OpenRefused, bounds
<1>2. replay_error(file) \in {"None", "Io", "Corrupt", "UnsupportedSchemaVersion"}
  BY DEF replay_error
<1>3. TypeOK'
  BY <1>1, <1>2 DEF Inv, TypeOK
<1> QED BY <1>1, <1>3 DEF Inv, Opened, Untried, MapOfLog, LogHolds

\* A header that is not written whole makes a log of which open() makes nothing.
LEMMA OpenFaultIs ==
  ASSUME Inv, OpenFault
  PROVE  /\ file' \in Seq(Line) /\ phase' = "closed" /\ acked' = <<>> /\ acked = <<>>
         /\ file' # <<>> => file'[1].text.kind \in {"header", "garbage"}
         /\ Readable(file') => replay(file') = <<>>
<1>1. /\ file = <<>> /\ acked = <<>> /\ acked' = acked /\ phase' = "closed" /\ file \in Seq(Line)
      /\ file' \in Cut(Header(SCHEMA_VERSION))
  BY DEF Inv, Untried, OpenFault
<1>2. /\ Header(SCHEMA_VERSION) \in Texts /\ Header(SCHEMA_VERSION).kind = "header"
      /\ Garbage \in Texts /\ Garbage.kind = "garbage"
  BY Kinds, ReferenceAssumption DEF Texts
<1>3. CASE file' = file
  BY <1>1, <1>3, ReplayEmpty
<1>4. CASE file' = Appended(Garbage, FALSE)
  BY <1>1, <1>2, <1>4, AppendedIs, FirstLine, GarbageAppended
<1>5. CASE file' = Appended(Header(SCHEMA_VERSION), FALSE)
  BY <1>1, <1>2, <1>5, HeaderAppended, ReferenceAssumption
<1> QED BY <1>1, <1>2, <1>3, <1>4, <1>5, CutIs

LEMMA InvOpenFault ==
  ASSUME Inv, OpenFault
  PROVE  Inv'
<1>1. /\ file' \in Seq(Line) /\ phase' = "closed" /\ acked' = <<>>
      /\ file' # <<>> => file'[1].text.kind \in {"header", "garbage"}
      /\ Readable(file') => replay(file') = <<>>
  BY OpenFaultIs
<1>2. TypeOK'
  <2>1. faults' \in 0..MaxFaults
    BY ReferenceAssumption DEF Inv, TypeOK, OpenFault
  <2> QED BY <1>1, <2>1, EmptyMap DEF Inv, TypeOK, OpenFault
<1>3. Opened' /\ Untried' /\ MapOfLog'
  BY <1>1 DEF Opened, Untried, MapOfLog
<1>4. LogHolds'
  BY <1>1 DEF LogHolds, Same
<1> QED BY <1>1, <1>2, <1>3, <1>4 DEF Inv

LEMMA InvWritten ==
  ASSUME Inv, phase = "open", NEW record \in Records,
         record.kind = "delete" => record.id \in DOMAIN entries,
         Mutate(record, Effect(entries, record)), Written(record, Effect(entries, record))
  PROVE  Inv'
<1> DEFINE map == Effect(entries, record)
<1>1. /\ file' = Appended(record, TRUE) /\ entries' = map /\ acked' = map
      /\ phase' = phase /\ doubtful' = doubtful /\ faults' = faults /\ crashes' = crashes
      /\ ops < MaxOps /\ ops' = ops + 1 /\ error' = error
  BY DEF Written, Mutate
<1>2. /\ file' \in Seq(Line) /\ file' # <<>> /\ file'[1].text.kind \in {"header", "garbage"}
      /\ Parsed(file') => Readable(file')
  BY <1>1, LogWritten
<1>3. map \in Maps /\ record.id \in Ids
  BY EffectIs DEF Inv, TypeOK
<1>4. Readable(file') => replay(file') = map
  <2>1. file \in Seq(Line)
    BY DEF Inv
  <2>2. ASSUME Readable(file') PROVE replay(file') = Effect(replay(file), record) /\ replay(file) = entries
    <3>1. Clean(file) /\ Readable(file) /\ replay(file') = Effect(replay(file), record)
      BY <1>1, <2>1, <2>2, RecordAppended
    <3> QED BY <3>1 DEF Inv, MapOfLog
  <2> QED BY <2>2
<1> HIDE DEF map
<1>5. TypeOK'
  <2>1. ops' \in 0..MaxOps
    BY <1>1, ReferenceAssumption DEF Inv, TypeOK
  <2> QED BY <1>1, <1>2, <1>3, <2>1 DEF Inv, TypeOK
<1>6. Opened' /\ Untried' /\ MapOfLog'
  BY <1>1, <1>2, <1>4 DEF Opened, Untried, MapOfLog
<1>7. LogHolds'
  BY <1>1, <1>4 DEF LogHolds, Same
<1> QED BY <1>2, <1>5, <1>6, <1>7 DEF Inv

LEMMA InvNotWritten ==
  ASSUME Inv, phase = "open", NEW record \in Records,
         record.kind = "delete" => record.id \in DOMAIN entries,
         Mutate(record, Effect(entries, record)), NotWritten(record, Effect(entries, record))
  PROVE  Inv'
<1>1. /\ file' \in Cut(record) /\ entries' = entries /\ acked' = acked
      /\ phase' = phase /\ doubtful' = doubtful \cup {record.id}
      /\ faults < MaxFaults /\ faults' = faults + 1 /\ crashes' = crashes
      /\ ops < MaxOps /\ ops' = ops + 1 /\ error' = error
  BY DEF NotWritten, Mutate
<1>2. /\ file' \in Seq(Line) /\ file' # <<>> /\ file'[1].text.kind \in {"header", "garbage"}
      /\ Parsed(file') => Readable(file')
      /\ Readable(file') =>
           /\ Readable(file)
           /\ \/ file' = file
              \/ Clean(file) /\ replay(file') = Effect(entries, record)
           /\ \A id \in Ids \ (doubtful \cup {record.id}) : Same(replay(file'), acked, id)
  BY <1>1, LogWritten
<1>3. record.id \in Ids /\ OneStep(entries, Effect(entries, record))
  BY EffectIs DEF Inv, TypeOK
<1>4. TypeOK'
  <2>1. ops' \in 0..MaxOps /\ faults' \in 0..MaxFaults
    BY <1>1, ReferenceAssumption DEF Inv, TypeOK
  <2> QED BY <1>1, <1>2, <1>3, <2>1 DEF Inv, TypeOK
<1>5. Opened' /\ Untried'
  BY <1>1, <1>2 DEF Inv, Opened, Untried
<1>6. MapOfLog'
  <2>1. CASE file' = file
    BY <1>1, <2>1 DEF Inv, MapOfLog
  <2>2. CASE file' # file
    <3>1. ~Clean(file')
      BY <1>1, <2>2, CutUnended DEF Inv, Texts
    <3> QED BY <1>1, <1>2, <1>3, <2>2, <3>1 DEF MapOfLog
  <2> QED BY <2>1, <2>2
<1>7. LogHolds'
  BY <1>1, <1>2 DEF LogHolds
<1> QED BY <1>2, <1>4, <1>5, <1>6, <1>7 DEF Inv

LEMMA InvCutByCrash ==
  ASSUME Inv, phase = "open", NEW record \in Records,
         record.kind = "delete" => record.id \in DOMAIN entries,
         Mutate(record, Effect(entries, record)), CutByCrash(record)
  PROVE  Inv'
<1>1. /\ file' \in Cut(record) \cup {Appended(record, TRUE)} /\ entries' = <<>> /\ acked' = acked
      /\ phase' = "closed" /\ doubtful' = doubtful \cup {record.id}
      /\ crashes < MaxCrashes /\ crashes' = crashes + 1 /\ faults' = faults
      /\ ops < MaxOps /\ ops' = ops + 1 /\ error' = error
  BY DEF CutByCrash, Mutate
<1>2. /\ file' \in Seq(Line) /\ file' # <<>> /\ file'[1].text.kind \in {"header", "garbage"}
      /\ Readable(file') =>
           \A id \in Ids \ (doubtful \cup {record.id}) : Same(replay(file'), acked, id)
  BY <1>1, LogWritten
<1>3. record.id \in Ids
  BY Kinds
<1>4. TypeOK'
  <2>1. ops' \in 0..MaxOps /\ crashes' \in 0..MaxCrashes
    BY <1>1, ReferenceAssumption DEF Inv, TypeOK
  <2> QED BY <1>1, <1>2, <1>3, <2>1, EmptyMap DEF Inv, TypeOK
<1>5. Opened' /\ Untried' /\ MapOfLog'
  BY <1>1, <1>2 DEF Opened, Untried, MapOfLog
<1>6. LogHolds'
  BY <1>1, <1>2 DEF LogHolds
<1> QED BY <1>2, <1>4, <1>5, <1>6 DEF Inv

LEMMA InvRestart ==
  ASSUME Inv, Restart
  PROVE  Inv'
<1>1. /\ phase = "open" /\ phase' = "closed" /\ entries' = <<>>
      /\ file' = file /\ error' = error /\ acked' = acked /\ doubtful' = doubtful
      /\ ops' = ops /\ faults' = faults
      /\ crashes < MaxCrashes /\ crashes' = crashes + 1
  BY DEF Restart
<1>2. crashes' \in 0..MaxCrashes
  BY <1>1, ReferenceAssumption DEF Inv, TypeOK
<1>3. TypeOK'
  BY <1>1, <1>2, EmptyMap DEF Inv, TypeOK
<1> QED BY <1>1, <1>3 DEF Inv, Opened, Untried, MapOfLog, LogHolds

LEMMA InvStep ==
  ASSUME Inv, [Next]_vars
  PROVE  Inv'
<1>1. CASE Open
  BY <1>1, InvOpen
<1>2. CASE OpenRefused
  BY <1>2, InvOpenRefused
<1>3. CASE OpenFault
  BY <1>3, InvOpenFault
<1>4. CASE Operation
  <2>1. PICK record \in Records :
          /\ record.kind = "delete" => record.id \in DOMAIN entries
          /\ Mutate(record, Effect(entries, record))
    BY <1>4, OperationIs DEF Inv
  <2>2. phase = "open"
    BY <2>1 DEF Mutate
  <2>3. CASE Written(record, Effect(entries, record))
    BY <2>1, <2>2, <2>3, InvWritten
  <2>4. CASE NotWritten(record, Effect(entries, record))
    BY <2>1, <2>2, <2>4, InvNotWritten
  <2>5. CASE CutByCrash(record)
    BY <2>1, <2>2, <2>5, InvCutByCrash
  <2> QED BY <2>1, <2>3, <2>4, <2>5 DEF Mutate
<1>5. CASE Restart
  BY <1>5, InvRestart
<1>6. CASE UNCHANGED vars
  BY <1>6 DEF vars, bounds, Inv, TypeOK, Opened, Untried, MapOfLog, LogHolds
<1> QED BY <1>1, <1>2, <1>3, <1>4, <1>5, <1>6 DEF Next

\* The invariant holds in every state of the store.
THEOREM Invariance == Spec => []Inv
<1>1. Inv /\ [Next]_vars => Inv'
  BY InvStep
<1> QED BY <1>1, InvInit, PTL DEF Spec

\* LogMirrorsMap: the map in memory is the one the log is replayed to, and a log
\* that open() accepts has what the operations that returned Ok left there.
THEOREM LogMirrors == Spec => []LogMirrorsMap
<1>1. Inv => LogMirrorsMap
  <2> SUFFICES ASSUME Inv PROVE LogMirrorsMap
    OBVIOUS
  <2>1. file \in Seq(Line) /\ TypeOK
    BY DEF Inv
  <2>2. replay_error(file) = "None" => \A id \in Ids \ doubtful : Same(replay(file), acked, id)
    BY <2>1, ErrorIs DEF Inv, LogHolds
  <2>3. ASSUME phase = "open", Intact PROVE replay(file) = entries
    <3>1. DOMAIN file = 1..Len(file) /\ Len(file) \in Nat /\ (file # <<>> => Len(file) >= 1)
      BY <2>1, LenProperties, EmptySeq
    <3>2. Parsed(file)
      BY <2>3, <3>1 DEF Intact, Parsed
    <3>3. Readable(file) /\ file # <<>>
      BY <2>3, <3>2 DEF Inv, Opened
    <3>4. Clean(file)
      BY <2>3, <3>1, <3>3 DEF Clean, Intact, Last
    <3> QED BY <2>3, <3>3, <3>4 DEF Inv, MapOfLog
  <2> QED BY <2>1, <2>2, <2>3 DEF LogMirrorsMap
<1> QED BY <1>1, Invariance, PTL

-----------------------------------------------------------------------------
(* The log implements MemoryMap. *)

LEMMA KeptIs ==
  ASSUME Inv
  PROVE  /\ phase = "open" => kept = entries
         /\ phase = "closed" => kept = IF Readable(file) THEN replay(file) ELSE acked
         /\ kept \in Maps
<1>1. file \in Seq(Line) /\ entries \in Maps /\ acked \in Maps /\ phase \in {"open", "closed"}
  BY DEF Inv, TypeOK
<1>2. CASE phase = "open"
  BY <1>1, <1>2 DEF kept
<1>3. CASE phase = "closed" /\ Readable(file)
  BY <1>1, <1>3, ErrorIs, ReadableMap DEF kept
<1>4. CASE phase = "closed" /\ ~Readable(file)
  <2>1. replay_error(file) # "None"
    BY <1>1, <1>4, ErrorIs
  <2> QED BY <1>1, <1>4, <2>1 DEF kept
<1> QED BY <1>1, <1>2, <1>3, <1>4

\* No step changes what is kept but by one operation on one id.
LEMMA KeptStep ==
  ASSUME Inv, [Next]_vars
  PROVE  kept' = kept \/ OneStep(kept, kept')
<1>1. /\ phase' = "open" => kept' = entries'
      /\ phase' = "closed" => kept' = IF Readable(file') THEN replay(file') ELSE acked'
  <2>1. Inv'
    BY InvStep
  <2>2. file' \in Seq(Line) /\ phase' \in {"open", "closed"}
    BY <2>1 DEF Inv, TypeOK
  <2>3. replay_error(file') = "None" <=> Readable(file')
    BY <2>2, ErrorIs
  <2>4. phase' = "open" => kept' = entries'
    BY DEF kept
  <2>5. phase' = "closed" => kept' = IF Readable(file') THEN replay(file') ELSE acked'
    BY <2>3 DEF kept
  <2> QED BY <2>4, <2>5
<1>2. CASE Open
  <2>1. Readable(file) /\ entries' = replay(file) /\ phase' = "open"
    BY <1>2, OpenIs
  <2>2. phase = "closed"
    BY <1>2 DEF Open
  <2> QED BY <1>1, <2>1, <2>2, KeptIs
<1>3. CASE OpenRefused
  BY <1>3 DEF OpenRefused, kept
<1>4. CASE OpenFault
  <2>1. phase' = "closed" /\ acked' = <<>> /\ acked = <<>> /\ (Readable(file') => replay(file') = <<>>)
    BY <1>4, OpenFaultIs
  <2>2. phase = "closed" /\ replay(file) = <<>>
    BY <1>4, ReplayEmpty DEF OpenFault
  <2> QED BY <1>1, <2>1, <2>2, KeptIs
<1>5. CASE Operation
  <2>1. PICK record \in Records :
          /\ record.kind = "delete" => record.id \in DOMAIN entries
          /\ Mutate(record, Effect(entries, record))
    BY <1>5, OperationIs DEF Inv
  <2>2. phase = "open" /\ kept = entries /\ acked = entries /\ file # <<>>
    BY <2>1, KeptIs DEF Mutate, Inv, Opened
  <2>3. OneStep(entries, Effect(entries, record))
    BY <2>1, EffectIs DEF Inv, TypeOK
  <2>4. CASE Written(record, Effect(entries, record))
    <3>1. phase' = "open" /\ entries' = Effect(entries, record)
      BY <2>2, <2>4 DEF Written
    <3> QED BY <1>1, <2>2, <2>3, <3>1
  <2>5. CASE NotWritten(record, Effect(entries, record))
    <3>1. phase' = "open" /\ entries' = entries
      BY <2>2, <2>5 DEF NotWritten
    <3> QED BY <1>1, <2>2, <3>1
  <2>6. CASE CutByCrash(record)
    <3>1. /\ phase' = "closed" /\ acked' = entries
          /\ file' \in Cut(record) \cup {Appended(record, TRUE)}
      BY <2>2, <2>6 DEF CutByCrash
    <3>2. CASE ~Readable(file')
      BY <1>1, <2>2, <3>1, <3>2
    <3>3. CASE Readable(file')
      <4>1. /\ Readable(file)
            /\ file' = file \/ replay(file') = Effect(entries, record)
        BY <2>1, <2>2, <3>1, <3>3, LogWritten
      <4>2. kept' = replay(file')
        BY <1>1, <3>1, <3>3
      <4>3. replay(file) = entries \/ OneStep(entries, replay(file))
        BY <2>2, <4>1 DEF Inv, MapOfLog
      <4>4. CASE file' = file
        BY <2>2, <4>2, <4>3, <4>4
      <4>5. CASE replay(file') = Effect(entries, record)
        BY <2>2, <2>3, <4>2, <4>5
      <4> QED BY <4>1, <4>4, <4>5
    <3> QED BY <3>2, <3>3
  <2> QED BY <2>1, <2>4, <2>5, <2>6 DEF Mutate
<1>6. CASE Restart
  <2>1. /\ phase = "open" /\ phase' = "closed" /\ file' = file /\ acked' = entries
        /\ kept = entries
    BY <1>6, KeptIs DEF Restart, Inv, Opened
  <2>2. Readable(file) => replay(file) = entries \/ OneStep(entries, replay(file))
    BY <2>1 DEF Inv, MapOfLog
  <2> QED BY <1>1, <2>1, <2>2
<1>7. CASE UNCHANGED vars
  BY <1>7 DEF vars, bounds, kept
<1> QED BY <1>2, <1>3, <1>4, <1>5, <1>6, <1>7 DEF Next

\* One operation is a step of MemoryMap.
LEMMA OneStepIsNext ==
  ASSUME kept \in Maps, OneStep(kept, kept')
  PROVE  Map!Next
<1>1. PICK id \in Ids : \/ id \in DOMAIN kept /\ kept' = Without(kept, id)
                        \/ \E entry \in Entries : kept' = Put(kept, id, entry)
  BY DEF OneStep
<1>2. CASE id \in DOMAIN kept /\ kept' = Without(kept, id)
  <2>1. Map!Delete(id)
    BY <1>2 DEF Map!Delete, Without
  <2> QED BY <2>1 DEF Map!Next
<1>3. ASSUME NEW entry \in Entries, kept' = Put(kept, id, entry) PROVE Map!Next
  <2>1. CASE id \notin DOMAIN kept
    <3>1. Map!Add(id, entry)
      BY <1>3, <2>1 DEF Map!Add, Put
    <3> QED BY <3>1 DEF Map!Next
  <2>2. CASE id \in DOMAIN kept
    <3>1. kept = [i \in DOMAIN kept |-> kept[i]]
      BY MapsAre
    <3>2. [kept EXCEPT ![id] = entry] = [i \in DOMAIN kept |-> IF i = id THEN entry ELSE kept[i]]
      BY <3>1
    <3>3. DOMAIN kept \cup {id} = DOMAIN kept
      BY <2>2
    <3>4. kept' = [kept EXCEPT ![id] = entry]
      BY <1>3, <3>2, <3>3 DEF Put
    <3>5. Map!Update(id, entry)
      BY <2>2, <3>4 DEF Map!Update
    <3> QED BY <3>5 DEF Map!Next
  <2> QED BY <2>1, <2>2
<1> QED BY <1>1, <1>2, <1>3

\* ImplementsMap: through failing writes, crashes and restarts the store is a map
\* that changes only by an add of a new id, an update or a delete of a present one.
THEOREM Refinement == Spec => ImplementsMap
<1>1. Init => Map!Init
  <2> SUFFICES ASSUME Init PROVE Map!Init
    OBVIOUS
  <2>1. kept = <<>>
    <3>1. Inv /\ phase = "closed" /\ acked = <<>>
      BY InvInit DEF Init
    <3>2. CASE file = <<>>
      BY <3>1, <3>2, KeptIs, ReplayEmpty
    <3>3. CASE file = <<[text |-> Header(SCHEMA_VERSION + 1), ended |-> TRUE]>>
      <4>1. file # <<>> /\ file[1].text = Header(SCHEMA_VERSION + 1)
        BY <3>3
      <4>2. Header(SCHEMA_VERSION + 1).schema_version # SCHEMA_VERSION
        BY Kinds, ReferenceAssumption
      <4>3. ~Readable(file)
        BY <4>1, <4>2 DEF Readable
      <4> QED BY <3>1, <4>3, KeptIs
    <3> QED BY <3>2, <3>3 DEF Init
  <2>2. <<>> = [i \in {} |-> CHOOSE entry \in Entries : TRUE]
    BY EmptyMap
  <2> QED BY <2>1, <2>2 DEF Map!Init
<1>2. Inv /\ [Next]_vars => [Map!Next]_kept
  <2> SUFFICES ASSUME Inv, [Next]_vars PROVE [Map!Next]_kept
    OBVIOUS
  <2>1. kept \in Maps
    BY KeptIs
  <2> QED BY <2>1, KeptStep, OneStepIsNext
<1> QED BY <1>1, <1>2, Invariance, PTL DEF Spec, ImplementsMap, Map!Spec

=============================================================================
