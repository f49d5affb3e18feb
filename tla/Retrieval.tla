------------------------------ MODULE Retrieval ------------------------------
(***************************************************************************)
(* The retrieval pipeline of sc-memory (crates/sc-memory/src): a text is   *)
(* cut into chunks (rag.rs), chunks are embedded (fake_embedding.rs), the  *)
(* reference store ranks its entries by similarity (reference.rs,          *)
(* types.rs), and an answer cites the best of them (rag.rs).               *)
(*                                                                         *)
(* Vectors have integer components, so that cosines are compared exactly;  *)
(* a vector with a component that is not a number is NaN.                  *)
(***************************************************************************)
EXTENDS Integers, Sequences, SequencesExt

LeastOf(a, b) == IF a < b THEN a ELSE b

-----------------------------------------------------------------------------
(* Chunks. *)

Chunk(words, chunk_size, start) ==
  SubSeq(words, start + 1, LeastOf(start + chunk_size, Len(words)))

\* The loop ends with the chunk that reaches the last word.
LastChunkLate(words, chunk_size, step, start) == start + step >= Len(words)

LastChunk(words, chunk_size, step, start) == start + chunk_size >= Len(words)

chunk_text(words, chunk_size, overlap) ==
  LET step == chunk_size - LeastOf(overlap, chunk_size - 1)
      from[start \in 0..Len(words)] ==
        IF LastChunk(words, chunk_size, step, start) THEN <<Chunk(words, chunk_size, start)>>
        ELSE <<Chunk(words, chunk_size, start)>> \o from[start + step]
  IN  IF words = <<>> \/ chunk_size = 0 THEN <<>> ELSE from[0]

\* What chunks of a text are: no word is lost or moved between them, each brings a
\* word that the ones before did not, none is longer than asked, and each begins
\* with the words the one before ends with, as many as asked unless that were all.
Covers(chunks, words, chunk_size, overlap) ==
  LET shared  == LeastOf(overlap, chunk_size - 1)
      news(i) == IF i = 1 THEN chunks[i] ELSE SubSeq(chunks[i], shared + 1, Len(chunks[i]))
  IN  /\ chunks = <<>> <=> words = <<>> \/ chunk_size = 0
      /\ FlattenSeq([i \in DOMAIN chunks |-> news(i)]) = IF chunk_size = 0 THEN <<>> ELSE words
      /\ \A i \in DOMAIN chunks : Len(chunks[i]) <= chunk_size /\ news(i) # <<>>
      /\ \A i \in 2..Len(chunks) :
           SubSeq(chunks[i], 1, shared) = SubSeq(chunks[i - 1], chunk_size - shared + 1, chunk_size)

-----------------------------------------------------------------------------
(* Embedding by hashing.  SHA-256 is a constructor, and its digest gives   *)
(* WordsPerDigest components.                                              *)

WordsPerDigest == 8

sha256(text, counter) == [i \in 1..WordsPerDigest |-> <<text, counter, i>>]

hash_embed(text, dim) ==
  LET blocks[counter \in 0..dim] ==
        LET out == IF counter = 0 THEN <<>> ELSE blocks[counter - 1]
        IN  IF Len(out) >= dim THEN out
            ELSE out \o SubSeq(sha256(text, counter), 1, LeastOf(dim - Len(out), WordsPerDigest))
  IN  blocks[dim]

-----------------------------------------------------------------------------
(* Search.  The extra metadata of an entry are the set of its pairs.       *)

MemoryMetadata(workspace, tags, source, extra) ==
  [workspace |-> workspace, tags |-> tags, source |-> source, extra |-> extra]

MemoryEntry(id, embedding, metadata) == [id |-> id, embedding |-> embedding, metadata |-> metadata]

MemoryQuery(workspace, embedding, limit) ==
  [workspace |-> workspace, embedding |-> embedding, limit |-> limit, tags |-> {}, metadata |-> {}]

with_tags(query, tags) == [query EXCEPT !.tags = tags]

with_metadata(query, pair) == [query EXCEPT !.metadata = @ \cup {pair}]

IsNaN(vector) == vector.nan

Dot(a, b) == FoldFunction(LAMBDA x, y : x + y, 0, [i \in DOMAIN a.at |-> a.at[i] * b.at[i]])

Signed(square, n) == IF n < 0 THEN -square ELSE square

\* The cosine of a and q, squared with its sign, as a fraction without the
\* length of q; 0 when a vector has no length.
cosine_similarity(a, q) ==
  IF Dot(a, a) = 0 \/ Dot(q, q) = 0 THEN <<0, 1>>
  ELSE <<Signed(Dot(a, q) * Dot(a, q), Dot(a, q)), Dot(a, a)>>

Scores(a, b, q) ==
  LET x == cosine_similarity(a.embedding, q)
      y == cosine_similarity(b.embedding, q)
  IN  [higher |-> x[1] * y[2] > y[1] * x[2]]

Higher(a, b, q) == ~IsNaN(a.embedding) /\ ~IsNaN(b.embedding) /\ ~IsNaN(q) /\ Scores(a, b, q).higher

MatchesTags(entry, query) == query.tags = {} \/ query.tags \cap entry.metadata.tags # {}

MatchesMetadata(entry, query) == query.metadata \subseteq entry.metadata.extra

MemoryCandidates(entries, query) ==
  {entry \in entries :
     /\ entry.metadata.workspace = query.workspace
     /\ MatchesTags(entry, query) /\ MatchesMetadata(entry, query)
     /\ Len(entry.embedding.at) = Len(query.embedding.at)}

\* A comparison with a score that is not a number is no order, and the sort may
\* then leave the results in any, or panic; so may the order of a hash map leave
\* those it ties.
Sorted(candidates, q) ==
  {ranking \in SetToSeqs(candidates) :
     \/ \E entry \in candidates : IsNaN(entry.embedding) \/ IsNaN(q)
     \/ \A i, j \in DOMAIN ranking : i < j => ~Higher(ranking[j], ranking[i], q)}

Truncate(ranking, limit) == SubSeq(ranking, 1, LeastOf(limit, Len(ranking)))

\* Cut off before it is sorted.
search_TruncatedFirst(entries, query) ==
  {ranking \in UNION {Sorted(kept, query.embedding) : kept \in SUBSET MemoryCandidates(entries, query)} :
     Len(ranking) = LeastOf(query.limit, Cardinality(MemoryCandidates(entries, query)))}

\* Every result a search may have.
search(entries, query) ==
  {Truncate(ranking, query.limit) : ranking \in Sorted(MemoryCandidates(entries, query), query.embedding)}

\* The source of the best result, or its id.
fake_answer(results) ==
  IF results = <<>> THEN {}
  ELSE LET source == Head(results).metadata.source IN IF source = {} THEN {Head(results).id} ELSE source
=============================================================================
