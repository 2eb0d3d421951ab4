--------------------------- MODULE ManifestLayout ---------------------------
(***************************************************************************)
(* The byte layout of the manifest (docs/entropy.md, "Manifest").  It is   *)
(* written three times in the repository: by the oracle (manifest.rs), by  *)
(* entropy_once and, in JavaScript, by the audit page.  A byte string is   *)
(* the sequence of its fields, a field of fixed width being one element.   *)
(* SHA-256 is a free constructor: equal hashes have equal inputs.          *)
(***************************************************************************)
EXTENDS Integers, SequencesExt

Sha256(bytes) == <<"sha256", bytes>>

\* The names of the sources in ascending order.
SourceNames == <<"btc", "drand", "nws", "usgs">>
Source == ToSet(SourceNames)

\* A stable sort by a set of pairs: an element comes after those that are less
\* and, of its equals, after those that already were to its left.
Place(s, less, i) ==
  Cardinality({j \in DOMAIN s : \/ <<s[j], s[i]>> \in less
                                \/ j <= i /\ <<s[i], s[j]>> \notin less})
Sorted(s, less) ==
  [k \in DOMAIN s |-> s[CHOOSE i \in DOMAIN s : Place(s, less, i) = k]]

\* Records [name, canonical_hash], ascending by name.
Rank == [name \in Source |-> CHOOSE k \in DOMAIN SourceNames : SourceNames[k] = name]
NameOrder(S) == {p \in S \X S : Rank[p[1].name] < Rank[p[2].name]}
ByName(records) == Sorted(records, NameOrder(ToSet(records)))

\* The domain tag is the same in every hash and left out; what follows it
\* tells a manifest from a seed input and from a canonical record.
Layout(epoch, fetched_at, records) ==
  <<"manifest", epoch, fetched_at, Len(records)>>
    \o FlattenSeq([i \in DOMAIN records |->
                     <<records[i].name, records[i].canonical_hash>>])

SeedInput(manifest_hash) == <<"seed", manifest_hash>>

=============================================================================
