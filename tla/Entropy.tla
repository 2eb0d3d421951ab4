------------------------------ MODULE Entropy -------------------------------
(***************************************************************************)
(* One entropy bundle from the requests to the files: the four sources of  *)
(* oracle/src/entropy, their canonical bytes, the manifest, the seed and   *)
(* the archive, as oracle run and bin/entropy_once build it.               *)
(*                                                                         *)
(* Requests are answered in any order.  An answer is data of its endpoint, *)
(* or one of three failures, which the code notices at different places:   *)
(* an HTTP error, a body that is not JSON, and JSON that cannot be         *)
(* canonicalized (a missing field, a bad hash, a bad geometry).  What the  *)
(* code accepts is data: an empty list of earthquakes is, and so is the    *)
(* report of a station that lacks a measurement.                           *)
(*                                                                         *)
(* A measurement is a number of halves of the unit it is stored in, or     *)
(* Null; a string is the sequence of its bytes.                            *)
(***************************************************************************)
EXTENDS ManifestLayout

CONSTANTS
  STATIONS,          \* the weather stations, in the order of the spec
  Data,              \* endpoint -> what it may answer with
  Epoch, Time,       \* the epoch, and readings of the wall clock
  Leftovers,         \* how many files an earlier build may have left
  Wide, Narrow,      \* half the number of values of i32 and of i16
  Null, Waiting, HttpError, Malformed, Unusable, NoFile, OldFile, TornFile,
  NoBundle

Station == ToSet(STATIONS)
Endpoint == {"btc", "drand", "usgs"} \cup Station
Failures == {HttpError, Malformed, Unusable}
Answers(e) == Data[e] \cup Failures

ASSUME EntropyConstants ==
  /\ DOMAIN Data = Endpoint
  /\ \A e \in Endpoint : Waiting \notin Answers(e)
  /\ Wide \in Nat \ {0, 1} /\ Narrow \in Nat \ {0, 1}
  /\ Leftovers \subseteq 0..Len(SourceNames) + 1

Measurement == Int \cup {Null}
Text == Seq(Nat)
Event == [id : Text, mag : Measurement]

\* What the endpoints measure; no two events of a feed have the same id.
ASSUME DataIsTyped ==
  /\ Null \notin Int
  /\ Data["drand"] \subseteq [round : Nat, randomness : Nat, signature : Text]
  /\ \A feed \in Data["usgs"] :
       /\ feed \in Seq(Event)
       /\ \A i, j \in DOMAIN feed : feed[i].id = feed[j].id => i = j
  /\ \A s \in Station :
       Data[s] \subseteq [temperature : Measurement, humidity : Measurement]

VARIABLES
  pc,
  tool,       \* which program builds the bundle
  reply,      \* the answers to the requests of gather_all
  bundle,     \* EntropyBundle: raw and canonical samples, time, hash
  record,     \* manifest.json, before it is written
  disk,       \* the files of archive/<epoch>/
  written     \* how many of them this build has written

evars == <<pc, tool, reply, bundle, record, disk, written>>

Files == SourceNames \o <<"manifest">>

-----------------------------------------------------------------------------
(* Canonical bytes.                                                         *)

MinInt(half) == -half
MaxInt(half) == half - 1

\* f64::round: to nearest, halves away from zero.
Rounded(v) == IF v >= 0 THEN (v + 1) \div 2 ELSE -((1 - v) \div 2)

\* The smallest integer is kept for a missing value.
float_to_fixed_no_reserve(v, half) ==
  CASE v = Null -> MinInt(half)
    [] v # Null /\ Rounded(v) >= MaxInt(half) -> MaxInt(half)
    [] v # Null /\ Rounded(v) <= MinInt(half) -> MinInt(half)
    [] OTHER -> Rounded(v)
float_to_fixed(v, half) ==
  CASE v = Null -> MinInt(half)
    [] v # Null /\ Rounded(v) >= MaxInt(half) -> MaxInt(half)
    [] v # Null /\ Rounded(v) <= MinInt(half) + 1 -> MinInt(half) + 1
    [] OTHER -> Rounded(v)

write_lp_str_bare(s) == s
write_lp_str(s) == <<Len(s)>> \o s

\* The other numbers and time stamps of an answer are stored in the same
\* ways and left out.
CanonicalBtc(tip) == <<"btc", tip>>

CanonicalDrand(round) ==
  <<"drand", round.round, round.randomness>> \o write_lp_str(round.signature)

\* Lexicographic order of event ids.
IdIsLess(a, b) ==
  \/ IsStrictPrefix(a.id, b.id)
  \/ \E i \in DOMAIN a.id \cap DOMAIN b.id :
       a.id[i] < b.id[i] /\ \A j \in 1..i - 1 : a.id[j] = b.id[j]

IdOrder(S) == {p \in S \X S : IdIsLess(p[1], p[2])}

EventBytes(ev) ==
  write_lp_str(ev.id) \o <<float_to_fixed(ev.mag, Wide)>>

CanonicalUsgs_as_served(feed) ==
  <<"usgs", Len(feed)>> \o FlattenSeq([i \in DOMAIN feed |-> EventBytes(feed[i])])
CanonicalUsgs(feed) ==
  LET events == Sorted(feed, IdOrder(ToSet(feed)))
  IN  <<"usgs", Len(events)>>
        \o FlattenSeq([i \in DOMAIN events |-> EventBytes(events[i])])

StationBytes(lines, s) ==
  <<s, float_to_fixed(lines[s].temperature, Wide),
       float_to_fixed(lines[s].humidity, Narrow)>>

CanonicalNws(lines) ==
  <<"nws", Len(STATIONS)>>
    \o FlattenSeq([i \in DOMAIN STATIONS |-> StationBytes(lines, STATIONS[i])])

Canonical(raw) ==
  CASE raw.source = "btc"   -> CanonicalBtc(raw.payload)
    [] raw.source = "drand" -> CanonicalDrand(raw.payload)
    [] raw.source = "nws"   -> CanonicalNws(raw.payload)
    [] raw.source = "usgs"  -> CanonicalUsgs(raw.payload)

\* What canonicalize returns Err for.
Rejects_btc_unchecked(raw) ==
  CASE raw.source = "nws" -> \E s \in Station : raw.payload[s] \in Failures
    [] raw.source = "btc" -> FALSE
    [] OTHER -> raw.payload \in Failures
Rejects(raw) ==
  IF raw.source = "nws" THEN \E s \in Station : raw.payload[s] \in Failures
  ELSE raw.payload \in Failures

-----------------------------------------------------------------------------
(* Manifest and seed.                                                       *)

CanonicalSamples(raws) ==
  [i \in DOMAIN raws |-> [source |-> raws[i].source,
                          bytes |-> Canonical(raws[i])]]

\* manifest::build, serialize and hash.
Records(samples) ==
  [i \in DOMAIN samples |-> [name |-> samples[i].source,
                             canonical_hash |-> Sha256(samples[i].bytes)]]
manifest_hash(fetched_at, samples) ==
  Sha256(Layout(Epoch, fetched_at, ByName(Records(samples))))

derive_seed(hash) == Sha256(SeedInput(hash))

Record(fetched_at, hash, sources) ==
  [epoch |-> Epoch, manifest_fetched_at_ms |-> fetched_at,
   manifest_hash |-> hash, seed |-> derive_seed(hash), sources |-> sources]

-----------------------------------------------------------------------------
(* gather_all.                                                              *)

Answer(e) ==
  /\ pc = "fetch"
  /\ reply[e] = Waiting
  /\ \E a \in Answers(e) : reply' = [reply EXCEPT ![e] = a]
  /\ UNCHANGED <<pc, tool, bundle, record, disk, written>>

\* A fetch looks at the status, and all but that of usgs at the JSON; that of
\* nws does so once every station has answered.
FetchRejects(e) ==
  \/ reply[e] = HttpError
  \/ reply[e] = Malformed /\ e \in {"btc", "drand"}
  \/ /\ reply[e] = Malformed
     /\ e \in Station
     /\ \A s \in Station : reply[s] # Waiting

\* try_join_all: the first error ends it.
FetchFails ==
  /\ pc = "fetch"
  /\ \E e \in Endpoint : FetchRejects(e)
  /\ pc' = "failed"
  /\ UNCHANGED <<tool, reply, bundle, record, disk, written>>

Payload(source) ==
  IF source = "nws" THEN [s \in Station |-> reply[s]] ELSE reply[source]

\* The samples are in the order of default_sources.
RawSamples ==
  [i \in DOMAIN SourceNames |-> [source |-> SourceNames[i],
                                 payload |-> Payload(SourceNames[i])]]

Gathered ==
  /\ pc = "fetch"
  /\ \A e \in Endpoint : reply[e] # Waiting /\ ~FetchRejects(e)
  /\ pc' = "finalize"
  /\ UNCHANGED <<tool, reply, bundle, record, disk, written>>

-----------------------------------------------------------------------------
(* finalize, and what each program puts into manifest.json.                 *)

CanonicalizeFails ==
  /\ pc = "finalize"
  /\ \E i \in DOMAIN RawSamples : Rejects(RawSamples[i])
  /\ pc' = "failed"
  /\ UNCHANGED <<tool, reply, bundle, record, disk, written>>

\* archive() lists the sources in the order of the samples.
FinalizeBundle ==
  /\ pc = "finalize"
  /\ \A i \in DOMAIN RawSamples : ~Rejects(RawSamples[i])
  /\ \E t \in Time :
       LET samples == CanonicalSamples(RawSamples)
           hash == manifest_hash(t, samples)
       IN  /\ bundle' = [raw_samples |-> RawSamples, fetched_at_ms |-> t,
                         canonical_samples |-> samples, manifest_hash |-> hash]
           /\ record' = IF tool = "run" THEN Record(t, hash, Records(samples))
                        ELSE record
  /\ pc' = IF tool = "run" THEN "write" ELSE "rebuild"
  /\ UNCHANGED <<tool, reply, disk, written>>

\* entropy_once serializes a manifest of its own, at a time of its own.
RecordedTime_of_bundle(t) == bundle.fetched_at_ms
RecordedTime(t) == t

build_manifest_bytes(t, sources) == Layout(Epoch, t, sources)

Rebuild ==
  /\ pc = "rebuild"
  /\ \E t \in Time :
       LET sources == ByName(Records(bundle.canonical_samples))
       IN  record' = Record(RecordedTime(t),
                            Sha256(build_manifest_bytes(t, sources)), sources)
  /\ pc' = "write"
  /\ UNCHANGED <<tool, reply, bundle, disk, written>>

-----------------------------------------------------------------------------
(* The files, one after another; manifest.json is the last.                 *)

Content(file) ==
  IF file = "manifest" THEN record ELSE Payload(file)

WriteFile ==
  /\ pc = "write"
  /\ written < Len(Files)
  /\ disk' = [disk EXCEPT ![Files[written + 1]] = Content(Files[written + 1])]
  /\ written' = written + 1
  /\ pc' = IF written' = Len(Files) THEN "done" ELSE "write"
  /\ UNCHANGED <<tool, reply, bundle, record>>

\* The disk is full, or the process dies: the file being written may be torn.
WriteFails ==
  /\ pc = "write"
  /\ pc' = "failed"
  /\ \/ UNCHANGED disk
     \/ disk' = [disk EXCEPT ![Files[written + 1]] = TornFile]
  /\ UNCHANGED <<tool, reply, bundle, record, written>>

-----------------------------------------------------------------------------
(* The audit page derives hash and seed from manifest.json alone.           *)

buildManifestBytes(file) ==
  Layout(file.epoch, file.manifest_fetched_at_ms, ByName(file.sources))

buildSeedInputBytes(hash) == SeedInput(hash)

-----------------------------------------------------------------------------
EntropyInit ==
  /\ pc = "fetch"
  /\ tool \in {"run", "entropy_once"}
  /\ reply = [e \in Endpoint |-> Waiting]
  /\ bundle = NoBundle
  /\ record = NoBundle
  /\ \E n \in Leftovers :
       disk = [f \in ToSet(Files) |->
                 IF \E i \in 1..n : Files[i] = f THEN OldFile ELSE NoFile]
  /\ written = 0

EntropyNext ==
  \/ \E e \in Endpoint : Answer(e)
  \/ FetchFails \/ Gathered \/ CanonicalizeFails
  \/ FinalizeBundle \/ Rebuild \/ WriteFile \/ WriteFails

EntropySpec == EntropyInit /\ [][EntropyNext]_evars

-----------------------------------------------------------------------------
(* Properties.                                                              *)

\* A file of the archive changes only when every endpoint, down to the last
\* weather station, has answered with what the code takes for data; one failure
\* anywhere, at whichever of its three places the code notices it, leaves the
\* directory as it was.  This is less than docs/entropy.md asks for: an empty
\* feed (:39-41), a missing reading (:61-62) and a round whose signature does not
\* verify (:94) are failures there and data to the code.
OnlyAnsweredBundlesAreArchived ==
  [][disk' # disk => \A e \in Endpoint : reply[e] \in Data[e]]_evars

\* Whatever an earlier, perhaps interrupted, build left behind: once a build
\* has succeeded, an auditor who canonicalizes the raw files in any order gets
\* the recorded hash and seed, and the audit page gets them from the record
\* alone.  A bundle that goes on the chain goes there with the recorded hash.
ArchiveRederives ==
  pc = "done" =>
    LET file == disk["manifest"]
        raws == [i \in DOMAIN SourceNames |->
                   [source |-> SourceNames[i],
                    payload |-> disk[SourceNames[i]]]]
        samples == CanonicalSamples(raws)
    IN  /\ file.manifest_hash =
             manifest_hash(file.manifest_fetched_at_ms, samples)
        /\ file.manifest_hash = Sha256(buildManifestBytes(file))
        /\ file.seed = Sha256(buildSeedInputBytes(file.manifest_hash))
        /\ tool = "run" => file.manifest_hash = bundle.manifest_hash

Built == pc \in {"rebuild", "write"} /\ written = 0

Reordered(raw) ==
  IF raw.source = "usgs"
  THEN {[raw EXCEPT !.payload = feed] : feed \in SetToSeqs(ToSet(raw.payload))}
  ELSE {raw}

\* The hash is a function of what was measured: neither the order of the
\* samples nor the order in which a server lists its events has a part in it.
OrderIsImmaterial ==
  Built =>
    \A p \in SetToSeqs(1..4) :
      \A usgs \in Reordered(bundle.raw_samples[4]) :
        LET raws == [bundle.raw_samples EXCEPT ![4] = usgs]
        IN  manifest_hash(bundle.fetched_at_ms,
                          CanonicalSamples([i \in 1..4 |-> raws[p[i]]]))
              = bundle.manifest_hash

\* Two answers have the same canonical bytes only if they say the same, up to
\* the order of events and to the precision of the stored numbers.
EventsSay(feed) ==
  {<<ev.id, float_to_fixed(ev.mag, Wide)>> : ev \in ToSet(feed)}

BytesBindTheData ==
  Built =>
    /\ \A feed \in Data["usgs"] :
         CanonicalUsgs(feed) = CanonicalUsgs(reply["usgs"])
           => EventsSay(feed) = EventsSay(reply["usgs"])
    /\ \A round \in Data["drand"] :
         CanonicalDrand(round) = CanonicalDrand(reply["drand"])
           => round = reply["drand"]

\* A stored number is the smallest integer exactly when the measurement is
\* missing; else it is within half a unit of the measurement, or the nearest
\* number there is.
Stored(v, half) ==
  LET f == float_to_fixed(v, half)
  IN  IF v = Null THEN f = MinInt(half)
      ELSE /\ f \in MinInt(half) + 1..MaxInt(half)
           /\ \/ 2 * f - v \in -1..1
              \/ v > 2 * f /\ f = MaxInt(half)
              \/ v < 2 * f /\ f = MinInt(half) + 1

MeasurementsAreStored ==
  Built =>
    \A s \in Station :
      /\ Stored(reply[s].temperature, Wide)
      /\ Stored(reply[s].humidity, Narrow)

=============================================================================
