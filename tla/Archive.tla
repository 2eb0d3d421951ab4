------------------------------ MODULE Archive -------------------------------
(***************************************************************************)
(* The directory oracle/archive/<epoch>/ that entropy/seed.rs archive      *)
(* writes before a reveal is sent: the raw responses, one file per source, *)
(* then manifest.json.  Every bundle of an epoch overwrites the files of   *)
(* the one before it.  A file set is named by the manifest hash it         *)
(* explains; a set that is only partly overwritten explains none.          *)
(***************************************************************************)
EXTENDS Cluster

CONSTANTS
  NoManifest,    \* nothing was archived
  Torn           \* raw files of two bundles

ASSUME ArchiveConstants ==
  NoManifest \notin Manifest /\ Torn \notin Manifest

VARIABLE archive   \* whose raw files, and whose manifest.json, are there

ArchiveTypeOK ==
  archive \in [raw : Manifest \cup {NoManifest, Torn},
               manifest : Manifest \cup {NoManifest}]

ArchiveInit == archive = [raw |-> NoManifest, manifest |-> NoManifest]

\* The raw files are overwritten one by one ...
TearRaw == archive' = [archive EXCEPT !.raw = Torn]
WriteRaw(m) == archive' = [archive EXCEPT !.raw = m]

\* ... and manifest.json after all of them.
WriteManifest_skipped(m) == archive' = archive
WriteManifest(m) == archive' = [archive EXCEPT !.manifest = m]

\* A complete archive that explains the manifest hash on the chain.
Explains == archive.raw = account.entropy_manifest_hash
            /\ archive.manifest = account.entropy_manifest_hash

\* The bundles a fresh one differs from: no two have the same build time.
Archived == {archive.raw, archive.manifest}

=============================================================================
