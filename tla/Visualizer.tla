----------------------------- MODULE Visualizer -----------------------------
(***************************************************************************)
(* The audit page (web/main.js with lib/archive.js and                     *)
(* lib/canonicalize.js): one browser tab, its user, and the responses.     *)
(*                                                                         *)
(* The code between two awaits is one action.  Responses and digests are   *)
(* delivered in any order, a user acts between any two of them.  Each      *)
(* section of the page is represented by the epoch whose data it shows.    *)
(* The files served may be damaged in ways the code does not catch: what   *)
(* throws half way through leaves the rest of the page, or of the text     *)
(* next to a button, as it was.                                            *)
(* The layouts behind the digests are those of module ManifestLayout; here *)
(* a digest is a function.                                                 *)
(***************************************************************************)
EXTENDS Integers, SequencesExt

CONSTANTS
  Epochs,          \* listEpochs, in its order
  Stages,          \* the ids of STAGE_DEFS
  Served,          \* epoch -> hash and seed in the manifest.json served
  ManifestDigest,  \* epoch -> SHA-256 of the manifest rebuilt from that file
  SeedDigest,      \* manifest hash -> SHA-256 of the seed input
  AlphaDigest,     \* seed -> SHA-256 of the seed, mod r
  AlphaEpoch,      \* alpha_epoch of snark_meta.json
  PublishedAlpha,  \* alpha_hash of public_inputs.json
  Damage,          \* epoch -> what is wrong with the files served
  Secure,          \* is the origin secure, so that crypto.subtle exists?
  Faults,          \* a subset of {"fetch"}: responses may be missing
  MaxLoads,        \* bound on loads in flight
  Nothing          \* nothing is shown

Epoch == ToSet(Epochs)
Buttons == {"seed", "manifest", "alpha"}

\* The sections drawn from a loaded epoch, but for the panel of the pipeline.
Sections == {"meta", "cards", "hash", "verify"}

\* Files that are JSON and yet not what the page expects.
Damages ==
  {"manifest",        \* manifest.json is null
   "stats",           \* btc.json or drand.json lacks a field of its headline
   "sources",         \* the manifest has no list of sources,
   "canonical_hash",  \* or no canonical hash of one of them,
   "manifest_hash",   \* or no manifest_hash,
   "odd hash",        \* or one of an odd length,
   "seed",            \* or no seed,
   "odd seed"}        \* or one of an odd length

ASSUME VisualizerConstants ==
  /\ Epochs \in Seq(Epoch) \ {<<>>}
  /\ DOMAIN Served = Epoch /\ DOMAIN ManifestDigest = Epoch
  /\ \A e \in Epoch : /\ Served[e].manifest_hash \in DOMAIN SeedDigest
                      /\ Served[e].seed \in DOMAIN AlphaDigest
  /\ "sources" \in Stages
  /\ AlphaEpoch \in Epoch
  /\ Nothing \notin Epoch
  /\ Damage \in [Epoch -> SUBSET Damages]
  /\ Secure \in BOOLEAN
  /\ Faults \subseteq {"fetch"}
  /\ MaxLoads \in Nat \ {0}

VARIABLES
  boot,           \* where main() is
  selected,       \* the value of the epoch selector
  loads,          \* calls of loadEpoch whose responses are awaited
  current,        \* state.current
  selectedStage,
  view,           \* section -> the epoch it shows
  panel,          \* what the panel of the pipeline explains
  result,         \* button -> what is written next to it
  checks          \* verifications that await a digest or a response

page == <<view, panel>>
vvars == <<boot, selected, loads, current, selectedStage, page, result, checks>>

Load(e, initial) == [epoch |-> e, initial |-> initial]
Text(text) == [text |-> text, epoch |-> Nothing]
Verdict(ok, e) == [text |-> IF ok THEN "match" ELSE "mismatch", epoch |-> e]

-----------------------------------------------------------------------------
(* main().                                                                  *)

\* The body is replaced by the error.
Die ==
  /\ boot' = "dead"
  /\ UNCHANGED <<selected, loads, current, selectedStage, page, result, checks>>

LoadSnarkInputs ==
  /\ boot = "snark"
  /\ boot' = "meta"
  /\ UNCHANGED <<selected, loads, current, selectedStage, page, result, checks>>

\* Or public_inputs.json lacks a field that renderSnark shows: no epoch has
\* been drawn by then either.
SnarkInputsMissing ==
  /\ "fetch" \in Faults
  /\ boot = "snark"
  /\ Die

\* The sidecars may be missing: without snark_meta.json there is no alpha
\* button.  Then the page is drawn and the newest epoch requested.
StartPage(alpha) ==
  /\ boot = "meta"
  /\ boot' = "ready"
  /\ selected' = Epochs[Len(Epochs)]
  /\ loads' = <<Load(selected', TRUE)>>
  /\ result' = [result EXCEPT !["alpha"] = Text(alpha)]
  /\ UNCHANGED <<current, selectedStage, page, checks>>

SidecarsLoaded == StartPage("empty")
SidecarsMissing == "fetch" \in Faults /\ StartPage("no button")

-----------------------------------------------------------------------------
(* selectEpoch.                                                             *)

Select(e) ==
  /\ boot = "ready"
  /\ e # selected
  /\ Len(loads) < MaxLoads
  /\ selected' = e
  /\ loads' = Append(loads, Load(e, FALSE))
  /\ UNCHANGED <<boot, current, selectedStage, page, result, checks>>

\* The proof on the page is the same for every epoch.
Panel(stage, e) ==
  [stage |-> stage, of |-> IF stage = "vrf" THEN AlphaEpoch ELSE e]

\* What the panel of a stage cannot be built without.
Needs(stage) ==
  CASE stage \in {"sources", "canonical"} -> {"manifest", "sources"}
    [] stage = "manifest" -> {"manifest", "sources", "manifest_hash"}
    [] stage = "seed" -> {"manifest", "manifest_hash", "seed"}
    [] OTHER -> {}

\* renderPipelinePanel empties the panel and draws from state.current, nothing
\* before there is one.
PanelNow_unguarded(stage, e) ==
  IF e # Nothing /\ Needs(stage) \cap Damage[e] # {} THEN Nothing
  ELSE Panel(stage, e)
PanelNow(stage, e) ==
  IF e = Nothing \/ Needs(stage) \cap Damage[e] # {} THEN Nothing
  ELSE Panel(stage, e)

\* selectEpoch draws one part after another.  What stops it before it has drawn
\* a part; a card that is cut short is drawn.
Obstacles(part, stage) ==
  LET afterPanel == {"manifest", "stats", "manifest_hash"} \cup Needs(stage)
  IN  CASE part \in {"meta", "cards"} -> {"manifest"}
        [] part = "panel" -> {"manifest", "stats"}
        [] part = "hash" -> afterPanel
        [] part = "verify" -> afterPanel \cup {"seed"}

Reached(part, e) == Obstacles(part, selectedStage) \cap Damage[e] = {}

Rendered(e) ==
  [s \in Sections |-> IF Reached(s, e) THEN e ELSE view[s]]

RenderedPanel_too_early(e) ==
  IF Reached("panel", e) THEN PanelNow(selectedStage, current) ELSE panel
RenderedPanel(e) ==
  IF Reached("panel", e) THEN PanelNow(selectedStage, e) ELSE panel

\* The verify card comes last and erases the verdicts next to its buttons.
Erased(e) ==
  IF Reached("verify", e)
  THEN [result EXCEPT !["seed"] = Text("empty"), !["manifest"] = Text("empty")]
  ELSE result

\* The files have arrived: state.current is set and the page drawn.  If that
\* throws, the first load ends main() and any other just stops there.
Loaded(i) ==
  LET e == loads[i].epoch
  IN  /\ boot = "ready"
      /\ IF loads[i].initial /\ ~Reached("verify", e) THEN Die
         ELSE /\ loads' = RemoveAt(loads, i)
              /\ current' = e
              /\ view' = Rendered(e)
              /\ panel' = RenderedPanel(e)
              /\ result' = Erased(e)
              /\ UNCHANGED <<boot, selected, selectedStage, checks>>

\* One of the five responses is missing or not JSON.  A selection is then
\* dropped without a word; the page dies if it was the first one.
LoadFails(i) ==
  /\ "fetch" \in Faults
  /\ boot = "ready"
  /\ IF loads[i].initial THEN Die
     ELSE /\ loads' = RemoveAt(loads, i)
          /\ UNCHANGED <<boot, selected, current, selectedStage, page, result,
                         checks>>

\* A click on a stage of the pipeline.
ClickStage(stage) ==
  /\ boot = "ready"
  /\ selectedStage' = stage
  /\ panel' = PanelNow(stage, current)
  /\ UNCHANGED <<boot, selected, loads, current, view, result, checks>>

-----------------------------------------------------------------------------
(* The verification buttons.                                                *)

\* The handlers keep the epoch they were made for.
EpochOf(button) == IF button = "alpha" THEN AlphaEpoch ELSE view["verify"]

\* What is compared with the digest of the data of epoch e.
Archived_of_current(button, e) ==
  CASE button = "seed" -> Served[current].seed
    [] button = "manifest" -> Served[current].manifest_hash
    [] button = "alpha" -> PublishedAlpha
Archived(button, e) ==
  CASE button = "seed" -> Served[e].seed
    [] button = "manifest" -> Served[e].manifest_hash
    [] button = "alpha" -> PublishedAlpha

\* What the browser computes from the files of epoch e.
Computed(button, e) ==
  [seed |-> SeedDigest[Served[e].manifest_hash], manifest |-> ManifestDigest[e],
   alpha |-> AlphaDigest[Served[e].seed]][button]

Agrees(button, e) == Computed(button, e) = Archived(button, e)

\* Where the handler of a button throws instead of comparing.
Throws(button, e) ==
  \/ ~Secure
  \/ CASE button = "seed" -> "odd hash" \in Damage[e]
       [] button = "manifest" -> {"sources", "canonical_hash"} \cap Damage[e] # {}
       [] button = "alpha" -> {"manifest", "odd seed"} \cap Damage[e] # {}

\* The first two handlers throw before anything is awaited, and do not catch it.
AwaitsVerdict(button, e) == button = "alpha" \/ ~Throws(button, e)

\* The buttons of the verify card are in index.html but do nothing until an
\* epoch has been drawn.
Click(button) ==
  LET e == EpochOf(button)
  IN  /\ boot = "ready"
      /\ e # Nothing
      /\ result[button].text # "no button"
      /\ result' = [result EXCEPT ![button] = Text("computing")]
      /\ checks' = checks \cup
           {c \in {[button |-> button, epoch |-> e]} : AwaitsVerdict(button, e)}
      /\ UNCHANGED <<boot, selected, loads, current, selectedStage, page>>

Concludes(c) ==
  /\ boot = "ready"
  /\ ~Throws(c.button, c.epoch)
  /\ checks' = checks \ {c}
  /\ result' = [result EXCEPT ![c.button] =
                  Verdict(Agrees(c.button, c.epoch), c.epoch)]
  /\ UNCHANGED <<boot, selected, loads, current, selectedStage, page>>

\* The alpha check loads its epoch again; whatever goes wrong is shown.
ShownError_uncaught == result["alpha"]
ShownError == Text("error")

AlphaFails(c) ==
  /\ boot = "ready"
  /\ c.button = "alpha"
  /\ "fetch" \in Faults \/ Throws("alpha", c.epoch)
  /\ checks' = checks \ {c}
  /\ result' = [result EXCEPT !["alpha"] = ShownError]
  /\ UNCHANGED <<boot, selected, loads, current, selectedStage, page>>

-----------------------------------------------------------------------------
VisualizerInit ==
  /\ boot = "snark"
  /\ selected = Nothing
  /\ loads = <<>>
  /\ current = Nothing
  /\ selectedStage = "sources"
  /\ view = [s \in Sections |-> Nothing]
  /\ panel = Nothing
  /\ result = [b \in Buttons |-> Text("empty")]
  /\ checks = {}

Boot ==
  LoadSnarkInputs \/ SnarkInputsMissing \/ SidecarsLoaded \/ SidecarsMissing

Response == \E i \in DOMAIN loads : Loaded(i) \/ LoadFails(i)

Conclusion == \E c \in checks : Concludes(c) \/ AlphaFails(c)

User ==
  \/ \E e \in Epoch : Select(e)
  \/ \E s \in Stages : ClickStage(s)
  \/ \E b \in Buttons : Click(b)

VisualizerNext == Boot \/ Response \/ Conclusion \/ User

VisualizerSpec == VisualizerInit /\ [][VisualizerNext]_vvars

\* The browser settles every request and every digest; each button has its own
\* chain of callbacks.  The user owes nothing.
FairVisualizerSpec ==
  /\ VisualizerSpec
  /\ WF_vvars(Boot)
  /\ WF_vvars(Response)
  /\ \A b \in Buttons :
       WF_vvars(\E c \in checks :
                  c.button = b /\ (Concludes(c) \/ AlphaFails(c)))

-----------------------------------------------------------------------------
(* Properties.                                                              *)

Shown == Epoch \cup {Nothing}
Texts == {"empty", "computing", "match", "mismatch", "error", "no button"}

VisualizerTypeOK ==
  /\ boot \in {"snark", "meta", "ready", "dead"}
  /\ selected \in Shown
  /\ loads \in Seq([epoch : Epoch, initial : BOOLEAN])
  /\ Len(loads) <= MaxLoads
  /\ current \in Shown
  /\ selectedStage \in Stages
  /\ view \in [Sections -> Shown]
  /\ panel \in {Nothing} \cup [stage : Stages, of : Epoch]
  /\ result \in [Buttons -> [text : Texts, epoch : Shown]]
  /\ checks \subseteq [button : Buttons, epoch : Epoch]

\* The page shows the bytes of the epoch that was drawn last, however
\* selections, clicks and responses are interleaved: all of it if the files of
\* that epoch are intact.  If they are not, another epoch is left standing only
\* in parts that drawing this one does not reach at some stage; the panel
\* explains this one, or is emptied, wherever it is reached.
PageShowsOneEpoch ==
  /\ current = Nothing => panel = Nothing /\ \A s \in Sections : view[s] = Nothing
  /\ current # Nothing =>
       /\ \A s \in Sections :
            \/ view[s] = current
            \/ \E stage \in Stages : Obstacles(s, stage) \cap Damage[current] # {}
       /\ \/ panel = PanelNow(selectedStage, current)
          \/ Obstacles("panel", selectedStage) \cap Damage[current] # {}

\* The epochs whose archive passes a check.
Consistent ==
  [seed |-> {e \in Epoch : Served[e].seed = SeedDigest[Served[e].manifest_hash]},
   manifest |-> {e \in Epoch : Served[e].manifest_hash = ManifestDigest[e]},
   alpha |-> {e \in Epoch : PublishedAlpha = AlphaDigest[Served[e].seed]}]

\* A verdict is right about the archive of the epoch the button was pressed
\* for, even if other epochs were drawn while it was computed.
VerdictsAreTrue ==
  \A b \in Buttons :
    result[b].epoch # Nothing =>
      (result[b].text = "match") <=> result[b].epoch \in Consistent[b]

\* "computing..." is replaced by a verdict or an error, or erased, however
\* often the user presses the button, unless the page dies or the handler of a
\* button of the verify card throws over the files of the epoch drawn there.
ComputingEnds ==
  \A b \in Buttons :
    []<>(\/ boot = "dead"
         \/ result[b].text # "computing"
         \/ b # "alpha" /\ Throws(b, view["verify"]))

\* When nothing is being fetched the page shows the selected epoch.
ShowsSelected ==
  boot = "ready" /\ loads = <<>> => current = selected

=============================================================================
