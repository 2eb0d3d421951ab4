-------------------------- MODULE VisualizerProofs --------------------------
(***************************************************************************)
(* The safety of the audit page for any list of epochs, any archives       *)
(* behind them, any stages and any number of loads in flight.              *)
(***************************************************************************)
EXTENDS Visualizer, SequenceTheorems, TLAPS

USE VisualizerConstants DEF Buttons, page

Loads == [epoch : Epoch, initial : BOOLEAN]
Checks == [button : Buttons, epoch : Epoch]

\* Removing an element shortens a sequence and keeps its type.
LEMMA RemoveAtType ==
  ASSUME NEW S, NEW s \in Seq(S), NEW i \in DOMAIN s
  PROVE  RemoveAt(s, i) \in Seq(S) /\ Len(RemoveAt(s, i)) = Len(s) - 1
<1> DEFINE front == SubSeq(s, 1, i - 1)
           rest == SubSeq(s, i + 1, Len(s))
<1>1. i \in 1..Len(s) /\ Len(s) \in Nat
  OBVIOUS
<1>2. front \in Seq(S) /\ Len(front) = i - 1
  BY <1>1, SubSeqProperties
<1>3. rest \in Seq(S) /\ Len(rest) = Len(s) - i
  BY <1>1, SubSeqProperties
<1> HIDE DEF front, rest
<1>4. front \o rest \in Seq(S) /\ Len(front \o rest) = Len(front) + Len(rest)
  BY <1>2, <1>3, ConcatProperties
<1>5. Len(front \o rest) = Len(s) - 1
  BY <1>1, <1>2, <1>3, <1>4
<1> QED
  BY <1>4, <1>5 DEF RemoveAt, front, rest

\* What the panel explains is a stage of that epoch.
LEMMA PanelType ==
  ASSUME NEW stage \in Stages, NEW e \in Epoch
  PROVE  Panel(stage, e) \in [stage : Stages, of : Epoch]
  BY DEF Panel

\* A panel that is drawn explains a stage of the epoch, or is empty.
LEMMA PanelNowType ==
  ASSUME NEW stage \in Stages, NEW e \in Shown
  PROVE  PanelNow(stage, e) \in {Nothing} \cup [stage : Stages, of : Epoch]
<1>1. CASE e = Nothing
  BY <1>1 DEF PanelNow
<1>2. CASE e \in Epoch
  BY <1>2, PanelType DEF PanelNow
<1> QED
  BY <1>1, <1>2 DEF Shown

\* The default epoch of the selector is an epoch.
LEMMA DefaultEpoch == Epochs[Len(Epochs)] \in Epoch
<1>1. Epochs \in Seq(Epoch) /\ Epochs # <<>>
  OBVIOUS
<1>2. Len(Epochs) \in 1..Len(Epochs)
  BY <1>1
<1> QED
  BY <1>1, <1>2

-----------------------------------------------------------------------------
(* The invariant: the three invariants of the runs need each other's types  *)
(* only.                                                                    *)

PageInv == VisualizerTypeOK /\ PageShowsOneEpoch /\ VerdictsAreTrue

\* The page before main() has run.
LEMMA PageInit == VisualizerInit => PageInv
<1> SUFFICES ASSUME VisualizerInit PROVE PageInv
  OBVIOUS
<1> USE DEF VisualizerInit, Text
<1>1. VisualizerTypeOK
  BY DEF VisualizerTypeOK, Shown, Texts
<1>2. PageShowsOneEpoch
  BY DEF PageShowsOneEpoch
<1>3. VerdictsAreTrue
  BY DEF VerdictsAreTrue
<1> QED
  BY <1>1, <1>2, <1>3 DEF PageInv

\* A step that leaves the page as it is.
LEMMA PageKept ==
  ASSUME PageInv, UNCHANGED <<current, selectedStage, page, result>>
  PROVE  PageShowsOneEpoch' /\ VerdictsAreTrue'
<1>1. PageShowsOneEpoch'
  BY DEF PageInv, PageShowsOneEpoch
<1>2. VerdictsAreTrue'
  BY DEF PageInv, VerdictsAreTrue, Consistent
<1> QED
  BY <1>1, <1>2

\* A step that writes, next to one button, a text about no epoch or a verdict
\* that is true.
LEMMA ResultWritten ==
  ASSUME PageInv, NEW b \in Buttons, NEW r \in [text : Texts, epoch : Shown],
         result' = [result EXCEPT ![b] = r],
         r.epoch # Nothing => ((r.text = "match") <=> r.epoch \in Consistent[b])
  PROVE  result' \in [Buttons -> [text : Texts, epoch : Shown]] /\ VerdictsAreTrue'
<1>1. result \in [Buttons -> [text : Texts, epoch : Shown]]
  BY DEF PageInv, VisualizerTypeOK
<1>2. \A c \in Buttons : result'[c] = IF c = b THEN r ELSE result[c]
  BY <1>1
<1>3. VerdictsAreTrue'
  BY <1>2 DEF PageInv, VerdictsAreTrue, Consistent
<1> QED
  BY <1>1, <1>3

\* Texts of the page, none of them about an epoch.
LEMMA TextType ==
  \A t \in Texts : /\ Text(t) \in [text : Texts, epoch : Shown]
                   /\ Text(t).epoch = Nothing
  BY DEF Text, Shown

-----------------------------------------------------------------------------
(* Steps.                                                                   *)

\* The error page: main() has failed.
LEMMA DieStep == PageInv /\ Die => PageInv'
<1> SUFFICES ASSUME PageInv, Die PROVE PageInv'
  OBVIOUS
<1>1. VisualizerTypeOK'
  BY DEF PageInv, VisualizerTypeOK, Die
<1> QED
  BY <1>1, PageKept DEF Die, PageInv

\* The steps of main().
LEMMA BootStep == PageInv /\ Boot => PageInv'
<1> SUFFICES ASSUME PageInv, Boot PROVE PageInv'
  OBVIOUS
<1>1. CASE LoadSnarkInputs
  <2>1. VisualizerTypeOK'
    BY <1>1 DEF PageInv, VisualizerTypeOK, LoadSnarkInputs
  <2> QED
    BY <1>1, <2>1, PageKept DEF LoadSnarkInputs, PageInv
<1>2. CASE SnarkInputsMissing
  BY <1>2, DieStep DEF SnarkInputsMissing
<1>3. CASE SidecarsLoaded \/ SidecarsMissing
  <2>1. PICK t \in Texts : StartPage(t)
    BY <1>3 DEF SidecarsLoaded, SidecarsMissing, Texts
  <2>2. /\ Text(t) \in [text : Texts, epoch : Shown]
        /\ Text(t).epoch = Nothing
    BY TextType
  <2>3. /\ result' \in [Buttons -> [text : Texts, epoch : Shown]]
        /\ VerdictsAreTrue'
    BY <2>1, <2>2, ResultWritten DEF StartPage
  <2>4. selected' \in Epoch
    BY <2>1, DefaultEpoch DEF StartPage
  <2>5. loads' = <<Load(selected', TRUE)>> /\ Load(selected', TRUE) \in Loads
    BY <2>1, <2>4 DEF StartPage, Load, Loads
  <2>6. loads' \in Seq(Loads) /\ Len(loads') = 1
    <3> DEFINE l == Load(selected', TRUE)
    <3> HIDE DEF l
    <3>1. l \in Loads => <<l>> \in Seq(Loads) /\ Len(<<l>>) = 1
      OBVIOUS
    <3> QED
      BY <2>5, <3>1 DEF l
  <2>7. VisualizerTypeOK'
    <3>1. Len(loads') <= MaxLoads
      BY <2>6
    <3>2. boot' = "ready" /\ UNCHANGED <<current, selectedStage, page, checks>>
      BY <2>1 DEF StartPage
    <3> QED
      BY <2>3, <2>4, <2>6, <3>1, <3>2
         DEF PageInv, VisualizerTypeOK, Loads, Shown
  <2>8. PageShowsOneEpoch'
    BY <2>1 DEF PageInv, PageShowsOneEpoch, StartPage
  <2> QED
    BY <2>3, <2>7, <2>8 DEF PageInv
<1> QED
  BY <1>1, <1>2, <1>3 DEF Boot

\* An epoch is drawn: every part shows it, but for those that are not reached
\* because its files are damaged.
LEMMA LoadedStep ==
  ASSUME PageInv, NEW i \in DOMAIN loads, Loaded(i)
  PROVE  PageInv'
<1> DEFINE e == loads[i].epoch
<1>1. loads \in Seq(Loads) /\ Len(loads) <= MaxLoads /\ Len(loads) \in Nat
  BY DEF PageInv, VisualizerTypeOK, Loads
<1>2. e \in Epoch /\ e # Nothing
  <2>1. loads[i] \in Loads
    BY <1>1
  <2> QED
    BY <2>1 DEF Loads
<1> HIDE DEF e
<1>3. CASE loads[i].initial /\ ~Reached("verify", e)
  BY <1>3, DieStep DEF Loaded, e
<1>4. CASE ~(loads[i].initial /\ ~Reached("verify", e))
  <2>1. /\ loads' = RemoveAt(loads, i)
        /\ current' = e
        /\ view' = Rendered(e)
        /\ panel' = RenderedPanel(e)
        /\ result' = Erased(e)
        /\ UNCHANGED <<boot, selected, selectedStage, checks>>
    BY <1>4 DEF Loaded, e
  <2>2. loads' \in Seq(Loads) /\ Len(loads') <= MaxLoads
    BY <1>1, <2>1, RemoveAtType
  <2>3. selectedStage \in Stages /\ view \in [Sections -> Shown]
    BY DEF PageInv, VisualizerTypeOK
  <2>4. view' \in [Sections -> Shown]
    BY <1>2, <2>1, <2>3 DEF Rendered, Shown
  <2>5. panel' \in {Nothing} \cup [stage : Stages, of : Epoch]
    BY <1>2, <2>1, <2>3, PanelNowType
       DEF RenderedPanel, Shown, PageInv, VisualizerTypeOK
  <2>6. /\ result \in [Buttons -> [text : Texts, epoch : Shown]]
        /\ Text("empty") \in [text : Texts, epoch : Shown]
        /\ Text("empty").epoch = Nothing
    BY TextType DEF PageInv, VisualizerTypeOK, Texts
  <2>7. result' \in [Buttons -> [text : Texts, epoch : Shown]]
    BY <2>1, <2>6 DEF Erased
  <2>8. VisualizerTypeOK'
    BY <1>2, <2>1, <2>2, <2>4, <2>5, <2>7
       DEF PageInv, VisualizerTypeOK, Loads, Shown
  <2>9. PageShowsOneEpoch'
    <3>1. \A s \in Sections :
            view'[s] = e \/ Obstacles(s, selectedStage) \cap Damage[e] # {}
      BY <2>1 DEF Rendered, Reached
    <3>2. panel' = PanelNow(selectedStage, e)
            \/ Obstacles("panel", selectedStage) \cap Damage[e] # {}
      BY <2>1 DEF RenderedPanel, Reached
    <3> QED
      BY <1>2, <2>1, <2>3, <3>1, <3>2 DEF PageShowsOneEpoch
  <2>10. VerdictsAreTrue'
    <3>1. \A b \in Buttons :
            result'[b] = result[b] \/ result'[b] = Text("empty")
      BY <2>1, <2>6 DEF Erased
    <3> QED
      BY <2>6, <3>1 DEF PageInv, VerdictsAreTrue, Consistent
  <2> QED
    BY <2>8, <2>9, <2>10 DEF PageInv
<1> QED
  BY <1>3, <1>4

\* A load fails: the page dies or nothing is drawn.
LEMMA LoadFailsStep ==
  ASSUME PageInv, NEW i \in DOMAIN loads, LoadFails(i)
  PROVE  PageInv'
<1>1. CASE loads[i].initial
  BY <1>1, DieStep DEF LoadFails
<1>2. CASE ~loads[i].initial
  <2>1. loads' = RemoveAt(loads, i)
        /\ UNCHANGED <<boot, selected, current, selectedStage, page, result, checks>>
    BY <1>2 DEF LoadFails
  <2>2. loads \in Seq(Loads) /\ Len(loads) <= MaxLoads /\ Len(loads) \in Nat
    BY DEF PageInv, VisualizerTypeOK, Loads
  <2>3. loads' \in Seq(Loads) /\ Len(loads') <= MaxLoads
    BY <2>1, <2>2, RemoveAtType
  <2>4. VisualizerTypeOK'
    BY <2>1, <2>3 DEF PageInv, VisualizerTypeOK, Loads
  <2> QED
    BY <2>1, <2>4, PageKept DEF PageInv
<1> QED
  BY <1>1, <1>2

\* A selection draws nothing yet.
LEMMA SelectStep ==
  ASSUME PageInv, NEW e \in Epoch, Select(e)
  PROVE  PageInv'
<1>1. loads \in Seq(Loads) /\ Len(loads) \in Nat /\ Len(loads) < MaxLoads
  BY DEF PageInv, VisualizerTypeOK, Loads, Select
<1>2. Load(e, FALSE) \in Loads
  BY DEF Load, Loads
<1>3. loads' \in Seq(Loads) /\ Len(loads') = Len(loads) + 1
  BY <1>1, <1>2, AppendProperties DEF Select
<1>4. VisualizerTypeOK'
  <2>1. Len(loads') <= MaxLoads
    BY <1>1, <1>3
  <2>2. /\ selected' = e
        /\ UNCHANGED <<boot, current, selectedStage, page, result, checks>>
    BY DEF Select
  <2> QED
    BY <1>3, <2>1, <2>2 DEF PageInv, VisualizerTypeOK, Loads, Shown
<1> QED
  BY <1>4, PageKept DEF Select, PageInv

\* A click draws the panel of the stage from state.current.
LEMMA ClickStageStep ==
  ASSUME PageInv, NEW stage \in Stages, ClickStage(stage)
  PROVE  PageInv'
<1>1. /\ panel' = PanelNow(stage, current) /\ selectedStage' = stage
      /\ UNCHANGED <<boot, selected, loads, current, view, result, checks>>
  BY DEF ClickStage
<1>2. PanelNow(stage, current) \in {Nothing} \cup [stage : Stages, of : Epoch]
  BY PanelNowType DEF PageInv, VisualizerTypeOK
<1>3. VisualizerTypeOK'
  BY <1>1, <1>2 DEF PageInv, VisualizerTypeOK
<1>4. PageShowsOneEpoch'
  BY <1>1 DEF PageInv, PageShowsOneEpoch, PanelNow
<1>5. VerdictsAreTrue'
  BY DEF PageInv, VerdictsAreTrue, Consistent, ClickStage
<1> QED
  BY <1>3, <1>4, <1>5 DEF PageInv

\* A button writes 'computing' and remembers the epoch it was made for.
LEMMA ClickStep ==
  ASSUME PageInv, NEW b \in Buttons, Click(b)
  PROVE  PageInv'
<1>1. EpochOf(b) \in Epoch
  BY DEF PageInv, VisualizerTypeOK, Click, EpochOf, Shown, Sections
<1>2. /\ Text("computing") \in [text : Texts, epoch : Shown]
      /\ Text("computing").epoch = Nothing
  BY TextType DEF Texts
<1>3. result' \in [Buttons -> [text : Texts, epoch : Shown]] /\ VerdictsAreTrue'
  BY <1>2, ResultWritten DEF Click
<1>4. VisualizerTypeOK'
  <2>1. [button |-> b, epoch |-> EpochOf(b)] \in Checks
    BY <1>1 DEF Checks
  <2>2. checks' \subseteq Checks
    BY <2>1 DEF PageInv, VisualizerTypeOK, Click, Checks
  <2>3. UNCHANGED <<boot, selected, loads, current, selectedStage, page>>
    BY DEF Click
  <2> QED
    BY <1>3, <2>2, <2>3 DEF PageInv, VisualizerTypeOK, Checks
<1>5. PageShowsOneEpoch'
  BY DEF PageInv, PageShowsOneEpoch, Click
<1> QED
  BY <1>3, <1>4, <1>5 DEF PageInv

\* A check agrees exactly when the archive of its epoch is consistent.
LEMMA AgreesIffConsistent ==
  \A b \in Buttons, e \in Epoch : Agrees(b, e) <=> e \in Consistent[b]
<1> SUFFICES ASSUME NEW b \in Buttons, NEW e \in Epoch
             PROVE  Agrees(b, e) <=> e \in Consistent[b]
  OBVIOUS
<1> USE DEF Agrees, Computed, Archived, Consistent
<1>1. CASE b = "seed"
  BY <1>1
<1>2. CASE b = "manifest"
  BY <1>2
<1>3. CASE b = "alpha"
  BY <1>3
<1> QED
  BY <1>1, <1>2, <1>3

\* The end of a check writes a true verdict, or an error.
LEMMA ConclusionStep ==
  ASSUME PageInv, NEW c \in checks, Concludes(c) \/ AlphaFails(c)
  PROVE  PageInv'
<1>1. c \in Checks
  BY DEF PageInv, VisualizerTypeOK, Checks
<1>2. c.button \in Buttons /\ c.epoch \in Epoch
  BY <1>1 DEF Checks
<1>3. PICK r \in [text : Texts, epoch : Shown] :
        /\ result' = [result EXCEPT ![c.button] = r]
        /\ r.epoch # Nothing =>
             ((r.text = "match") <=> r.epoch \in Consistent[c.button])
  <2>1. CASE Concludes(c)
    <3> DEFINE v == Verdict(Agrees(c.button, c.epoch), c.epoch)
    <3>1. v \in [text : Texts, epoch : Shown] /\ v.epoch = c.epoch
      BY <1>2 DEF Verdict, Texts, Shown
    <3>2. (v.text = "match") <=> Agrees(c.button, c.epoch)
      BY DEF Verdict
    <3>3. (v.text = "match") <=> v.epoch \in Consistent[c.button]
      BY <1>2, <3>1, <3>2, AgreesIffConsistent
    <3>4. result' = [result EXCEPT ![c.button] = v]
      BY <2>1 DEF Concludes
    <3> QED
      BY <3>1, <3>3, <3>4
  <2>2. CASE AlphaFails(c)
    <3>1. result' = [result EXCEPT ![c.button] = Text("error")]
      BY <2>2 DEF AlphaFails, ShownError
    <3> QED
      BY <3>1, TextType DEF Texts
  <2> QED
    BY <2>1, <2>2
<1>4. result' \in [Buttons -> [text : Texts, epoch : Shown]] /\ VerdictsAreTrue'
  BY <1>2, <1>3, ResultWritten
<1>5. /\ UNCHANGED <<boot, selected, loads, current, selectedStage, page>>
      /\ checks' \subseteq checks
  BY DEF Concludes, AlphaFails
<1>6. VisualizerTypeOK'
  BY <1>4, <1>5 DEF PageInv, VisualizerTypeOK
<1>7. PageShowsOneEpoch'
  BY <1>5 DEF PageInv, PageShowsOneEpoch
<1> QED
  BY <1>4, <1>6, <1>7 DEF PageInv

\* Each step of the page keeps the invariant.
LEMMA PageStep == PageInv /\ [VisualizerNext]_vvars => PageInv'
<1> SUFFICES ASSUME PageInv, [VisualizerNext]_vvars PROVE PageInv'
  OBVIOUS
<1>1. CASE Boot
  BY <1>1, BootStep
<1>2. CASE Response
  BY <1>2, LoadedStep, LoadFailsStep DEF Response
<1>3. CASE Conclusion
  BY <1>3, ConclusionStep DEF Conclusion
<1>4. CASE User
  BY <1>4, SelectStep, ClickStageStep, ClickStep DEF User
<1>5. CASE UNCHANGED vvars
  <2>1. VisualizerTypeOK'
    BY <1>5 DEF vvars, PageInv, VisualizerTypeOK
  <2> QED
    BY <1>5, <2>1, PageKept DEF vvars, PageInv
<1> QED
  BY <1>1, <1>2, <1>3, <1>4, <1>5 DEF VisualizerNext

\* So the invariant always holds.
LEMMA PageAlways == VisualizerSpec => []PageInv
  BY PageInit, PageStep, PTL DEF VisualizerSpec

-----------------------------------------------------------------------------
(* Theorems.                                                                *)

\* Every variable of the page keeps its type; no more loads than MaxLoads are
\* in flight.
THEOREM VisualizerTypeCorrect == VisualizerSpec => []VisualizerTypeOK
<1>1. PageInv => VisualizerTypeOK
  BY DEF PageInv
<1> QED
  BY <1>1, PageAlways, PTL

\* The page shows the epoch drawn last, all of it if the files of that epoch
\* are intact, and else what drawing it does not reach is all that may be left
\* of another (selectEpoch and the clicks on the pipeline).
THEOREM PagesShowOneEpoch == VisualizerSpec => []PageShowsOneEpoch
<1>1. PageInv => PageShowsOneEpoch
  BY DEF PageInv
<1> QED
  BY <1>1, PageAlways, PTL

\* A verdict next to a button is right about the archive it was computed for
\* (renderVerifyCard and renderSnark), whatever is drawn in the meantime.
THEOREM VerdictsTellTheTruth == VisualizerSpec => []VerdictsAreTrue
<1>1. PageInv => VerdictsAreTrue
  BY DEF PageInv
<1> QED
  BY <1>1, PageAlways, PTL

=============================================================================
