------------------------- MODULE ResearchNoteProofs -------------------------
(***************************************************************************)
(* Proofs about the research note editor.  The invariant behind them       *)
(* follows the unfinished text wherever it can go: a half draft sits       *)
(* either in the box, under the generation that still writes it, or it     *)
(* belongs to a generation the operator walked away from; and no text that *)
(* can come back into the box (what a generation found, a note read, a     *)
(* save, a stored note) is an unfinished one of another generation.        *)
(***************************************************************************)
EXTENDS ResearchNote, TLAPS

(* A text that is a half draft only if its generation was walked away from *)
Lost(text) == text.kind = "half" => text.no \in left

(* The texts that can come back into the box *)
Sources ==
    /\ \A g \in DOMAIN gens : Lost(gens[g].before)
    /\ \A m \in DOMAIN loads : Lost(loads[m].text)
    /\ \A c \in Context : Lost(notes[c])
    /\ save # None => Lost(save.text)

(* The text in the box *)
Writing ==
    \/ Lost(draft)
    \/ /\ writer \in DOMAIN gens
       /\ IsCurrent(writer)
       /\ draft.no = writer

(* What a current generation sees in the box *)
Shows ==
    \A g \in DOMAIN gens :
        IsCurrent(g) => draft \in {gens[g].before, HalfText(g)}

NoteInv ==
    /\ TypeOK
    /\ FlagsMatchRequests
    /\ Sources
    /\ Writing
    /\ Shows

(* A request under way, and a collection of them by generation *)
Request ==
    [of : Context, before : Text, provider : Provider, stage : Stage,
     fresh : BOOLEAN, aborted : BOOLEAN]

Running(f) ==
    /\ DOMAIN f \subseteq Generation
    /\ \A g \in DOMAIN f : f[g] \in Request

----------------------------------------------------------------------------
(* What the helpers do to the requests under way *)

(* A text that replaces another outdates every request and changes nothing *)
(* else of it (UpdateDraft).                                               *)
LEMMA OutdatedRunning ==
    ASSUME NEW f, Running(f)
    PROVE  /\ DOMAIN Outdated(f) = DOMAIN f
           /\ Running(Outdated(f))
           /\ \A g \in DOMAIN f :
                  /\ Outdated(f)[g].fresh = FALSE
                  /\ Outdated(f)[g].aborted = f[g].aborted
                  /\ Outdated(f)[g].before = f[g].before
                  /\ Outdated(f)[g].of = f[g].of
BY DEF Outdated, Running, Request

(* Aborting the held controller changes the aborted mark of its owner only.*)
LEMMA AbortedRunning ==
    ASSUME Running(gens)
    PROVE  /\ DOMAIN Aborted = DOMAIN gens
           /\ Running(Aborted)
           /\ \A g \in DOMAIN gens :
                  /\ Aborted[g].aborted <=> gens[g].aborted \/ g = writer
                  /\ Aborted[g].fresh = gens[g].fresh
                  /\ Aborted[g].before = gens[g].before
                  /\ Aborted[g].of = gens[g].of
BY DEF Aborted, Running, Request

(* A request that returned is gone, and the others are as they were. *)
LEMMA WithoutRunning ==
    ASSUME Running(gens), NEW g
    PROVE  /\ DOMAIN Without(gens, g) = DOMAIN gens \ {g}
           /\ Running(Without(gens, g))
           /\ \A h \in DOMAIN gens \ {g} : Without(gens, g)[h] = gens[h]
BY DEF Without, Running

LEMMA Bounds ==
    /\ MaxMoves \in Nat
    /\ MaxEdits \in Nat
    /\ MaxGenerations \in Nat
    /\ MaxSaves \in Nat
    /\ 0 \in 0 .. MaxGenerations
BY ContextAssumption

LEMMA TypedRunning ==
    ASSUME TypeOK
    PROVE  Running(gens)
BY DEF TypeOK, Running, Request

(* The texts a generation writes are texts. *)
LEMMA GenerationTexts ==
    ASSUME TypeOK, NEW g \in DOMAIN gens
    PROVE  /\ HalfText(g) \in Text
           /\ WholeText(g) \in Text
           /\ gens[g].before \in Text
           /\ HalfText(g).no = g
           /\ WholeText(g).kind # "half"
BY DEF TypeOK, HalfText, WholeText, Text

(* The events of a stream, put together *)
LEMMA StreamSteps ==
    ASSUME NEW g \in DOMAIN gens,
           StreamDraft(g) \/ StreamReset(g) \/ StreamDelta(g)
    PROVE  \E stage \in Stage, text \in {HalfText(g), gens[g].before, draft} :
               Streams(g, stage, text)
<1>1. CASE StreamDraft(g)
  BY <1>1 DEF StreamDraft, Stage
<1>2. CASE StreamReset(g)
  BY <1>2 DEF StreamReset, Stage
<1>3. CASE StreamDelta(g)
  BY <1>3 DEF StreamDelta, Stage
<1> QED BY <1>1, <1>2, <1>3

(* The ends of a generation, put together *)
LEMMA ReturnSteps ==
    ASSUME NEW g \in DOMAIN gens,
           GenerationCompletes(g) \/ GenerationFails(g)
    PROVE  \E text \in {WholeText(g), gens[g].before} : Returns(g, text)
<1>1. CASE GenerationCompletes(g)
  BY <1>1 DEF GenerationCompletes, AfterFallback
<1>2. CASE GenerationFails(g)
  BY <1>2 DEF GenerationFails, AfterFailure
<1> QED BY <1>1, <1>2

(* An event that is read changes the mark and the stage of its own request.*)
LEMMA StreamedRunning ==
    ASSUME TypeOK, NEW g \in DOMAIN gens, NEW stage \in Stage, NEW text,
           Streams(g, stage, text)
    PROVE  /\ DOMAIN gens' = DOMAIN gens
           /\ Running(gens)'
           /\ gens'[g].aborted <=> ~IsCurrent(g)
           /\ \A h \in DOMAIN gens :
                  /\ gens'[h].fresh = gens[h].fresh
                  /\ gens'[h].before = gens[h].before
                  /\ gens'[h].of = gens[h].of
                  /\ h # g => gens'[h] = gens[h]
<1>1. Running(gens)
  BY TypedRunning
<1>2. IsCurrent(g) \in BOOLEAN
  BY DEF IsCurrent, SameRequest
<1>3. gens' = [gens EXCEPT ![g].stage = stage, ![g].aborted = ~IsCurrent(g)]
  BY DEF Streams
<1>4. gens' = [gens EXCEPT ![g] = [gens[g] EXCEPT !.stage = stage, !.aborted = ~IsCurrent(g)]]
  BY <1>3
<1> QED BY <1>1, <1>2, <1>4 DEF Running, Request

(* The request a generation starts with is the only new one; the others    *)
(* are as the abort of their controller left them.                         *)
LEMMA GeneratedRunning ==
    ASSUME TypeOK, Generate
    PROVE  /\ generations' \in Generation
           /\ DOMAIN gens' = DOMAIN gens \cup {generations'}
           /\ Running(gens)'
           /\ gens'[generations'].before = draft
           /\ \A h \in DOMAIN gens : h # generations' => gens'[h] = Aborted[h]
<1>1. Running(gens)
  BY TypedRunning
<1>2. /\ DOMAIN Aborted = DOMAIN gens
      /\ Running(Aborted)
  BY <1>1, AbortedRunning
<1>3. generations' \in Generation
  BY ContextAssumption DEF Generate, MayAct, TypeOK, Generation
<1>4. PICK r \in Request :
          /\ gens' = [g \in DOMAIN gens \cup {generations'} |->
                          IF g # generations' THEN Aborted[g] ELSE r]
          /\ r.before = draft
  <2>1. /\ context \in Context
        /\ draft \in Text
        /\ provider \in Provider
    BY DEF TypeOK, Provider
  <2>2. [of |-> context, before |-> draft, provider |-> provider,
         stage |-> "asked", fresh |-> TRUE, aborted |-> FALSE] \in Request
    BY <2>1 DEF Request, Stage
  <2> QED BY <2>2 DEF Generate
<1> QED BY <1>2, <1>3, <1>4 DEF Running

----------------------------------------------------------------------------
(* The values the editor holds *)

LEMMA TypeInit == Init => TypeOK
<1> SUFFICES ASSUME Init
             PROVE  TypeOK
  OBVIOUS
<1>1. Empty \in Text
  BY DEF Text
<1>2. \A m \in DOMAIN loads : loads[m] \in Load
  BY <1>1, ContextAssumption DEF Init, Asked, Load
<1>3. /\ DOMAIN loads \subseteq 0 .. MaxMoves
      /\ DOMAIN gens = {}
  BY Bounds DEF Init
<1>4. Start \in Context
  BY ContextAssumption
<1>5. /\ area \in {"research", "elsewhere"} /\ context \in Context /\ draft \in Text
      /\ generating \in BOOLEAN /\ registry \in BOOLEAN /\ approved \in BOOLEAN
      /\ provider \in configured \cup {"local"} /\ configured \subseteq External
      /\ saving \in BOOLEAN /\ save \in {None} \cup Saving
      /\ granted \in Context \cup {None} /\ left \subseteq Generation
  BY <1>1, <1>4 DEF Init
<1>6. notes \in [Context -> Text]
  BY <1>1 DEF Init
<1>7. /\ writer \in 0 .. MaxGenerations /\ generations \in 0 .. MaxGenerations
      /\ moves \in 0 .. MaxMoves /\ edits \in 0 .. MaxEdits /\ saves \in 0 .. MaxSaves
  BY Bounds DEF Init
<1> QED BY <1>2, <1>3, <1>5, <1>6, <1>7 DEF TypeOK

(* A change of the context or the area leaves the types alone, the reads   *)
(* of notes apart.                                                         *)
LEMMA TypeRestart ==
    ASSUME TypeOK, RestartEditor,
           context' \in Context,
           area' \in {"research", "elsewhere"},
           DOMAIN loads' \subseteq 0 .. MaxMoves,
           \A m \in DOMAIN loads' : loads'[m] \in Load
    PROVE  TypeOK'
<1>1. Running(gens)'
  BY TypedRunning, AbortedRunning DEF RestartEditor
<1>2. left' \subseteq Generation
  BY DEF RestartEditor, TypeOK, Text, Empty
<1>3. moves' \in 0 .. MaxMoves
  BY Bounds DEF RestartEditor, TypeOK, MayAct
<1> QED BY <1>1, <1>2, <1>3, Bounds
        DEF TypeOK, RestartEditor, StopWriting, ApprovalTakenBack, Running, Request

LEMMA TypeStep == TypeOK /\ [Next]_vars => TypeOK'
<1> SUFFICES ASSUME TypeOK, [Next]_vars
             PROVE  TypeOK'
  OBVIOUS
<1>a. Running(gens)
  BY TypedRunning
<1>b. Empty \in Text
  BY DEF Text
<1>1. ASSUME NEW c \in Context, SelectContext(c)
      PROVE  TypeOK'
  <2>1. moves' \in 0 .. MaxMoves
    BY <1>1, Bounds DEF SelectContext, RestartEditor, TypeOK, MayAct
  <2>2. Asked(c) \in Load
    BY <1>b DEF Asked, Load
  <2>3. /\ DOMAIN loads' \subseteq 0 .. MaxMoves
        /\ \A m \in DOMAIN loads' : loads'[m] \in Load
    BY <1>1, <2>1, <2>2 DEF SelectContext, TypeOK
  <2>4. /\ context' \in Context
        /\ area' \in {"research", "elsewhere"}
    BY <1>1 DEF SelectContext, TypeOK
  <2> QED BY <1>1, <2>3, <2>4, TypeRestart DEF SelectContext
<1>2. ASSUME NEW a \in {"research", "elsewhere"}, SelectArea(a)
      PROVE  TypeOK'
  BY <1>2, TypeRestart DEF SelectArea, TypeOK
<1>3. ASSUME NEW p \in Provider, SelectProvider(p)
      PROVE  TypeOK'
  BY <1>3, Bounds
     DEF SelectProvider, ApprovalTakenBack, TypeOK, place, storage
<1>4. ASSUME NEW yes \in BOOLEAN, Approve(yes)
      PROVE  TypeOK'
  BY <1>4 DEF Approve, TypeOK, place, storage, lane
<1>5. ASSUME NEW text \in Text, Edit(text)
      PROVE  TypeOK'
  <2>1. Running(gens)'
    BY <1>5, <1>a, AbortedRunning, OutdatedRunning DEF Edit
  <2>2. edits' \in 0 .. MaxEdits
    BY <1>5, Bounds DEF Edit, MayAct, TypeOK
  <2> QED BY <1>5, <2>1, <2>2, Bounds
          DEF Edit, StopWriting, TypeOK, place, storage, choice, Running, Request
<1>6. CASE Generate
  <2>1. Running(gens)' /\ generations' \in Generation
    BY <1>6, GeneratedRunning
  <2>2. /\ approved' \in BOOLEAN
        /\ granted' \in Context \cup {None}
    BY <1>6 DEF Generate, TypeOK
  <2>3. /\ UNCHANGED <<place, draft, provider, configured, registry, storage, edits, left>>
        /\ generating' = TRUE /\ writer' = generations'
    BY <1>6 DEF Generate
  <2>4. UNCHANGED <<area, context, moves, loads, saving, save, notes, saves>>
    BY <2>3 DEF place, storage
  <2>5. generations' \in 0 .. MaxGenerations
    BY <2>1, Bounds DEF Generation
  <2> QED BY <2>1, <2>2, <2>3, <2>4, <2>5 DEF TypeOK, Running, Request
<1>7. CASE Save
  <2>1. [of |-> context, text |-> draft, stored |-> FALSE] \in Saving
    BY DEF TypeOK, Saving
  <2>2. saves' \in 0 .. MaxSaves
    BY <1>7, Bounds DEF Save, MayAct, TypeOK
  <2> QED BY <1>7, <2>1, <2>2 DEF Save, TypeOK, place, lane, choice
<1>8. ASSUME NEW g \in DOMAIN gens,
             StreamDraft(g) \/ StreamReset(g) \/ StreamDelta(g)
      PROVE  TypeOK'
  <2>1. PICK stage \in Stage, text \in {HalfText(g), gens[g].before, draft} :
            Streams(g, stage, text)
    BY <1>8, StreamSteps
  <2>2. Running(gens)'
    BY <2>1, StreamedRunning
  <2>3. draft' \in Text
    BY <2>1, GenerationTexts DEF Streams, TypeOK
  <2> QED BY <2>1, <2>2, <2>3
          DEF Streams, TypeOK, place, choice, storage, Running, Request
<1>9. ASSUME NEW g \in DOMAIN gens,
             GenerationCompletes(g) \/ GenerationFails(g)
      PROVE  TypeOK'
  <2>1. PICK text \in {WholeText(g), gens[g].before} : Returns(g, text)
    BY <1>9, ReturnSteps
  <2>2. Running(gens)'
    BY <2>1, <1>a, WithoutRunning DEF Returns
  <2>3. /\ draft' \in Text
        /\ writer' \in 0 .. MaxGenerations
        /\ generating' \in BOOLEAN
    <3>1. text \in Text
      BY <2>1, GenerationTexts
    <3>2. /\ writer' = 0 \/ writer' = writer
          /\ generating' = FALSE \/ generating' = generating
          /\ draft' \in {text, draft}
      BY <2>1 DEF Returns, StopWriting
    <3> QED BY <3>1, <3>2, Bounds DEF TypeOK
  <2> QED BY <2>1, <2>2, <2>3
          DEF Returns, TypeOK, place, choice, storage, Running, Request
<1>10. ASSUME NEW answer \in SUBSET External, RegistryAnswered(answer)
       PROVE  TypeOK'
  <2>1. /\ provider' \in configured' \cup {"local"}
        /\ configured' \subseteq External
        /\ registry' \in BOOLEAN
    BY <1>10 DEF RegistryAnswered
  <2>2. UNCHANGED <<area, context, moves, draft, generating, writer, gens, loads, saving,
                    save, notes, saves, approved, granted, edits, generations, left>>
    BY <1>10 DEF RegistryAnswered, place, lane, storage
  <2> QED BY <2>1, <2>2 DEF TypeOK
<1>11. ASSUME NEW m \in DOMAIN loads, LoadServed(m)
       PROVE  TypeOK'
  <2>1. PICK text \in Text :
            loads' = [loads EXCEPT ![m] =
                          [loads[m] EXCEPT !.read = TRUE, !.text = text]]
    BY <1>11, <1>b, ZenonT(30) DEF LoadServed, TypeOK, Load
  <2>2. /\ DOMAIN loads' = DOMAIN loads
        /\ \A k \in DOMAIN loads : loads'[k] \in Load
    BY <2>1 DEF TypeOK, Load
  <2> QED BY <1>11, <2>2 DEF LoadServed, TypeOK, place, lane, choice
<1>12. ASSUME NEW m \in DOMAIN loads, LoadAnswered(m)
       PROVE  TypeOK'
  <2>1. Running(gens)'
    BY <1>12, <1>a, OutdatedRunning DEF LoadAnswered, UpdateDraft
  <2>2. /\ draft' \in Text
        /\ DOMAIN loads' \subseteq 0 .. MaxMoves
        /\ \A k \in DOMAIN loads' : loads'[k] \in Load
    BY <1>12 DEF LoadAnswered, UpdateDraft, Without, TypeOK, Load
  <2> QED BY <1>12, <2>1, <2>2
          DEF LoadAnswered, TypeOK, place, choice, Running, Request
<1>13. CASE SaveServed
  <2>1. /\ save' \in Saving
        /\ notes' \in [Context -> Text]
    BY <1>13 DEF SaveServed, TypeOK, Saving
  <2> QED BY <1>13, <2>1 DEF SaveServed, TypeOK, place, lane, choice
<1>14. CASE SaveReturned
  <2>1. Running(gens)'
    BY <1>14, <1>a, OutdatedRunning DEF SaveReturned, UpdateDraft
  <2>2. draft' \in Text
    BY <1>14 DEF SaveReturned, UpdateDraft, TypeOK, Saving
  <2> QED BY <1>14, <2>1, <2>2
          DEF SaveReturned, TypeOK, place, choice, Running, Request
<1>15. CASE UNCHANGED vars
  BY <1>15 DEF TypeOK, vars
<1> QED BY <1>1, <1>2, <1>3, <1>4, <1>5, <1>6, <1>7, <1>8, <1>9, <1>10,
           <1>11, <1>12, <1>13, <1>14, <1>15
        DEF Next, Operator, Answers, Stream

(***************************************************************************)
(* The editor's flags, texts, requests, reads and saves always have the    *)
(* values the code can give them, for any number of contexts, providers,   *)
(* moves, generations and saves (research-state-actions.tsx).              *)
(***************************************************************************)
THEOREM NoteTypes == Spec => []TypeOK
<1> QED BY TypeInit, TypeStep, PTL DEF Spec

----------------------------------------------------------------------------
(* The flags and the requests they stand for *)

(* The owner of the request number is a generation, never "no one". *)
LEMMA OwnersCount ==
    ASSUME TypeOK, NEW g \in DOMAIN gens
    PROVE  g # 0
BY DEF TypeOK, Generation

LEMMA FlagsStep == TypeOK /\ FlagsMatchRequests /\ [Next]_vars => FlagsMatchRequests'
<1> SUFFICES ASSUME TypeOK, FlagsMatchRequests, [Next]_vars
             PROVE  FlagsMatchRequests'
  OBVIOUS
<1>a. Running(gens)
  BY TypedRunning
<1>b. /\ DOMAIN Aborted = DOMAIN gens
      /\ Running(Aborted)
      /\ \A g \in DOMAIN gens : Aborted[g].aborted
  BY <1>a, AbortedRunning DEF FlagsMatchRequests
<1>1. CASE RestartEditor
  BY <1>1, <1>b DEF RestartEditor, StopWriting, FlagsMatchRequests
<1>2. ASSUME NEW p \in Provider, SelectProvider(p)
      PROVE  FlagsMatchRequests'
  BY <1>2 DEF SelectProvider, FlagsMatchRequests, storage
<1>3. ASSUME NEW yes \in BOOLEAN, Approve(yes)
      PROVE  FlagsMatchRequests'
  BY <1>3 DEF Approve, FlagsMatchRequests, lane, storage
<1>4. ASSUME NEW text \in Text, Edit(text)
      PROVE  FlagsMatchRequests'
  <2>1. /\ DOMAIN gens' = DOMAIN gens
        /\ \A g \in DOMAIN gens : gens'[g].aborted
    BY <1>4, <1>b, OutdatedRunning DEF Edit
  <2> QED BY <1>4, <2>1 DEF Edit, StopWriting, FlagsMatchRequests, storage
<1>5. CASE Generate
  <2>1. /\ DOMAIN gens' = DOMAIN gens \cup {generations'}
        /\ \A g \in DOMAIN gens' : g # generations' => gens'[g].aborted
    BY <1>5, <1>b, GeneratedRunning
  <2>2. generations' # 0
    BY <1>5, GeneratedRunning DEF Generation
  <2> QED BY <1>5, <2>1, <2>2 DEF Generate, FlagsMatchRequests, storage
<1>6. CASE Save
  <2>1. [of |-> context, text |-> draft, stored |-> FALSE] \in Saving
    BY DEF TypeOK, Saving
  <2> QED BY <1>6, <2>1, NoneAssumption DEF Save, FlagsMatchRequests, lane
<1>7. ASSUME NEW g \in DOMAIN gens,
             StreamDraft(g) \/ StreamReset(g) \/ StreamDelta(g)
      PROVE  FlagsMatchRequests'
  <2>1. PICK stage \in Stage, text \in {HalfText(g), gens[g].before, draft} :
            Streams(g, stage, text)
    BY <1>7, StreamSteps
  <2>2. writer = g
    BY <2>1 DEF Streams, FlagsMatchRequests
  <2>3. /\ DOMAIN gens' = DOMAIN gens
        /\ \A h \in DOMAIN gens : h # g => gens'[h] = gens[h]
    BY <2>1, StreamedRunning
  <2> QED BY <2>1, <2>2, <2>3 DEF Streams, FlagsMatchRequests, storage
<1>8. ASSUME NEW g \in DOMAIN gens,
             GenerationCompletes(g) \/ GenerationFails(g)
      PROVE  FlagsMatchRequests'
  <2>1. PICK text \in {WholeText(g), gens[g].before} : Returns(g, text)
    BY <1>8, ReturnSteps
  <2>2. /\ DOMAIN gens' = DOMAIN gens \ {g}
        /\ \A h \in DOMAIN gens \ {g} : gens'[h] = gens[h]
    BY <2>1, <1>a, WithoutRunning DEF Returns
  <2>3. CASE writer = g
    BY <2>1, <2>2, <2>3 DEF Returns, Owns, StopWriting, FlagsMatchRequests, storage
  <2>4. CASE writer # g
    BY <2>1, <2>2, <2>4 DEF Returns, Owns, FlagsMatchRequests, storage
  <2> QED BY <2>3, <2>4
<1>9. ASSUME NEW answer \in SUBSET External, RegistryAnswered(answer)
      PROVE  FlagsMatchRequests'
  BY <1>9 DEF RegistryAnswered, FlagsMatchRequests, lane, storage
<1>10. ASSUME NEW m \in DOMAIN loads, LoadServed(m)
       PROVE  FlagsMatchRequests'
  BY <1>10 DEF LoadServed, FlagsMatchRequests, lane
<1>11. ASSUME NEW m \in DOMAIN loads, LoadAnswered(m)
       PROVE  FlagsMatchRequests'
  <2>1. /\ DOMAIN gens' = DOMAIN gens
        /\ \A g \in DOMAIN gens : gens'[g].aborted = gens[g].aborted
    BY <1>11, <1>a, OutdatedRunning DEF LoadAnswered, UpdateDraft
  <2> QED BY <1>11, <2>1 DEF LoadAnswered, FlagsMatchRequests
<1>12. CASE SaveServed
  <2>1. save' \in Saving
    BY <1>12 DEF SaveServed, TypeOK, Saving
  <2>2. save # None /\ save' # None
    BY <1>12, <2>1, NoneAssumption DEF SaveServed
  <2>3. UNCHANGED <<generating, writer, gens, saving>>
    BY <1>12 DEF SaveServed, lane
  <2> QED BY <2>2, <2>3 DEF FlagsMatchRequests
<1>13. CASE SaveReturned
  <2>1. /\ DOMAIN gens' = DOMAIN gens
        /\ \A g \in DOMAIN gens : gens'[g].aborted = gens[g].aborted
    <3>1. gens' = gens \/ gens' = Outdated(gens)
      BY <1>13 DEF SaveReturned, UpdateDraft
    <3> QED BY <1>a, <3>1, OutdatedRunning
  <2>2. saving' = FALSE /\ save' = None /\ UNCHANGED <<generating, writer>>
    BY <1>13 DEF SaveReturned
  <2> QED BY <2>1, <2>2 DEF FlagsMatchRequests
<1>14. CASE UNCHANGED vars
  BY <1>14 DEF FlagsMatchRequests, vars
<1> QED BY <1>1, <1>2, <1>3, <1>4, <1>5, <1>6, <1>7, <1>8, <1>9, <1>10,
           <1>11, <1>12, <1>13, <1>14
        DEF Next, Operator, Answers, Stream, SelectContext, SelectArea

(***************************************************************************)
(* The flags that disable the controls agree with the requests under way:  *)
(* generating exactly while the owner of the request number is under way,  *)
(* every other request aborted, and saving exactly while a save is         *)
(* (resetResearchNoteDraftStream and the two finally blocks).              *)
(***************************************************************************)
THEOREM FlagsAgree == Spec => []FlagsMatchRequests
<1>1. Init => FlagsMatchRequests
  BY DEF Init, FlagsMatchRequests
<1> QED BY <1>1, FlagsStep, NoteTypes, PTL DEF Spec

----------------------------------------------------------------------------
(* Where an unfinished text can be *)

(* An editor that is not generating holds no half draft of its own. *)
LEMMA FreeEditorHoldsLost ==
    ASSUME TypeOK, FlagsMatchRequests, Writing, ~generating
    PROVE  writer = 0 /\ Lost(draft)
BY OwnersCount DEF FlagsMatchRequests, Writing

(* Whatever was walked away from stays so. *)
LEMMA LeftGrows == [Next]_vars => left \subseteq left'
BY DEF Next, Operator, Answers, Stream, SelectContext, SelectArea, RestartEditor,
       SelectProvider, Approve, Edit, Generate, Save, StreamDraft, StreamReset,
       StreamDelta, Streams, GenerationCompletes, GenerationFails, Returns,
       RegistryAnswered, LoadServed, LoadAnswered, SaveServed, SaveReturned, vars

(* The texts a generation found in the box when it was asked for *)
LEMMA FoundStep ==
    ASSUME NoteInv, [Next]_vars
    PROVE  \A g \in DOMAIN gens' : Lost(gens[g].before)'
<1>a. Running(gens)
  BY TypedRunning DEF NoteInv
<1>b. left \subseteq left'
  BY LeftGrows
<1>c. SUFFICES ASSUME NEW h \in DOMAIN gens'
               PROVE  \/ h \in DOMAIN gens /\ gens'[h].before = gens[h].before
                      \/ gens'[h].before = draft /\ ~generating
  BY <1>b, FreeEditorHoldsLost DEF NoteInv, Sources, Lost
<1>d. /\ DOMAIN Aborted = DOMAIN gens
      /\ Running(Aborted)
      /\ \A g \in DOMAIN gens : Aborted[g].before = gens[g].before
  BY <1>a, AbortedRunning
<1>1. CASE gens' = gens
  BY <1>1
<1>2. CASE gens' = Aborted
  BY <1>2, <1>d
<1>3. CASE gens' = Outdated(gens)
  BY <1>3, <1>a, OutdatedRunning
<1>4. CASE gens' = Outdated(Aborted)
  BY <1>4, <1>d, OutdatedRunning, ZenonT(30)
<1>5. CASE Generate
  BY <1>5, <1>d, GeneratedRunning DEF Generate, MayGenerate, NoteInv
<1>6. ASSUME NEW g \in DOMAIN gens,
             StreamDraft(g) \/ StreamReset(g) \/ StreamDelta(g)
      PROVE  h \in DOMAIN gens /\ gens'[h].before = gens[h].before
  BY <1>6, StreamSteps, StreamedRunning DEF NoteInv
<1>7. ASSUME NEW g \in DOMAIN gens,
             GenerationCompletes(g) \/ GenerationFails(g)
      PROVE  h \in DOMAIN gens /\ gens'[h].before = gens[h].before
  <2>1. gens' = Without(gens, g)
    BY <1>7, ReturnSteps DEF Returns
  <2> QED BY <2>1, <1>a, WithoutRunning
<1> QED BY <1>1, <1>2, <1>3, <1>4, <1>5, <1>6, <1>7
        DEF Next, Operator, Answers, Stream, SelectContext, SelectArea,
            RestartEditor, SelectProvider, Approve, Edit, Save, RegistryAnswered,
            LoadServed, LoadAnswered, UpdateDraft, SaveServed, SaveReturned,
            lane, vars

(* The texts of the reads, the save and the stored notes *)
LEMMA SourcesStep ==
    ASSUME NoteInv, [Next]_vars
    PROVE  Sources'
<1>a. left \subseteq left'
  BY LeftGrows
<1>b. \A g \in DOMAIN gens' : Lost(gens[g].before)'
  BY FoundStep
<1>c. ASSUME UNCHANGED storage
      PROVE  Sources'
  BY <1>a, <1>b, <1>c DEF NoteInv, Sources, Lost, storage
<1>1. ASSUME NEW c \in Context, SelectContext(c)
      PROVE  Sources'
  <2>1. \A m \in DOMAIN loads' :
            \/ m \in DOMAIN loads /\ loads'[m] = loads[m]
            \/ loads'[m].text = Empty
    BY <1>1 DEF SelectContext, Asked
  <2>2. \A m \in DOMAIN loads' : Lost(loads[m].text)'
    BY <2>1, <1>a DEF NoteInv, Sources, Lost, Empty
  <2> QED BY <1>1, <1>a, <1>b, <2>2
          DEF SelectContext, RestartEditor, NoteInv, Sources, Lost
<1>2. CASE Save
  <2>1. Lost(draft)
    BY <1>2, FreeEditorHoldsLost DEF Save, MaySave, NoteInv
  <2> QED BY <1>2, <1>a, <1>b, <2>1 DEF Save, NoteInv, Sources, Lost
<1>3. ASSUME NEW m \in DOMAIN loads, LoadServed(m)
      PROVE  Sources'
  <2>1. PICK text \in {notes[loads[m].of], Empty} :
            loads' = [loads EXCEPT ![m].read = TRUE, ![m].text = text]
    BY <1>3 DEF LoadServed
  <2>2. Lost(text)
    <3>1. loads[m].of \in Context
      BY DEF NoteInv, TypeOK, Load
    <3> QED BY <2>1, <3>1 DEF NoteInv, Sources, Lost, Empty
  <2>3. loads' = [loads EXCEPT ![m] =
                      [loads[m] EXCEPT !.read = TRUE, !.text = text]]
    BY <2>1
  <2>4. /\ DOMAIN loads' = DOMAIN loads
        /\ loads'[m].text = text
        /\ \A k \in DOMAIN loads : k # m => loads'[k] = loads[k]
    BY <2>3 DEF NoteInv, TypeOK, Load
  <2>5. \A k \in DOMAIN loads' : Lost(loads[k].text)'
    BY <2>2, <2>4, <1>a DEF NoteInv, Sources, Lost
  <2> QED BY <1>3, <1>a, <1>b, <2>5 DEF LoadServed, NoteInv, Sources, Lost
<1>4. ASSUME NEW m \in DOMAIN loads, LoadAnswered(m)
      PROVE  Sources'
  <2>1. \A k \in DOMAIN loads' : k \in DOMAIN loads /\ loads'[k] = loads[k]
    BY <1>4 DEF LoadAnswered, Without
  <2> QED BY <1>4, <1>a, <1>b, <2>1 DEF LoadAnswered, NoteInv, Sources, Lost
<1>5. CASE SaveServed
  <2>1. /\ save \in Saving
        /\ notes \in [Context -> Text]
    BY <1>5 DEF SaveServed, NoteInv, TypeOK
  <2>2. save'.text = save.text
    BY <1>5, <2>1 DEF SaveServed, Saving
  <2>3. \A c \in Context : notes'[c] \in {notes[c], save.text}
    BY <1>5, <2>1 DEF SaveServed
  <2>4. Lost(save.text)
    BY <1>5 DEF SaveServed, NoteInv, Sources
  <2> QED BY <1>5, <1>a, <1>b, <2>2, <2>3, <2>4 DEF SaveServed, NoteInv, Sources, Lost
<1>6. CASE SaveReturned
  BY <1>6, <1>a, <1>b DEF SaveReturned, NoteInv, Sources, Lost
<1> QED BY <1>c, <1>1, <1>2, <1>3, <1>4, <1>5, <1>6
        DEF Next, Operator, Answers, Stream, SelectArea, RestartEditor,
            SelectProvider, Approve, Edit, Generate, StreamDraft, StreamReset,
            StreamDelta, Streams, GenerationCompletes, GenerationFails, Returns,
            RegistryAnswered, storage, vars

(* The requests that are current after an event of a stream *)
LEMMA CurrentStreamed ==
    ASSUME NoteInv, NEW g \in DOMAIN gens, NEW stage \in Stage, NEW text,
           Streams(g, stage, text)
    PROVE  /\ writer = g
           /\ \A h \in DOMAIN gens : IsCurrent(h)' <=> h = g /\ IsCurrent(g)
           /\ \A h \in DOMAIN gens : (gens[h].before)' = gens[h].before
           /\ \A h \in DOMAIN gens : HalfText(h)' = HalfText(h)
<1>1. writer = g
  BY DEF Streams, NoteInv, FlagsMatchRequests
<1>2. /\ DOMAIN gens' = DOMAIN gens
      /\ gens'[g].aborted <=> ~IsCurrent(g)
      /\ \A h \in DOMAIN gens :
             /\ gens'[h].fresh = gens[h].fresh
             /\ gens'[h].before = gens[h].before
             /\ gens'[h].of = gens[h].of
             /\ h # g => gens'[h] = gens[h]
  BY StreamedRunning DEF NoteInv
<1>3. writer' = writer /\ context' = context
  BY DEF Streams, place
<1>4. \A h \in DOMAIN gens : IsCurrent(h)' <=> h = g /\ IsCurrent(g)
  BY <1>1, <1>2, <1>3 DEF IsCurrent, SameRequest
<1> QED BY <1>1, <1>2, <1>4 DEF HalfText

LEMMA WritingStep ==
    ASSUME NoteInv, [Next]_vars
    PROVE  Writing'
<1>a. left \subseteq left'
  BY LeftGrows
<1>b. Running(gens)
  BY TypedRunning DEF NoteInv
<1>c. ASSUME UNCHANGED <<draft, writer, gens, context>>
      PROVE  Writing'
  BY <1>a, <1>c DEF NoteInv, Writing, Lost, IsCurrent, SameRequest
<1>1. CASE RestartEditor
  <2>1. draft.kind = "half" => \/ draft.no \in left
                               \/ generating /\ draft.kind = "half"
    BY OwnersCount DEF NoteInv, Writing, Lost, FlagsMatchRequests
  <2>2. Lost(draft)'
    BY <1>1, <2>1, <1>a DEF RestartEditor, Lost
  <2> QED BY <2>2 DEF Writing
<1>2. ASSUME NEW p \in Provider, SelectProvider(p)
      PROVE  Writing'
  <2>1. Lost(draft)
    BY <1>2, FreeEditorHoldsLost DEF SelectProvider, NoteInv
  <2> QED BY <1>2, <2>1 DEF SelectProvider, Writing, Lost
<1>3. ASSUME NEW text \in Text, Edit(text)
      PROVE  Writing'
  <2>1. draft'.kind # "half"
    BY <1>3 DEF Edit, Empty
  <2> QED BY <2>1 DEF Writing, Lost
<1>4. CASE Generate
  <2>1. Lost(draft)
    BY <1>4, FreeEditorHoldsLost DEF Generate, MayGenerate, NoteInv
  <2> QED BY <1>4, <2>1 DEF Generate, Writing, Lost
<1>5. ASSUME NEW g \in DOMAIN gens,
             StreamDraft(g) \/ StreamReset(g) \/ StreamDelta(g)
      PROVE  Writing'
  <2>1. PICK stage \in Stage, text \in {HalfText(g), gens[g].before, draft} :
            Streams(g, stage, text)
    BY <1>5, StreamSteps
  <2>2. /\ writer = g
        /\ IsCurrent(g)' <=> IsCurrent(g)
    BY <2>1, CurrentStreamed
  <2>3. /\ writer' = g
        /\ left' = left
        /\ DOMAIN gens' = DOMAIN gens
    BY <2>1, <2>2, StreamedRunning DEF Streams, NoteInv
  <2>4. CASE ~IsCurrent(g)
    BY <2>1, <2>2, <2>3, <2>4 DEF Streams, NoteInv, Writing, Lost
  <2>5. CASE IsCurrent(g) /\ text = HalfText(g)
    <3>1. draft'.no = g
      BY <2>1, <2>5, GenerationTexts DEF Streams, NoteInv
    <3> QED BY <2>2, <2>3, <2>5, <3>1 DEF Writing
  <2>6. CASE IsCurrent(g) /\ text = gens[g].before
    BY <2>1, <2>3, <2>6 DEF Streams, NoteInv, Sources, Writing, Lost
  <2>7. CASE IsCurrent(g) /\ text = draft
    BY <2>1, <2>2, <2>3, <2>7 DEF Streams, NoteInv, Writing, Lost
  <2> QED BY <2>1, <2>4, <2>5, <2>6, <2>7
<1>6. ASSUME NEW g \in DOMAIN gens,
             GenerationCompletes(g) \/ GenerationFails(g)
      PROVE  Writing'
  <2>1. PICK text \in {WholeText(g), gens[g].before} : Returns(g, text)
    BY <1>6, ReturnSteps
  <2>2. /\ DOMAIN gens' = DOMAIN gens \ {g}
        /\ \A h \in DOMAIN gens \ {g} : gens'[h] = gens[h]
        /\ context' = context
        /\ left' = left
    BY <2>1, <1>b, WithoutRunning DEF Returns, place
  <2>3. Lost(text)
    BY <2>1, GenerationTexts DEF NoteInv, Sources, Lost
  <2>4. CASE writer = g /\ IsCurrent(g)
    BY <2>1, <2>2, <2>3, <2>4 DEF Returns, Owns, Writing, Lost
  <2>5. CASE writer = g /\ ~IsCurrent(g)
    BY <2>1, <2>2, <2>5 DEF Returns, Owns, NoteInv, Writing, Lost
  <2>6. CASE writer # g
    BY <2>1, <2>2, <2>6 DEF Returns, Owns, NoteInv, Writing, Lost, IsCurrent, SameRequest
  <2> QED BY <2>4, <2>5, <2>6
<1>7. ASSUME NEW m \in DOMAIN loads, LoadAnswered(m)
      PROVE  Writing'
  BY <1>7 DEF LoadAnswered, UpdateDraft, NoteInv, Sources, Writing, Lost
<1>8. CASE SaveReturned
  <2>1. CASE UNCHANGED <<draft, gens>>
    BY <1>8, <2>1, <1>c DEF SaveReturned, place
  <2>2. CASE UpdateDraft(save.text)
    BY <1>8, <2>2 DEF SaveReturned, UpdateDraft, NoteInv, Sources, Writing, Lost
  <2> QED BY <1>8, <2>1, <2>2 DEF SaveReturned
<1> QED BY <1>c, <1>1, <1>2, <1>3, <1>4, <1>5, <1>6, <1>7, <1>8
        DEF Next, Operator, Answers, Stream, SelectContext, SelectArea, Approve,
            Save, RegistryAnswered, LoadServed, SaveServed, place, lane, vars

LEMMA ShowsStep ==
    ASSUME NoteInv, [Next]_vars
    PROVE  Shows'
<1>a. TypeOK' /\ FlagsMatchRequests'
  BY TypeStep, FlagsStep DEF NoteInv
<1>b. Running(gens)
  BY TypedRunning DEF NoteInv
<1>c. ASSUME UNCHANGED <<draft, writer, gens, context>>
      PROVE  Shows'
  BY <1>c DEF NoteInv, Shows, IsCurrent, SameRequest, HalfText
<1>d. ASSUME writer' = 0
      PROVE  Shows'
  BY <1>a, <1>d DEF Shows, IsCurrent, SameRequest, TypeOK, Generation
<1>e. ASSUME NEW text, UpdateDraft(text)
      PROVE  Shows'
  <2>1. \A g \in DOMAIN gens' : ~gens'[g].fresh
    BY <1>b, <1>e, OutdatedRunning DEF UpdateDraft
  <2> QED BY <2>1 DEF Shows, IsCurrent
<1>1. CASE Generate
  <2>1. /\ gens'[writer'].before = draft'
        /\ \A g \in DOMAIN gens' : IsCurrent(g)' => g = writer'
    BY <1>1, GeneratedRunning DEF Generate, IsCurrent, SameRequest, NoteInv
  <2> QED BY <2>1 DEF Shows
<1>2. ASSUME NEW g \in DOMAIN gens,
             StreamDraft(g) \/ StreamReset(g) \/ StreamDelta(g)
      PROVE  Shows'
  <2>1. PICK stage \in Stage, text \in {HalfText(g), gens[g].before, draft} :
            Streams(g, stage, text)
    BY <1>2, StreamSteps
  <2>2. /\ \A h \in DOMAIN gens : IsCurrent(h)' <=> h = g /\ IsCurrent(g)
        /\ \A h \in DOMAIN gens : (gens[h].before)' = gens[h].before
        /\ \A h \in DOMAIN gens : HalfText(h)' = HalfText(h)
        /\ DOMAIN gens' = DOMAIN gens
    BY <2>1, CurrentStreamed, StreamedRunning DEF NoteInv
  <2>3. IsCurrent(g) => draft' \in {gens[g].before, HalfText(g)}
    BY <2>1 DEF Streams, NoteInv, Shows
  <2> QED BY <2>2, <2>3 DEF Shows
<1>3. ASSUME NEW g \in DOMAIN gens,
             GenerationCompletes(g) \/ GenerationFails(g)
      PROVE  Shows'
  <2>1. PICK text \in {WholeText(g), gens[g].before} : Returns(g, text)
    BY <1>3, ReturnSteps
  <2>2. CASE writer = g
    BY <2>1, <2>2, <1>d DEF Returns, Owns, StopWriting
  <2>3. CASE writer # g
    <3>1. /\ DOMAIN gens' = DOMAIN gens \ {g}
          /\ \A h \in DOMAIN gens \ {g} : gens'[h] = gens[h]
          /\ UNCHANGED <<draft, writer, context>>
      BY <2>1, <2>3, <1>b, WithoutRunning DEF Returns, Owns, place
    <3> QED BY <3>1 DEF NoteInv, Shows, IsCurrent, SameRequest, HalfText
  <2> QED BY <2>2, <2>3
<1>4. CASE SaveReturned
  BY <1>4, <1>c, <1>e DEF SaveReturned, place
<1> QED BY <1>c, <1>d, <1>e, <1>1, <1>2, <1>3, <1>4
        DEF Next, Operator, Answers, Stream, SelectContext, SelectArea,
            RestartEditor, StopWriting, SelectProvider, Approve, Edit, Save,
            RegistryAnswered, LoadServed, LoadAnswered, SaveServed, place, lane,
            vars

LEMMA NoteInvariant == Spec => []NoteInv
<1>1. Init => NoteInv
  <2>1. Init => TypeOK
    BY TypeInit
  <2>2. Init => FlagsMatchRequests /\ Writing
    BY DEF Init, FlagsMatchRequests, Writing, Lost, Empty
  <2>3. Init => Sources /\ Shows
    BY DEF Init, Sources, Shows, Lost, Asked, Empty
  <2> QED BY <2>1, <2>2, <2>3 DEF NoteInv
<1>2. NoteInv /\ [Next]_vars => NoteInv'
  BY TypeStep, FlagsStep, SourcesStep, WritingStep, ShowsStep DEF NoteInv
<1> QED BY <1>1, <1>2, PTL DEF Spec

(***************************************************************************)
(* An unfinished draft is in the box only while the generation that writes *)
(* it is under way, whatever the order of edits, moves, reads, saves and   *)
(* stream ends; a generation the operator walked away from is the only     *)
(* exception (generateResearchNoteDraft and researchNoteDraftTextAfterFailure).*)
(***************************************************************************)
THEOREM HalfTextIsWritten == Spec => []HalfOnlyWhileWriting
<1>1. NoteInv => HalfOnlyWhileWriting
  BY OwnersCount DEF NoteInv, Writing, Lost, FlagsMatchRequests, HalfOnlyWhileWriting
<1> QED BY <1>1, NoteInvariant, PTL

(***************************************************************************)
(* A stream, its end included, changes the box only in its own context and *)
(* only over what it found there or wrote itself: never over a text typed, *)
(* loaded or saved since (isResearchNoteDraftStreamCurrent).               *)
(***************************************************************************)
THEOREM StreamsKeepTexts == Spec => StreamKeepsOthersText
<1>1. ASSUME NoteInv, NEW g \in DOMAIN gens,
             \/ StreamDraft(g) \/ StreamReset(g) \/ StreamDelta(g)
             \/ GenerationCompletes(g) \/ GenerationFails(g)
      PROVE  \/ draft' = draft
             \/ /\ gens[g].of = context
                /\ draft \in {gens[g].before, HalfText(g)}
  <2>1. CASE IsCurrent(g)
    BY <1>1, <2>1 DEF NoteInv, Shows, IsCurrent, SameRequest
  <2>2. CASE ~IsCurrent(g)
    <3>1. CASE StreamDraft(g) \/ StreamReset(g) \/ StreamDelta(g)
      BY <2>2, <3>1, StreamSteps DEF Streams
    <3>2. CASE GenerationCompletes(g) \/ GenerationFails(g)
      BY <2>2, <3>2, ReturnSteps DEF Returns
    <3> QED BY <1>1, <3>1, <3>2
  <2> QED BY <2>1, <2>2
<1>2. NoteInv =>
          [\A g \in DOMAIN gens :
               (StreamDraft(g) \/ StreamReset(g) \/ StreamDelta(g)
                   \/ GenerationCompletes(g) \/ GenerationFails(g))
                 => \/ draft' = draft
                    \/ /\ gens[g].of = context
                       /\ draft \in {gens[g].before, HalfText(g)}]_vars
  BY <1>1
<1> QED BY <1>2, NoteInvariant, PTL DEF StreamKeepsOthersText

----------------------------------------------------------------------------
(* The approval *)

(***************************************************************************)
(* An approval that is set was given in the context on the screen: a move  *)
(* takes it back and a request uses it up (the effect on area and context, *)
(* and the consent reset of generateResearchNoteDraft).                    *)
(***************************************************************************)
THEOREM ApprovalStays == Spec => []ApprovalGivenHere
<1>1. Init => ApprovalGivenHere
  BY DEF Init, ApprovalGivenHere
<1>2. ASSUME ApprovalGivenHere, [Next]_vars
      PROVE  ApprovalGivenHere'
  <2>1. CASE RestartEditor
    BY <2>1 DEF RestartEditor, ApprovalTakenBack, ApprovalGivenHere
  <2>2. ASSUME NEW p \in Provider, SelectProvider(p)
        PROVE  ApprovalGivenHere'
    BY <2>2 DEF SelectProvider, ApprovalTakenBack, ApprovalGivenHere
  <2>3. ASSUME NEW yes \in BOOLEAN, Approve(yes)
        PROVE  ApprovalGivenHere'
    BY <2>3 DEF Approve, place, ApprovalGivenHere
  <2>4. CASE Generate
    BY <1>2, <2>4 DEF Generate, place, ApprovalGivenHere
  <2>5. CASE UNCHANGED <<approved, granted, context>>
    BY <1>2, <2>5 DEF ApprovalGivenHere
  <2> QED BY <1>2, <2>1, <2>2, <2>3, <2>4, <2>5
          DEF Next, Operator, Answers, Stream, SelectContext, SelectArea, Edit,
              Save, StreamDraft, StreamReset, StreamDelta, Streams,
              GenerationCompletes, GenerationFails, Returns, RegistryAnswered,
              LoadServed, LoadAnswered, SaveServed, SaveReturned, place, choice,
              vars
<1> QED BY <1>1, <1>2, PTL DEF Spec
=============================================================================
