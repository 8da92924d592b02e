---------------------------- MODULE ResearchNote ----------------------------
(***************************************************************************)
(* The research note editor of the workspace: one text box that three      *)
(* parties write.  The operator types in it; a note read from the core     *)
(* replaces it when the instrument changes and after a save; and a draft   *)
(* generated by a provider is streamed into it piece by piece.  All three  *)
(* are asynchronous, and the editor keeps them apart by a request number,  *)
(* an abort controller and a version of the draft                          *)
(* (src/apps/web/src/pages/research/controller/research-state-actions.tsx, *)
(* src/apps/web/src/lib/research-ai-transport.ts and the effects of        *)
(* src/apps/web/src/pages/app-shell/controller/domain-runtime-effects.tsx).*)
(***************************************************************************)
EXTENDS Integers, FiniteSets

CONSTANTS
    Context,         \* the instruments and timeframes a note is kept for
    Start,           \* the one open at the start
    External,        \* the providers outside the machine
    None,            \* no context, no save
    MaxMoves,        \* how often the operator changes the context or the area
    MaxEdits,        \* how often the operator types
    MaxGenerations,  \* how many drafts are asked for
    MaxSaves,        \* how many saves are sent
    MaxActs          \* how many of these four there are together

ASSUME ContextAssumption ==
    /\ IsFiniteSet(Context)
    /\ Start \in Context
    /\ None \notin Context
    /\ IsFiniteSet(External)
    /\ "local" \notin External
    /\ {MaxMoves, MaxEdits, MaxGenerations, MaxSaves, MaxActs} \subseteq Nat

Provider == External \cup {"local"}
Generation == 1 .. MaxGenerations

(***************************************************************************)
(* A text is empty, typed by the operator (no: the how many-th edit), or   *)
(* the unfinished or the finished draft of generation no.  "of" is the     *)
(* context it was written in.                                              *)
(***************************************************************************)
Empty == [kind |-> "empty", of |-> None, no |-> 0]
Text ==
    {Empty}
        \cup [kind : {"typed"}, of : Context, no : 1 .. MaxEdits]
        \cup [kind : {"half", "whole"}, of : Context, no : Generation]

VARIABLES
    area,        \* "research" or "elsewhere": what the operator looks at
    context,     \* the instrument and timeframe of the workspace
    draft,       \* the text in the box
    generating,  \* the flag that disables save, provider and approval
    writer,      \* the generation that owns the request number and the abort
                 \* controller; 0 when no one does
    gens,        \* the generations whose request has not returned
    provider,    \* the provider chosen
    configured,  \* the providers the registry reported as configured
    registry,    \* a read of the registry is on its way
    approved,    \* the operator allowed the next request to leave the machine
    loads,       \* reads of the stored note on their way, by the move they follow
    saving,      \* the flag of the save button
    save,        \* the save on its way, or None
    notes,       \* the notes the core stores
    moves, edits, generations, saves,  \* counters of the bounds
    granted,     \* history: the context the approval was given in
    left         \* history: generations the operator walked away from half way

vars == <<area, context, draft, generating, writer, gens, provider, configured,
          registry, approved, loads, saving, save, notes, moves, edits,
          generations, saves, granted, left>>

lane == <<generating, writer, gens>>
choice == <<provider, configured, registry, approved, granted>>
place == <<area, context, moves>>
storage == <<loads, saving, save, notes, saves>>

Stage == {"asked", "drafting", "reset", "filling"}

(* Reads and saves of the note on their way *)
Load == [of : Context, read : BOOLEAN, text : Text]
Saving == [of : Context, text : Text, stored : BOOLEAN]

(* None stands for "no save". *)
ASSUME NoneAssumption == None \notin Saving

(* The variables have the values the editor can hold. *)
TypeOK ==
    /\ area \in {"research", "elsewhere"}
    /\ context \in Context
    /\ draft \in Text
    /\ generating \in BOOLEAN
    /\ writer \in 0 .. MaxGenerations
    /\ DOMAIN gens \subseteq Generation
    /\ \A g \in DOMAIN gens :
           gens[g] \in [of : Context, before : Text, provider : Provider,
                        stage : Stage, fresh : BOOLEAN, aborted : BOOLEAN]
    /\ provider \in configured \cup {"local"}
    /\ configured \subseteq External
    /\ registry \in BOOLEAN
    /\ approved \in BOOLEAN
    /\ DOMAIN loads \subseteq 0 .. MaxMoves
    /\ \A m \in DOMAIN loads : loads[m] \in Load
    /\ saving \in BOOLEAN
    /\ save \in {None} \cup Saving
    /\ notes \in [Context -> Text]
    /\ moves \in 0 .. MaxMoves
    /\ edits \in 0 .. MaxEdits
    /\ generations \in 0 .. MaxGenerations
    /\ saves \in 0 .. MaxSaves
    /\ granted \in Context \cup {None}
    /\ left \subseteq Generation

(* The bound on what the operator does *)
MayAct(count, bound) ==
    /\ count < bound
    /\ moves + edits + generations + saves < MaxActs

Asked(c) == [of |-> c, read |-> FALSE, text |-> Empty]

Without(f, x) == [y \in DOMAIN f \ {x} |-> f[y]]

Init ==
    /\ area = "research"
    /\ context = Start
    /\ draft = Empty
    /\ generating = FALSE
    /\ writer = 0
    /\ gens = [g \in {} |-> None]
    /\ provider = "local"
    /\ configured = {}
    /\ registry = TRUE
    /\ approved = FALSE
    /\ loads = [m \in {0} |-> Asked(Start)]
    /\ saving = FALSE
    /\ save = None
    /\ notes = [c \in Context |-> Empty]
    /\ moves = 0 /\ edits = 0 /\ generations = 0 /\ saves = 0
    /\ granted = None
    /\ left = {}

(***************************************************************************)
(* What replaces the text from outside the stream also raises the version  *)
(* of the draft, so that no generation asked before recognizes it.         *)
(***************************************************************************)
Outdated(running) == [g \in DOMAIN running |-> [running[g] EXCEPT !.fresh = FALSE]]

UpdateDraft(text) ==
    /\ draft' = text
    /\ gens' = Outdated(gens)

(* The generations after the controller that is held has been aborted *)
Aborted == [g \in DOMAIN gens |->
                [gens[g] EXCEPT !.aborted = @ \/ g = writer]]

(* Only the flag is taken back, and the number stays with the generation. *)
StopFlag ==
    /\ writer' = writer
    /\ generating' = FALSE

StopWriting ==
    /\ writer' = 0
    /\ generating' = FALSE

(* isResearchNoteDraftStreamCurrent, and its form without the draft version *)
SameRequest(g) ==
    /\ ~gens[g].aborted
    /\ writer = g
    /\ gens[g].of = context

IsCurrent(g) == SameRequest(g) /\ gens[g].fresh

(* The approval is for one request in one context. *)
ApprovalKept == UNCHANGED <<approved, granted>>

ApprovalTakenBack ==
    /\ approved' = FALSE
    /\ granted' = None

----------------------------------------------------------------------------
(* The operator changes the instrument or the timeframe, or the area.      *)

(***************************************************************************)
(* What the effect on area and context does: the generation is aborted and *)
(* disowned, the approval is taken back, and the registry is read again in *)
(* the areas that have a provider menu.                                    *)
(***************************************************************************)
RestartEditor ==
    /\ MayAct(moves, MaxMoves)
    /\ moves' = moves + 1
    /\ gens' = Aborted
    /\ StopWriting
    /\ ApprovalTakenBack
    /\ registry' = (area' = "research")
    /\ left' = IF generating /\ draft.kind = "half" THEN left \cup {draft.no} ELSE left
    /\ UNCHANGED <<draft, provider, configured, saving, save, notes, edits,
                   generations, saves>>

SelectContext(c) ==
    /\ c # context
    /\ context' = c
    /\ UNCHANGED area
    /\ RestartEditor
    /\ loads' = [m \in DOMAIN loads \cup {moves'} |->
                     IF m = moves' THEN Asked(c) ELSE loads[m]]

SelectArea(a) ==
    /\ a # area
    /\ area' = a
    /\ UNCHANGED <<context, loads>>
    /\ RestartEditor

(* An answer that left the choice alone *)
RegistryAnsweredOnly(answer) ==
    /\ registry
    /\ registry' = FALSE
    /\ configured' = answer
    /\ UNCHANGED <<place, draft, lane, storage, provider, approved, granted,
                   edits, generations, left>>

(* The registry answers with the configured providers; the first external  *)
(* one becomes the choice, whatever the operator chose and approved before.*)
RegistryAnswered(answer) ==
    /\ registry
    /\ registry' = FALSE
    /\ configured' = answer
    /\ \/ answer = {} /\ provider' = "local"
       \/ provider' \in answer
    /\ UNCHANGED <<place, draft, lane, storage, approved, granted, edits,
                   generations, left>>

SelectProvider(p) ==
    /\ area = "research"
    /\ p \in configured \cup {"local"}
    /\ p # provider
    /\ ~generating
    /\ provider' = p
    /\ ApprovalTakenBack
    /\ writer' = 0
    /\ UNCHANGED <<place, draft, generating, gens, configured, registry,
                   storage, edits, generations, left>>

Approve(yes) ==
    /\ area = "research"
    /\ provider # "local"
    /\ ~generating
    /\ approved' = yes
    /\ granted' = IF yes THEN context ELSE None
    /\ UNCHANGED <<place, draft, lane, provider, configured, registry, storage,
                   edits, generations, left>>

----------------------------------------------------------------------------
(* The operator types.  A text typed into the stream ends it.              *)

Edit(text) ==
    /\ area = "research"
    /\ MayAct(edits, MaxEdits)
    /\ edits' = edits + 1
    /\ text \in {Empty, [kind |-> "typed", of |-> context, no |-> edits']}
    /\ draft' = text
    /\ gens' = Outdated(Aborted)
    /\ StopWriting
    /\ UNCHANGED <<place, choice, storage, generations, left>>

----------------------------------------------------------------------------
(* A draft is asked for and streamed.                                      *)

MayGenerate ==
    /\ area = "research"
    /\ ~generating
    /\ provider # "local" => approved

Generate ==
    /\ MayGenerate
    /\ MayAct(generations, MaxGenerations)
    /\ generations' = generations + 1
    /\ writer' = generations'
    /\ generating' = TRUE
    /\ gens' = [g \in DOMAIN gens \cup {generations'} |->
                    IF g # generations' THEN Aborted[g]
                    ELSE [of |-> context, before |-> draft, provider |-> provider,
                          stage |-> "asked", fresh |-> TRUE, aborted |-> FALSE]]
    /\ approved' = (approved /\ provider = "local")
    /\ granted' = IF approved' THEN granted ELSE None
    /\ UNCHANGED <<place, draft, provider, configured, registry, storage, edits, left>>

(* The body of generation g that reached the box so far, and the whole of it *)
HalfText(g) == [kind |-> "half", of |-> gens[g].of, no |-> g]
WholeText(g) == [kind |-> "whole", of |-> gens[g].of, no |-> g]

(***************************************************************************)
(* One event of the stream is read: it moves the stream on, and the text   *)
(* is shown if the request still is the current one; otherwise the request *)
(* is aborted, and its next read fails.                                    *)
(***************************************************************************)
Streams(g, stage, text) ==
    /\ ~gens[g].aborted
    /\ gens' = [gens EXCEPT ![g].stage = stage, ![g].aborted = ~IsCurrent(g)]
    /\ draft' = IF IsCurrent(g) THEN text ELSE draft
    /\ UNCHANGED <<place, writer, generating, choice, storage, edits,
                   generations, left>>

StreamDraft(g) ==
    /\ gens[g].provider # "local"
    /\ gens[g].stage \in {"asked", "drafting"}
    /\ Streams(g, "drafting", HalfText(g))

StreamReset(g) ==
    /\ gens[g].stage = "drafting"
    /\ Streams(g, "reset", gens[g].before)

(* The local text, asked for or fallen back to; a fallback never covers a  *)
(* text the operator had.                                                  *)
StreamDelta(g) ==
    /\ gens[g].stage \in {"reset", "filling"} \cup {"asked"}
    /\ Streams(g, "filling",
               IF gens[g].provider # "local" /\ gens[g].before # Empty
               THEN draft
               ELSE HalfText(g))

(* Whether the editor is freed by the return of generation g *)
OwnsCurrent(g) == IsCurrent(g)

Owns(g) == writer = g

(***************************************************************************)
(* The request returns.  A request that lost its number leaves everything  *)
(* alone; one that is no longer current only frees the editor.             *)
(***************************************************************************)
Returns(g, text) ==
    /\ gens' = Without(gens, g)
    /\ IF Owns(g)
       THEN /\ StopWriting
            /\ draft' = IF IsCurrent(g) THEN text ELSE draft
       ELSE UNCHANGED <<writer, generating, draft>>
    /\ UNCHANGED <<place, choice, storage, edits, generations, left>>

(* A failure that leaves in the box what arrived *)
WhatArrived(g) == draft

(* The text at the end of a generation, by its outcome *)
AfterFailure(g) == gens[g].before

AfterFallback(g) == IF gens[g].before = Empty THEN WholeText(g) ELSE gens[g].before

GenerationCompletes(g) ==
    /\ ~gens[g].aborted
    /\ \/ gens[g].stage = "drafting" /\ Returns(g, WholeText(g))
       \/ /\ gens[g].stage = "filling"
          /\ gens[g].provider = "local"
          /\ Returns(g, WholeText(g))
       \/ /\ gens[g].stage = "filling"
          /\ gens[g].provider # "local"
          /\ Returns(g, AfterFallback(g))

(* The connection is cut, an event is out of order, the core reports an    *)
(* error, or the request was aborted.                                      *)
GenerationFails(g) == Returns(g, AfterFailure(g))

----------------------------------------------------------------------------
(* The stored note is read and saved.                                      *)

LoadServed(m) ==
    /\ ~loads[m].read
    /\ \E text \in {notes[loads[m].of], Empty} :
           loads' = [loads EXCEPT ![m].read = TRUE, ![m].text = text]
    /\ UNCHANGED <<place, draft, lane, choice, saving, save, notes, saves, edits,
                   generations, left>>

(* What was read replaces the text, even nothing (no note, or the read      *)
(* failed), and for whichever context it was asked.                         *)
LoadAnswered(m) ==
    /\ loads[m].read
    /\ UpdateDraft(loads[m].text)
    /\ loads' = Without(loads, m)
    /\ UNCHANGED <<place, writer, generating, choice, saving, save, notes, saves,
                   edits, generations, left>>

MaySave ==
    /\ area = "research"
    /\ ~generating
    /\ ~saving
    /\ draft # Empty

Save ==
    /\ MaySave
    /\ MayAct(saves, MaxSaves)
    /\ saves' = saves + 1
    /\ saving' = TRUE
    /\ save' = [of |-> context, text |-> draft, stored |-> FALSE]
    /\ UNCHANGED <<place, draft, lane, choice, loads, notes, edits, generations, left>>

SaveServed ==
    /\ save # None
    /\ ~save.stored
    /\ save' = [save EXCEPT !.stored = TRUE]
    /\ notes' = [notes EXCEPT ![save.of] = save.text]
    /\ UNCHANGED <<place, draft, lane, choice, loads, saving, saves, edits,
                   generations, left>>

(* The stored body replaces the text; a refusal or a lost answer does not. *)
SaveReturned ==
    /\ save # None
    /\ \/ save.stored /\ UpdateDraft(save.text)
       \/ UNCHANGED <<draft, gens>>
    /\ saving' = FALSE
    /\ save' = None
    /\ UNCHANGED <<place, writer, generating, choice, loads, notes, saves, edits,
                   generations, left>>

----------------------------------------------------------------------------
Operator ==
    \/ \E c \in Context : SelectContext(c)
    \/ \E a \in {"research", "elsewhere"} : SelectArea(a)
    \/ \E p \in Provider : SelectProvider(p)
    \/ \E yes \in BOOLEAN : Approve(yes)
    \/ \E text \in Text : Edit(text)
    \/ Generate
    \/ Save

Stream ==
    \E g \in DOMAIN gens :
        \/ StreamDraft(g)
        \/ StreamReset(g)
        \/ StreamDelta(g)
        \/ GenerationCompletes(g)
        \/ GenerationFails(g)

Answers ==
    \/ Stream
    \/ \E answer \in SUBSET External : RegistryAnswered(answer)
    \/ \E m \in DOMAIN loads : LoadServed(m) \/ LoadAnswered(m)
    \/ SaveServed
    \/ SaveReturned

Next == Operator \/ Answers

Spec == Init /\ [][Next]_vars

(* Every request is answered or fails in the end; the operator may stop. *)
FairSpec == Spec /\ WF_vars(Answers)

----------------------------------------------------------------------------
(***************************************************************************)
(* An unfinished draft is in the box only while the generation that writes *)
(* it is under way: every way a stream ends (completed, cut, out of order, *)
(* reset, fallen back, overtaken by a read of the stored note) puts a      *)
(* finished text or the operator's own text there.  The exception is a     *)
(* generation the operator walked away from: see the documentation.        *)
(***************************************************************************)
HalfOnlyWhileWriting ==
    draft.kind = "half" => \/ generating /\ writer = draft.no
                           \/ draft.no \in left

(* design-qa.md:92 says of these streams that no change of the context, no *)
(* edit and no broken stream leaves a half text that can be saved.         *)
NoSavableHalf == draft.kind = "half" => ~MaySave

(***************************************************************************)
(* The flags that disable the controls and what they stand for agree: the  *)
(* editor is generating exactly when the owner of the request number is    *)
(* under way, every other request under way was aborted, and the save      *)
(* button waits exactly for a save.                                        *)
(***************************************************************************)
FlagsMatchRequests ==
    /\ generating <=> writer # 0
    /\ writer # 0 => writer \in DOMAIN gens
    /\ \A g \in DOMAIN gens : g # writer => gens[g].aborted
    /\ saving <=> save # None

(* An approval that is set was given by the operator in this very context, *)
(* and no request left the machine under it since.                         *)
ApprovalGivenHere == approved => granted = context

(***************************************************************************)
(* A stream changes the box only in the context it was asked for, and only *)
(* while the box holds what it held then or the stream's own text: nothing *)
(* typed, loaded or saved in the meantime is overwritten.                  *)
(***************************************************************************)
StreamKeepsOthersText ==
    [][\A g \in DOMAIN gens :
           (StreamDraft(g) \/ StreamReset(g) \/ StreamDelta(g)
               \/ GenerationCompletes(g) \/ GenerationFails(g))
             => \/ draft' = draft
                \/ /\ gens[g].of = context
                   /\ draft \in {gens[g].before, HalfText(g)}]_vars

(* The editor becomes free again: a generation and a save both end. *)
EditorBecomesFree == (generating ~> ~generating) /\ (saving ~> ~saving)
=============================================================================
