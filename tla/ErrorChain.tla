----------------------------- MODULE ErrorChain -----------------------------
(***************************************************************************)
(* Error values (Error.h).  An error holds frames, one per message added as  *)
(* it travels up, and one severity for all of them; Chain makes it the cause *)
(* of a new error.  An error that is reported is taken apart into its chain, *)
(* from the root cause on, and each link is formatted (ErrorFormat.cxx).     *)
(*                                                                          *)
(* A frame is a number, the order of its making, and whether it is for       *)
(* debugging.  cause is the sequence of links behind an error, nearest first.*)
(***************************************************************************)
EXTENDS Naturals, SequencesExt

CONSTANT MaxFrames  \* bound: frames made

ASSUME FrameAssumption == MaxFrames \in Nat

Severities == {"Warning", "Error", "Fatal"}

VARIABLES err,   \* the error a function holds or returns
          made,  \* what was said of it: each frame, its severity, and what it did
          shown  \* what a report of it has put out, link by link

errVars == <<err, made, shown>>

\* Error().
EmptyError == [severity |-> "Error", frames |-> <<>>, cause |-> <<>>]

ErrInit ==
    /\ err = EmptyError
    /\ made = <<>>
    /\ shown = <<>>

Frame(debug) == [id |-> Len(made) + 1, debug |-> debug]

\* The severity of an error never comes down from fatal.
Worse(old, new) == IF old = "Fatal" THEN old ELSE new

Make(frame, severity) ==
    [severity |-> severity, frames |-> <<frame>>, cause |-> <<>>]

Add(e, frame, severity) ==
    [e EXCEPT !.severity = Worse(@, severity), !.frames = Append(@, frame)]

Link(e) == [severity |-> e.severity, frames |-> e.frames]

\* Mutant: of a chain only its latest link is kept.
Chain_Nearest(e, frame, severity) ==
    IF e.frames = <<>> THEN Add(e, frame, severity)
    ELSE [Make(frame, severity) EXCEPT !.cause = <<Link(e)>>]

\* An error without frames is added to and not chained.
Chain(e, frame, severity) ==
    IF e.frames = <<>> THEN Add(e, frame, severity)
    ELSE [Make(frame, severity) EXCEPT !.cause = <<Link(e)>> \o e.cause]

\* Error::GetChain: the root cause first.
GetChain(e) == Reverse(<<Link(e)>> \o e.cause)

\* UserErrorFormatter::Format: the last frame, then the others back to the
\* first, those for debugging only when verbose.
Format(link, verbose) ==
    LET n == Len(link.frames)
        text[k \in 0 .. n] ==
            IF k = 0 THEN <<>>
            ELSE IF k = 1 \/ verbose \/ ~ link.frames[n + 1 - k].debug
            THEN Append(text[k - 1], link.frames[n + 1 - k])
            ELSE text[k - 1]
    IN  text[n]

-----------------------------------------------------------------------------
Say(how, frame, severity) ==
    /\ shown = <<>>
    /\ Len(made) < MaxFrames
    /\ made' = Append(made, [frame |-> frame, severity |-> severity, how |-> how])
    /\ UNCHANGED shown

\* An error is made with its first frame, or without one.
NewError(severity, debug) ==
    /\ made = <<>>
    /\ Say("add", Frame(debug), severity)
    /\ err' = Make(Frame(debug), severity)

\* Add with a message, or with another error, which has one frame and no cause
\* wherever the program adds one.
AddFrame(severity, debug) ==
    /\ Say("add", Frame(debug), severity)
    /\ err' = Add(err, Frame(debug), severity)

ChainFrame(severity, debug) ==
    /\ Say("chain", Frame(debug), severity)
    /\ err' = Chain(err, Frame(debug), severity)

\* ErrorOutput::Report; dispatchFail chains "operation failed" before.
Report(verbose) ==
    /\ shown = <<>>
    /\ made # <<>>
    /\ shown' = [i \in DOMAIN GetChain(err) |->
                    [severity |-> GetChain(err)[i].severity,
                     text     |-> Format(GetChain(err)[i], verbose)]]
    /\ UNCHANGED <<err, made>>

ErrNext ==
    \/ \E s \in Severities, debug \in BOOLEAN :
           NewError(s, debug) \/ AddFrame(s, debug) \/ ChainFrame(s, debug)
    \/ \E verbose \in BOOLEAN : Report(verbose)

ErrSpec == ErrInit /\ [][ErrNext]_errVars

-----------------------------------------------------------------------------
\* The link a frame belongs to: as many as there were chains up to it, the first
\* frame's aside.
LinkOf(n) == 1 + Cardinality({i \in 2 .. n : made[i].how = "chain"})

\* A report leaves out nothing that was said, whatever was added or chained on
\* the way: link by link from the root cause, it shows every frame once, the
\* latest of a link first; only frames for debugging that are not the latest
\* may be missing.  A link is fatal if anything said of it was, and otherwise
\* as severe as what was said last.
ReportTellsAll ==
    shown # <<>> =>
        /\ Len(shown) = LinkOf(Len(made))
        /\ \A n \in DOMAIN shown :
               LET mine == {i \in DOMAIN made : LinkOf(i) = n}
                   ids  == [i \in DOMAIN shown[n].text |-> shown[n].text[i].id]
               IN  /\ \A i, j \in DOMAIN ids : i < j => ids[i] > ids[j]
                   /\ ToSet(ids) \subseteq mine
                   /\ \A i \in mine \ ToSet(ids) : made[i].frame.debug /\ i # Max(mine)
                   /\ shown[n].severity = IF \E i \in mine : made[i].severity = "Fatal"
                                          THEN "Fatal" ELSE made[Max(mine)].severity

=============================================================================
