--------------------------- MODULE SpeakerResolver ---------------------------
(***************************************************************************)
(* MeetSpeakerResolver: who said it?  The page's active speaker (the DOM)  *)
(* is authoritative but may be late or flicker, the transcriber's label is *)
(* steady but anonymous; the resolver learns which participant a label     *)
(* stands for.  Timestamps are abstracted to what is done with them: a     *)
(* line either falls in the correlation window of the last DOM speaker or  *)
(* it does not.  A speaker is an id with a display name.  The              *)
(* conversation bridge asks once per final line; the message it then       *)
(* inserts goes to the host and changes nothing here.                      *)
(***************************************************************************)
EXTENDS Integers, Sequences

CONSTANTS
    Labels,
    MappingReplaceThreshold   \* MAPPING_REPLACE_THRESHOLD

VARIABLES
    activeSpeaker,
    labelMappings,
    correlated     \* history: per label the speakers the page named for its last
                   \* MappingReplaceThreshold correlated lines

resolverVars == <<activeSpeaker, labelMappings, correlated>>

Unknown == [id |-> "nobody"]
NoMapping == [who |-> Unknown, disagreements |-> 0, challenger |-> "nobody"]

Init ==
    /\ activeSpeaker = Unknown
    /\ labelMappings = [label \in Labels |-> NoMapping]
    /\ correlated = [label \in Labels |-> <<>>]

OnSpeakerChange(speaker) ==
    /\ activeSpeaker' = speaker
    /\ UNCHANGED <<labelMappings, correlated>>

Bind(who) == [NoMapping EXCEPT !.who = who]

Agreed(mapping) == Bind(mapping.who)

SameAsMapped(mapping, who) == mapping.who = who

\* mutant: one line too soon
ChallengedTooSoon(mapping, who) ==
    LET streak == IF mapping.challenger = who.id THEN mapping.disagreements + 1 ELSE 1
    IN  IF streak + 1 >= MappingReplaceThreshold
        THEN Bind(who)
        ELSE [mapping EXCEPT !.disagreements = streak, !.challenger = who.id]
\* One more in a row for the same challenger, by id; another one starts anew.
Challenged(mapping, who) ==
    LET streak == IF mapping.challenger = who.id THEN mapping.disagreements + 1 ELSE 1
    IN  IF streak >= MappingReplaceThreshold
        THEN Bind(who)
        ELSE [mapping EXCEPT !.disagreements = streak, !.challenger = who.id]

ResolveWithLabelAndDom(label) ==
    LET existing == labelMappings[label]
        who == activeSpeaker
        heard == Append(correlated[label], who)
    IN  /\ labelMappings' = [labelMappings EXCEPT ![label] =
              IF existing = NoMapping THEN Bind(who)
              ELSE IF SameAsMapped(existing, who) THEN Agreed(existing)
              ELSE Challenged(existing, who)]
        /\ correlated' = [correlated EXCEPT ![label] =
              IF Len(heard) > MappingReplaceThreshold THEN Tail(heard) ELSE heard]

\* Without a last speaker, or with one of another time, nothing correlates.
CorrelatedActiveSpeaker(inWindow) == inWindow /\ activeSpeaker # Unknown

\* resolve() for a final line: only a correlated line teaches anything.
HandleFinalTranscript(label, inWindow) ==
    /\ IF CorrelatedActiveSpeaker(inWindow)
       THEN ResolveWithLabelAndDom(label)
       ELSE UNCHANGED <<labelMappings, correlated>>
    /\ UNCHANGED activeSpeaker

Idle == UNCHANGED resolverVars
------------------------------------------------------------------------------
\* A label changes hands only after MAPPING_REPLACE_THRESHOLD correlated
\* lines in a row spoke for the newcomer: "random flicker from multiple
\* speakers should not accumulate toward a mapping replacement".
BindingIsEarned ==
    [][\A label \in Labels :
          LET old == labelMappings[label]
              new == labelMappings'[label]
              heard == correlated'[label]
          IN  old # NoMapping /\ new.who # old.who =>
                  /\ Len(heard) = MappingReplaceThreshold
                  /\ \A k \in DOMAIN heard :
                         heard[k].id = new.who.id /\ heard[k] # old.who
      ]_resolverVars
==============================================================================
