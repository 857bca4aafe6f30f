----------------------------- MODULE MCDialogue -----------------------------
(***************************************************************************)
(* The exchanges TLC looks at: each varies some inputs over all their      *)
(* classes while the others are plain.                                     *)
(***************************************************************************)
EXTENDS Dialogue, TLC

CONSTANTS Cup, Odd     \* labels

MCUpper == "S" :> "s"
MCStopDefault == << <<"s">> >>
MCTrashDefault == << <<"t", "t">>, <<"S", "t">> >>

SequencesUpTo(n, S) == UNION {[1..k -> S] : k \in 0..n}

PlainEntry == [dict |-> TRUE, rest |-> TRUE, label |-> Cup, center |-> "integers",
               confidence |-> "number"]
PlainFrame == [dict |-> TRUE, header |-> TRUE, field |-> "list", list |-> <<PlainEntry>>]
PlainFields == [action |-> "home", target |-> "none", destination |-> "none",
                direction |-> "none", instruction |-> Blank, reasoning |-> "text"]
PlainReply == [fences |-> "none", json |-> "object", answer |-> "text", command |-> Null]
PlainConfig == [stop |-> << <<>> >>, trash |-> << <<>> >>, key |-> TRUE, coordinator |-> FALSE,
                publisher |-> TRUE]
Chat == <<" ">>
Trash == <<"t", "t">>
Case(config, frames, text, reply) ==
    [config |-> config, frames |-> frames, text |-> text, reply |-> reply]

\* After a plain frame, every list of no or one entry, and every entry before
\* and after a plain one and an odd one that only best-effort parsing keeps
Untyped == [PlainEntry EXCEPT !.rest = FALSE, !.label = Odd, !.center = "fractions"]
FrameCases ==
    LET lists == {<<>>} \cup {<<e>> : e \in Entries}
                     \cup {<<PlainEntry, e, Untyped>> : e \in Entries}
                     \cup {<<e, PlainEntry>> : e \in Entries}
    IN {Case(PlainConfig, <<PlainFrame, frame>>, Chat, PlainReply) : frame \in Payloads(lists)}

\* Every command, and the classes of replies, to a text without intent and to a
\* trigger
ReplyCases ==
    LET plain == [fences : {"none"}, json : {"object"}, answer : {"text"},
                  command : CommandFields]
        classes == [fences : {"none", "around", "within"}, json : {"broken", "value", "object"},
                    answer : {"text", "empty", NotText, NotObject, Absent},
                    command : {PlainFields, Null, NotObject}]
    IN {Case(PlainConfig, <<PlainFrame>>, Chat, r) : r \in plain}
          \cup {Case(PlainConfig, <<PlainFrame>>, text, r) : text \in {Chat, Trash}, r \in classes}

\* Every way to write the keywords, with every short text
Pieces == {<<>>, <<" ">>, <<" ", "S">>, <<"t">>, <<"t", "s", " ">>}
TextCases ==
    LET texts == SequencesUpTo(3, {"s", "S", "t", " "})
        variables == SequencesUpTo(2, Pieces) \ {<<>>}
    IN {Case([PlainConfig EXCEPT !.stop = pieces], <<PlainFrame>>, text, PlainReply) :
            pieces \in variables, text \in texts}
       \cup {Case([PlainConfig EXCEPT !.trash = pieces], <<PlainFrame>>, text, PlainReply) :
            pieces \in variables, text \in texts}

\* Configurations that are refused, or have no publisher
ConfigCases ==
    {Case(config, <<PlainFrame>>, text, PlainReply) :
        config \in [stop : {<< <<>> >>}, trash : {<< <<>> >>}, key : BOOLEAN,
                    coordinator : BOOLEAN, publisher : BOOLEAN],
        text \in {Chat, Trash, <<"s">>}}

MCCases == FrameCases \cup ReplyCases \cup TextCases \cup ConfigCases
=============================================================================
