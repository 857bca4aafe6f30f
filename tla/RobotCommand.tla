---------------------------- MODULE RobotCommand ----------------------------
(***************************************************************************)
(* shared/schemas/command.py: RobotCommand with its validator, which       *)
(* refuses, normalises and completes a command, and move_command_key.      *)
(*                                                                         *)
(* A field of a command is a text: Nil, or something the program does not  *)
(* look into. "none" is the text that stands for nothing, Blank any text   *)
(* of white space only, the empty one included.                            *)
(***************************************************************************)
CONSTANTS
    Blank,         \* white space or nothing
    Names,         \* the other texts of target, destination and direction
    KnownLabels,   \* those of them that are COCO_LABELS; the code never looks
    Sentences,     \* the other texts of instruction
    NotText        \* a JSON value that is no text

ASSUME SentencesAssumption == Blank \notin Sentences /\ KnownLabels \subseteq Names

Actions == {"pick", "place", "pick_and_place", "move", "home", "stop", "trash_gather"}

NameTexts == {"none", Blank} \cup Names

Commands ==
    [action : Actions, target : NameTexts, destination : NameTexts, direction : NameTexts,
     instruction : Sentences \cup {Blank}]

\* The fields an action cannot do without
Needed(action) ==
    {field \in {"target", "destination", "direction"} :
        \/ field = "target" /\ action \in {"pick", "place", "pick_and_place", "move"}
        \/ field = "destination" /\ action \in {"place", "pick_and_place"}
        \/ field = "direction" /\ action = "move"}

\* the ValueErrors of validate_action_fields
Refused(c) == \E field \in Needed(c.action) : c[field] = "none"

\* Fault: a stop keeps the target it was given.
StopKeepsTarget(c) == [c EXCEPT !.direction = IF c.action = "move" THEN @ ELSE "none"]

\* home and stop have no objects, only move has a direction
Normalised(c) ==
    LET still == c.action \in {"home", "stop"} IN
    [c EXCEPT !.target = IF still THEN "none" ELSE @,
              !.destination = IF still THEN "none" ELSE @,
              !.direction = IF c.action = "move" THEN @ ELSE "none"]

\* _derive_instruction: the fields each phrase mentions
Derive(c) ==
    [says |-> c.action,
     fields |-> [field \in Needed(c.action) |-> c[field]]]

\* None of the phrases is blank.
ASSUME PhraseAssumption == \A c \in Commands : Derive(c) # Blank

CompleteInstruction(c) == IF c.instruction = Blank THEN Derive(c) ELSE c.instruction

\* RobotCommand(...), for a command that is not refused
Validated(c) ==
    LET n == Normalised(c) IN [n EXCEPT !.instruction = CompleteInstruction(n)]

\* move_command_key: the key, or no key
CommandKey(c) == IF c.action = "move" THEN <<c.target, c.direction>> ELSE <<>>

-----------------------------------------------------------------------------
\* What makes a command valid: rules 1 to 4 of docs/command_schema.md (98-106),
\* direction and instruction by the class comment of RobotCommand.
WellFormedCommand(c) ==
    /\ c.action \in {"pick", "place", "pick_and_place", "move"} => c.target # "none"
    /\ c.action \in {"place", "pick_and_place"} => c.destination # "none"
    /\ c.action \in {"home", "stop"} => c.target = "none" /\ c.destination = "none"
    /\ c.action = "move" <=> c.direction # "none"
    /\ c.instruction # Blank

\* The document's label rule (6, 82-83): a target or destination is a known label
\* or "none".
KnownLabel(text) == text \in KnownLabels \cup {"none"}
=============================================================================
