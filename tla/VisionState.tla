---------------------------- MODULE VisionState ----------------------------
(***************************************************************************)
(* language/context/vision_state.py with shared/schemas/vision.py: what    *)
(* VisionState keeps of a vision_update.  A payload that fits the pydantic *)
(* model is taken as it is; any other is read object by object, as far as  *)
(* it goes.                                                                *)
(*                                                                         *)
(* A payload is described by what the two paths look at.  `_warned_labels` *)
(* only decides what is logged and is left out.                            *)
(***************************************************************************)
EXTENDS Sequences

CONSTANTS Labels,      \* label texts
          Missing      \* a field that is not there

\* A field that is not there has none of the values.
ASSUME MissingAssumption ==
    Missing \notin Labels \cup {"number", "word", "integers", "fractions", "words",
                                "infinite", "no pair"}

VARIABLE objects       \* _objects: the detected objects, in order

\* The values of center_pixel: a pair of integers, of numbers with a fraction,
\* of something else that is no number; a pair with Infinity, which JSON as
\* Python reads it may hold; not a pair
Centers == {"integers", "fractions", "words", "infinite", "no pair", Missing}
Confidences == {"number", "word", Missing}

\* dict: the entry is an object. rest: the fields that only the schema asks
\* for (id, bbox_xyxy, the types of the optional ones) are as it asks. The
\* label is a text, something else ("number") or missing.
Entries ==
    [dict : BOOLEAN, rest : BOOLEAN, label : Labels \cup {"number", Missing},
     center : Centers, confidence : Confidences]

\* A payload: whether it is an object, whether frame_id and timestamp are as
\* the schema asks, what `objects` is, and its entries if it is a list
Payloads(lists) ==
    {data \in [dict : BOOLEAN, header : BOOLEAN, field : {"list", "no list", Missing},
               list : lists] : (data.dict /\ data.field = "list") \/ data.list = <<>>}

\* DetectedObject; positions are not told apart
Detected(entry) == [label |-> entry.label, confidence |-> entry.confidence]

\* The objects of the entries at some of the list's indices, in its order
DetectedAt(list, indices) ==
    LET Chosen(i) == i \in indices
        order == SelectSeq([i \in DOMAIN list |-> i], Chosen)
    IN [k \in DOMAIN order |-> Detected(list[order[k]])]

-----------------------------------------------------------------------------
\* VisionObject: labels are texts, coordinates whole numbers
Typed(entry) ==
    /\ entry.dict /\ entry.rest
    /\ entry.label \in Labels
    /\ entry.center \in {"integers", "no pair"}
    /\ entry.confidence = "number"

\* VisionUpdate.model_validate
Valid(data) ==
    /\ data.dict /\ data.header
    /\ data.field # "no list"
    /\ \A i \in DOMAIN data.list : Typed(data.list[i])

\* if len(obj.center_pixel) != 2: continue
HasPair(entry) == entry.center # "no pair"

\* The fields best-effort parsing cannot do without are there, and
\* center_pixel is a pair.
Readable(entry) ==
    /\ entry.dict
    /\ Missing \notin {entry.label, entry.center, entry.confidence}
    /\ HasPair(entry)

\* int() or float() raises TypeError or ValueError, which is caught
Unconvertible(entry) == entry.center = "words" \/ entry.confidence = "word"

\* int(Infinity) raises OverflowError, which is not
Overflows(entry) == Readable(entry) /\ entry.center = "infinite"

\* _update_from_dict: does an exception leave it, data.get's included?
Raises(data) ==
    ~Valid(data) /\ (~data.dict \/ \E i \in DOMAIN data.list : Overflows(data.list[i]))

\* Fault: only entries the schema accepts are kept.
KeepsTyped(entry) == Typed(entry) /\ HasPair(entry)

Keeps(entry) == Readable(entry) /\ ~Unconvertible(entry)

\* The entries that the path taken for the payload keeps
Kept(data) ==
    {i \in DOMAIN data.list : IF Valid(data) THEN HasPair(data.list[i]) ELSE Keeps(data.list[i])}

\* What update() leaves in _objects, given what was there
Updated(old, data) == IF Raises(data) THEN old ELSE DetectedAt(data.list, Kept(data))

\* update()
Update(data) == objects' = Updated(objects, data)

-----------------------------------------------------------------------------
\* What the docstring promises to keep, whichever path reads it: the objects
\* with a label, a position of two numbers and a confidence.
WellFormed(entry) ==
    /\ entry.dict /\ entry.label # Missing
    /\ entry.center \in {"integers", "fractions"}
    /\ entry.confidence = "number"

Promised(data) == DetectedAt(data.list, {i \in DOMAIN data.list : WellFormed(data.list[i])})
=============================================================================
