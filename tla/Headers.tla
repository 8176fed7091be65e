------------------------------ MODULE Headers ------------------------------
(***************************************************************************)
(* The headers of one message at its end.  The children edit the list that *)
(* the children object keeps (milter-headers.c, cb_add_header,             *)
(* cb_insert_header, cb_change_header, cb_delete_header of                 *)
(* milter-manager-children.c).  When the last of them is done              *)
(* emit_header_signals compares the edited list with the one the MTA sent  *)
(* and tells the MTA, edit by edit, how to get from one to the other.      *)
(* The MTA is external: it applies an edit to the list it has, and counts  *)
(* the headers of a name whatever the case of their letters.               *)
(***************************************************************************)
EXTENDS Integers, Sequences, FiniteSets, SequencesExt

CONSTANTS Names,     \* names of headers
          Folded,    \* [Names -> names], one for all spellings of a name
          Texts,     \* values, without a leading space
          Originals, \* the lists of headers a message may come with
          MaxEdits   \* bound: edits of all children

\* A value may begin with a space.
Header == [name : Names, value : [space : BOOLEAN, text : Texts]]

ASSUME HeadersAssumption == /\ Folded \in [Names -> Names]
                            /\ \A list \in Originals : list \in Seq(Header)
                            /\ MaxEdits \in Nat

VARIABLES original, \* priv->original_headers
          headers,  \* priv->headers
          edits,    \* edits asked for so far
          phase,    \* "edit", then "emit" during emit_header_signals, then "done"
          left,     \* processing_headers: the headers of the MTA that no edited
                    \* header stands for yet
          next,     \* node: the edited header to be compared next
          mta       \* the headers of the MTA

vars == <<original, headers, edits, phase, left, next, mta>>
-----------------------------------------------------------------------------
(* milter-headers.c.  Positions are 0 when there is none. *)

\* milter_headers_find and milter_headers_lookup_by_name.
Find(list, h) == SelectInSeq(list, LAMBDA x : x = h)
LookupByName(list, name) == SelectInSeq(list, LAMBDA x : x.name = name)

\* The positions of a name, and milter_headers_lookup_by_name_with_index.
Named(list, name) == {i \in DOMAIN list : list[i].name = name}
LookupByIndex(list, name, index) ==
  LET here == {i \in Named(list, name) :
                 Cardinality({j \in Named(list, name) : j <= i}) = index}
  IN  IF here = {} THEN 0 ELSE CHOOSE i \in here : TRUE

\* milter_headers_index_in_same_header_name: the first equal header counts.
IndexInSameHeaderName(list, h) ==
  Cardinality({i \in Named(list, h.name) : i <= Find(list, h)})

\* milter_headers_remove.
RemoveHeader(list, h) == RemoveFirst(list, h)

\* milter_headers_add_header: before the first header of that name, in any
\* spelling, or at the end.
AddHeader(list, name, value) ==
  LET p == SelectInSeq(list, LAMBDA x : Folded[x.name] = Folded[name]) IN
  InsertAt(list, IF p = 0 THEN Len(list) + 1 ELSE p,
           [name |-> name, value |-> value])

\* milter_headers_insert_header: behind the end is at the end.
InsertHeader(list, position, name, value) ==
  InsertAt(list, IF position > Len(list) THEN Len(list) + 1 ELSE position + 1,
           [name |-> name, value |-> value])

\* milter_headers_change_header with a value.
ChangeHeader(list, name, index, value) ==
  LET p == LookupByIndex(list, name, index) IN
  IF p = 0 THEN AddHeader(list, name, value)
  ELSE [list EXCEPT ![p].value = value]

\* milter_headers_delete_header.
DeleteHeader(list, name, index) ==
  LET p == LookupByIndex(list, name, index) IN
  IF p = 0 THEN list ELSE RemoveAt(list, p)
-----------------------------------------------------------------------------
(* The MTA *)

\* The index-th header of a name, in any spelling.
MtaPosition(list, name, index) ==
  LET same == {i \in DOMAIN list : Folded[list[i].name] = Folded[name]}
      here == {i \in same : Cardinality({j \in same : j <= i}) = index}
  IN  IF here = {} THEN 0 ELSE CHOOSE i \in here : TRUE

MtaChange(list, name, index, value) ==
  LET p == MtaPosition(list, name, index) IN
  IF p = 0 THEN list ELSE [list EXCEPT ![p].value = value]

MtaDelete(list, name, index) ==
  LET p == MtaPosition(list, name, index) IN
  IF p = 0 THEN list ELSE RemoveAt(list, p)
-----------------------------------------------------------------------------
\* milter_manager_children_end_of_message copies the list.
Init == /\ original \in Originals
        /\ headers = original /\ mta = original /\ left = original
        /\ edits = 0 /\ next = 1 /\ phase = "edit"

\* normalize_header_value, for a child that leaves out the leading space the
\* MTA asked for.
Normalized(converts, value) ==
  IF converts THEN [value EXCEPT !.space = TRUE] ELSE value

\* The edit of a child at the end of the message; in evaluation mode it is
\* dropped.
Edit(list) == /\ phase = "edit" /\ edits < MaxEdits
              /\ \E evaluation \in BOOLEAN :
                   headers' = IF evaluation THEN headers ELSE list
              /\ edits' = edits + 1
              /\ UNCHANGED <<original, phase, left, next, mta>>

CbAddHeader(converts, name, value) ==
  Edit(AddHeader(headers, name, Normalized(converts, value)))

CbInsertHeader(converts, index, name, value) ==
  Edit(InsertHeader(headers, index, name, Normalized(converts, value)))

CbChangeHeader(converts, name, index, value) ==
  Edit(ChangeHeader(headers, name, index, Normalized(converts, value)))

CbDeleteHeader(name, index) == Edit(DeleteHeader(headers, name, index))

-----------------------------------------------------------------------------
(* emit_header_signals, which emit_signals_on_end_of_message calls.  A step   *)
(* is a turn of one of its loops and what the MTA does with the signal it     *)
(* emits; nothing comes between them.                                         *)

EmitHeaderSignals == /\ phase = "edit"
                     /\ phase' = "emit" /\ left' = original /\ next' = 1
                     /\ UNCHANGED <<original, headers, edits, mta>>

\* The MTA has this header.
Keep(h) == /\ Find(left, h) # 0
           /\ left' = RemoveHeader(left, h)
           /\ UNCHANGED mta

\* It has none of this name left.
EmitInsert(h) == /\ Find(left, h) = 0 /\ LookupByName(left, h.name) = 0
                 /\ mta' = InsertHeader(mta, next - 1, h.name, h.value)
                 /\ UNCHANGED left

\* The first one of this name becomes this header.  (It is an original one, so
\* index is never -1 and no add-header is emitted.)
EmitChange(h) ==
  LET p == LookupByName(left, h.name) IN
  /\ Find(left, h) = 0 /\ p # 0
  /\ mta' = MtaChange(mta, h.name, IndexInSameHeaderName(original, left[p]), h.value)
  /\ left' = RemoveHeader(left, left[p])

\* A turn of the first loop.
Compare == /\ phase = "emit" /\ next <= Len(headers)
           /\ LET h == headers[next] IN Keep(h) \/ EmitInsert(h) \/ EmitChange(h)
           /\ next' = next + 1
           /\ UNCHANGED <<original, headers, edits, phase>>

\* Deletes h of the headers left, of which the ones of rest stay.
Delete(h, rest) ==
  /\ phase = "emit" /\ next > Len(headers)
  /\ mta' = MtaDelete(mta, h.name, IndexInSameHeaderName(original, h))
  /\ left' = rest
  /\ UNCHANGED <<original, headers, edits, phase, next>>

\* The first one first.
EmitDeleteForward == left # <<>> /\ Delete(Head(left), Tail(left))

\* A turn of the second loop: what is left is deleted, the last one first.
EmitDelete == left # <<>> /\ Delete(Last(left), Front(left))

Emitted == /\ phase = "emit" /\ next > Len(headers) /\ left = <<>>
           /\ phase' = "done"
           /\ UNCHANGED <<original, headers, edits, left, next, mta>>

Next ==
  \/ \E converts \in BOOLEAN, name \in Names, t \in Texts :
       LET value == [space |-> FALSE, text |-> t] IN
       \/ CbAddHeader(converts, name, value)
       \/ \E index \in 0..Len(headers) :
            \/ CbInsertHeader(converts, index, name, value)
            \/ CbChangeHeader(converts, name, index, value)
  \/ \E name \in Names, index \in 1..(Len(headers) + 1) :
       CbDeleteHeader(name, index)
  \/ EmitHeaderSignals
  \/ Compare
  \/ EmitDelete
  \/ Emitted

Spec == Init /\ [][Next]_vars
-----------------------------------------------------------------------------
(* Properties. *)

\* After the end of the message the MTA has the headers the last child left,
\* each as often: no edit is lost, applied to another header or applied twice,
\* though the indexes the MTA is told count headers of the original list
\* (emit_header_signals).
SameHeaders == phase = "done" => ToBag(mta) = ToBag(headers)

\* They also stand in the same order.
SameOrder == phase = "done" => mta = headers
=============================================================================
