---------------------------- MODULE ExtraHeaders ----------------------------
(***************************************************************************)
(* The extra headers of a record (extraheaders.c): JSON text in the        *)
(* record, and a parse state the caller may keep between calls, with an    *)
(* immutable document to read and a mutable one to change, each made from  *)
(* the other when it is missing.  Asking for a value of another type than  *)
(* the header's is left out.                                               *)
(***************************************************************************)
EXTENDS Json

CONSTANTS
  Extras,    \* the extra headers a record may come with
  Pointers,  \* JSON pointers, sequences of characters
  Leaves,    \* values that are set
  Patches,   \* values that are merged
  MaxSize    \* UINT16_MAX, in tokens

ASSUME ExtraAssumption == MaxSize \in Nat

(* A record's extra headers, with the parse state of the caller.           *)
VARIABLE mseh
MsehInit == mseh = [extra |-> <<>>, parsed |-> <<>>]
MsehIdle == mseh = [extra |-> <<>>, parsed |-> <<>>]

(* parse_json() for a state that is not there yet.                         *)
parse_json(extra) ==
  LET Of(doc) == IF doc = <<>> THEN <<>> ELSE <<[doc |-> doc, mut |-> <<>>]>>
  IN  IF extra = <<>> THEN <<[doc |-> <<>>, mut |-> <<>>]>> ELSE Of(ReadDoc(extra[1]))

Parsed(h) == IF h.parsed = <<>> THEN parse_json(h.extra) ELSE h.parsed

WithState(h, state) == [h EXCEPT !.parsed = state]

(* mseh_serialize(): <<>> when it fails.                                   *)
mseh_serialize(h) ==
  LET With(text) == IF text = <<>> \/ Len(text[1]) > MaxSize THEN <<>> ELSE <<[h EXCEPT !.extra = text]>>
  IN  IF h.parsed = <<>> \/ h.parsed[1].mut = <<>> THEN <<h>> ELSE With(WriteDoc(h.parsed[1].mut[1]))

mseh_free_parsestate(h) == [h EXCEPT !.parsed = <<>>]

Refused(h) == [h |-> h, rv |-> "error"]

ToRead(s) ==  \* the document to read of a state
  IF s.doc = <<>> /\ s.mut # <<>>
  THEN IF s.mut[1] = NoRoot THEN <<>> ELSE <<ImutOf(s.mut[1])>> ELSE s.doc

Lookup(doc, tokens) == IF tokens.error \/ doc = <<>> THEN <<>> ELSE ImutGet(doc[1], tokens.tokens)

(* mseh_get_ptr_r(): with no extra headers nothing is found, whatever the  *)
(* state holds.                                                            *)
mseh_get(h, ptr, keep) ==
  LET Left(s) == IF keep THEN WithState(h, <<s>>) ELSE h
      Result(s, found) == IF found = <<>> THEN [h |-> Left(s), rv |-> "none"]
                          ELSE [h |-> Left(s), rv |-> "found", val |-> found[1]]
      Search(s, doc) == IF doc = <<>> /\ s.mut # <<>> THEN Refused(Left(s))
                        ELSE Result([s EXCEPT !.doc = doc], Lookup(doc, PtrTokens(ptr)))
      With(state) == IF state = <<>> THEN Refused(h) ELSE Search(state[1], ToRead(state[1]))
  IN  IF h.extra = <<>> THEN [h |-> h, rv |-> "none"]
      ELSE IF ptr = <<>> \/ ptr[1] # Slash THEN Refused(h)
      ELSE With(Parsed(WithState(h, IF keep THEN h.parsed ELSE <<>>)))

(* A changed document makes the immutable one invalid, in a state that is  *)
(* kept.                                                                   *)
Invalidated_Never(state) == state  \* mutant of Invalidated
Invalidated(state) == [state EXCEPT !.doc = <<>>]

(* mseh_set_ptr_r() of a value ("V" and the leaves), an item of an array   *)
(* ("A"), or a merge patch ("M").  Without a state to keep, serializing    *)
(* may fail unnoticed.                                                     *)
Changed(root, tokens, kind, val) ==
  LET Grown(array) == Appended(array, Item(<<>>, val))
      Made(new, how) == DocPut(root, tokens, new, how)
      Change(target) ==
        CASE kind = "V" -> <<val, "set">>
          [] kind = "M" -> IF target = <<>> THEN <<>> ELSE <<MergePatch(target, val), "replace">>
          [] kind = "A" -> IF target = <<>> THEN <<Grown(Container("arr", <<>>)), "set">>
                           ELSE IF target[1].type = "arr" THEN <<Grown(target[1]), "link">> ELSE <<>>
      Apply(change) == IF change = <<>> THEN <<>> ELSE Made(change[1], change[2])
  IN  Apply(Change(MutGet(root, tokens)))

ToChange(s) ==  \* the document to change of a state
  IF s.mut # <<>> THEN s.mut[1] ELSE IF s.doc # <<>> THEN MutOf(s.doc[1]) ELSE NoRoot

mseh_set(h, ptr, kind, val, keep) ==
  LET Written(new) == IF new = <<>> THEN h ELSE WithState(new[1], h.parsed)
      Left(s) == IF keep THEN WithState(h, <<s>>) ELSE Written(mseh_serialize(WithState(h, <<s>>)))
      Result(s, root, made) ==
        IF made = <<>> THEN [h |-> Left([s EXCEPT !.mut = <<root>>]), rv |-> "error"]
        ELSE [h |-> Left(Invalidated([s EXCEPT !.mut = made])), rv |-> "set"]
      Made(root, tokens) == IF tokens.error \/ (ptr # <<>> /\ ptr[1] # Slash) THEN <<>>
                            ELSE Changed(root, tokens.tokens, kind, val)
      Set(s, root) == Result(s, root, Made(root, PtrTokens(ptr)))
      With(state) == IF state = <<>> THEN Refused(h) ELSE Set(state[1], ToChange(state[1]))
  IN  IF kind # "M" /\ (ptr = <<>> \/ ptr[1] # Slash) THEN Refused(h)
      ELSE With(Parsed(WithState(h, IF keep THEN h.parsed ELSE <<>>)))

-----------------------------------------------------------------------------
(* A caller passes its state to every call, or has none.                   *)
Sized(h) == h.parsed # <<>> /\ h.parsed[1].mut # <<>> => Count(h.parsed[1].mut[1]) <= MaxValues

RecordComes == MsehIdle /\ \E e \in Extras : mseh' = [mseh EXCEPT !.extra = e]

Gets == \E p \in Pointers, keep \in BOOLEAN :
  (keep \/ mseh.parsed = <<>>) /\ mseh' = mseh_get(mseh, p, keep).h

Sets == \E p \in Pointers, keep \in BOOLEAN, kind \in {"V", "A", "M"} :
  \E val \in IF kind = "M" THEN Patches ELSE Leaves :
    /\ keep \/ mseh.parsed = <<>>
    /\ mseh' = mseh_set(mseh, p, kind, val, keep).h /\ Sized(mseh')

Serializes == mseh_serialize(mseh) # <<>> /\ mseh' = mseh_serialize(mseh)[1]

Frees == mseh' = mseh_free_parsestate(mseh)

MsehNext == RecordComes \/ Gets \/ Sets \/ Serializes \/ Frees

-----------------------------------------------------------------------------
Found(h, p, keep) ==
  LET Val(g) == IF g.rv = "found" THEN <<g.val>> ELSE <<>> IN Val(mseh_get(h, p, keep))

Unrelated(p, q) ==
  LET a == PtrTokens(p)
      b == PtrTokens(q)
  IN  a.error \/ b.error \/ ~(IsPrefix(a.tokens, b.tokens) \/ IsPrefix(b.tokens, a.tokens))

\* s is what a value v, or a patch, that was set at p leaves of h
SetKept(h, p, v, s) ==
  LET ReadBackFrom(w) == w # <<>> => Found(w[1], p, FALSE) = <<ImutOf(v)>>
  IN  /\ s.rv = "set" => /\ h.extra # <<>> => Found(s.h, p, TRUE) = <<ImutOf(v)>>
                         /\ ReadBackFrom(mseh_serialize(s.h))
      /\ \A q \in Pointers : s.rv = "error" \/ Unrelated(p, q) => Found(s.h, q, TRUE) = Found(h, q, TRUE)

PatchKept(h, p, patch, s) ==
  LET Merged(item, found) ==
        IF item.val.type = "null" THEN found = <<>>
        ELSE item.val.type # "obj" => found = <<ImutOf(item.val)>>
  IN  s.rv = "set" =>
        /\ mseh_set(s.h, p, "M", patch, TRUE) = s
        /\ h.extra # <<>> /\ patch.type = "obj" =>
             \A i \in DOMAIN patch.items :
               Merged(patch.items[i], Found(s.h, p \o <<Slash>> \o patch.items[i].key, TRUE))

(* The documents of a state agree.  A header that was set is read back,    *)
(* through the state and from the record once it is written, and headers   *)
(* elsewhere are what they were; all are when it could not be set.  A      *)
(* patch that is merged again changes nothing, and what it has is found,   *)
(* what it removes is not.  (mseh_set_ptr_r(), mseh_get_ptr_r(),           *)
(* mseh_serialize().)                                                      *)
DocumentsKept(h) ==
  /\ h.parsed # <<>> /\ h.parsed[1].doc # <<>> /\ h.parsed[1].mut # <<>> =>
       h.parsed[1].doc = <<ImutOf(h.parsed[1].mut[1])>>
  /\ \A p \in Pointers, v \in Leaves : SetKept(h, p, v, mseh_set(h, p, "V", v, TRUE))
  /\ \A p \in Pointers, patch \in Patches : PatchKept(h, p, patch, mseh_set(h, p, "M", patch, TRUE))
=============================================================================
