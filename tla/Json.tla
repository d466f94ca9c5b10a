-------------------------------- MODULE Json --------------------------------
(***************************************************************************)
(* The JSON documents of yyjson, as far as libmseed uses them: reading and *)
(* writing text, copies that can and cannot be changed, pointers (RFC      *)
(* 6901) and merge patches (RFC 7396).                                     *)
(*                                                                         *)
(* A value is a record of its type, of what a leaf holds, and of the items *)
(* of an object or an array; a mutable value has the ring of its items,    *)
(* which starts with the last one.  A text is a sequence of tokens: marks, *)
(* and leaves with what they hold.  NULL is <<>>, anything else <<x>>.     *)
(* A mutable copy of a mutable value is that value.  Memory is not         *)
(* exhausted.                                                              *)
(***************************************************************************)
EXTENDS Text

CONSTANTS
  Tilde,  \* '~'; Text has '/', '0' and '-'
  MaxValues  \* bound on the values of a document

ASSUME JsonAssumption == MaxValues \in Nat

RECURSIVE Count(_), Tree(_, _), MutText(_), MutOf(_), ImutOf(_), Put(_, _, _, _), MergePatch(_, _)

Leaf(type, value) == [type |-> type, value |-> value, items |-> <<>>]
Mark(c) == Leaf(c, <<>>)
Marks   == {Mark(c) : c \in {"[", "]", "{", "}", ",", ":"}}
Container(type, items) == [type |-> type, value |-> <<>>, items |-> items]
Item(key, val) == [key |-> key, val |-> val]  \* the key of an array's item is <<>>
NoRoot == Leaf("none", <<>>)  \* a document whose root is NULL

Count(v) == FoldLeft(LAMBDA n, item : n + Count(item.val), 1, v.items)

-----------------------------------------------------------------------------
(* read_root_minify(), read_root_pretty(): values are stored one after the *)
(* other.  The offset of a container leads to its parent while it is read, *)
(* and behind its last value when it is closed; its length counts keys     *)
(* until then.                                                             *)
Stored(type, value, ofs) == [type |-> type, value |-> value, len |-> 0, ofs |-> ofs]

Start(t) == IF t = Mark("{") THEN "obj_key_begin" ELSE "arr_val_begin"
Type(t)  == IF t = Mark("{") THEN "obj" ELSE "arr"

ReadLeaf(s, t, at) ==
  [s EXCEPT !.at = at, !.vals = Append(@, Stored(t.type, t.value, 1)), !.len = @ + 1]

Pushed(s, t) ==
  [at |-> Start(t), ctn |-> Len(s.vals) + 1, len |-> 0,
   vals |-> Append([s.vals EXCEPT ![s.ctn].len = s.len + 1], Stored(Type(t), <<>>, Len(s.vals) + 1 - s.ctn))]

Popped(s) ==
  LET parent == s.ctn - s.vals[s.ctn].ofs
      len    == IF s.vals[s.ctn].type = "obj" THEN s.len \div 2 ELSE s.len
      closed == [s.vals EXCEPT ![s.ctn] = [@ EXCEPT !.len = len, !.ofs = Len(s.vals) - s.ctn + 1]]
  IN  [at |-> IF parent = s.ctn THEN "doc_end" ELSE IF s.vals[parent].type = "obj" THEN "obj_val_end"
              ELSE "arr_val_end",
       vals |-> closed, ctn |-> parent, len |-> closed[parent].len]

ReadToken(s, t) ==
  LET opens == t \in {Mark("["), Mark("{")}
      leaf  == t \notin Marks
      ends  == \/ t = Mark("]") /\ (s.at = "arr_val_end" \/ (s.at = "arr_val_begin" /\ s.len = 0))
               \/ t = Mark("}") /\ (s.at = "obj_val_end" \/ (s.at = "obj_key_begin" /\ s.len = 0))
  IN  CASE s.at \in {"arr_val_begin", "obj_val_begin"} /\ opens -> Pushed(s, t)
        [] s.at = "arr_val_begin" /\ leaf -> ReadLeaf(s, t, "arr_val_end")
        [] s.at = "obj_key_begin" /\ t.type = "str" -> ReadLeaf(s, t, "obj_key_end")
        [] s.at = "obj_val_begin" /\ leaf -> ReadLeaf(s, t, "obj_val_end")
        [] s.at = "arr_val_end" /\ t = Mark(",") -> [s EXCEPT !.at = "arr_val_begin"]
        [] s.at = "obj_key_end" /\ t = Mark(":") -> [s EXCEPT !.at = "obj_val_begin"]
        [] s.at = "obj_val_end" /\ t = Mark(",") -> [s EXCEPT !.at = "obj_key_begin"]
        [] ends  -> Popped(s)
        [] OTHER -> [s EXCEPT !.at = "fail"]

(* A stored value as a value: a container's items follow it, each as far   *)
(* behind the one before it as that one's offset says.                     *)
Tree(vals, i) ==
  LET v == vals[i]
      step == IF v.type = "obj" THEN 2 ELSE 1
      next[k \in 1..(step * v.len)] == IF k = 1 THEN i + 1 ELSE next[k - 1] + vals[next[k - 1]].ofs
      ItemAt(k) == Item(IF step = 2 THEN vals[next[2 * k - 1]].value ELSE <<>>, Tree(vals, next[step * k]))
  IN  [type |-> v.type, value |-> v.value, items |-> [k \in 1..v.len |-> ItemAt(k)]]

(* yyjson_read_opts(): the root, or <<>> for text that is not JSON.        *)
ReadDoc(text) ==
  LET first == [at |-> Start(text[1]), vals |-> <<Stored(Type(text[1]), <<>>, 0)>>, ctn |-> 1, len |-> 0]
      Root(read) == IF read.at = "doc_end" THEN <<Tree(read.vals, 1)>> ELSE <<>>
  IN  IF text = <<>> THEN <<>>
      ELSE IF text[1] \in {Mark("["), Mark("{")} THEN Root(FoldLeft(ReadToken, first, Tail(text)))
      ELSE IF Len(text) = 1 /\ text[1] \notin Marks THEN <<text[1]>> ELSE <<>>

(* yyjson_mut_write_minify(): a number that JSON has no text for, NaN, is  *)
(* left in, for WriteDoc to refuse.                                        *)
MutText(m) ==
  LET item(k) == m.items[(k % Len(m.items)) + 1]
      Entry(k) == (IF m.type = "obj" THEN <<Leaf("str", item(k).key), Mark(":")>> ELSE <<>>) \o MutText(item(k).val)
      ends == IF m.type = "obj" THEN <<Mark("{"), Mark("}")>> ELSE <<Mark("["), Mark("]")>>
      List == FoldLeft(LAMBDA text, k : IF text = <<>> THEN Entry(k) ELSE text \o <<Mark(",")>> \o Entry(k),
                       <<>>, [k \in DOMAIN m.items |-> k])
  IN  IF m.type \in {"obj", "arr"} THEN <<ends[1]>> \o List \o <<ends[2]>> ELSE <<m>>

WriteDoc(m) ==
  IF m = NoRoot \/ \E i \in DOMAIN MutText(m) : MutText(m)[i].type = "nan" THEN <<>> ELSE <<MutText(m)>>

-----------------------------------------------------------------------------
(* The i-th item is i links behind the last one, in the ring of n.         *)
Behind(ring, i) == (i % Len(ring)) + 1
Listed(ring)    == [i \in DOMAIN ring |-> ring[Behind(ring, i)]]
Ring(items)     == IF items = <<>> THEN <<>> ELSE <<Last(items)>> \o Front(items)

MutOf(v) ==
  LET Copied(i) == Item(v.items[i].key, MutOf(v.items[i].val))
  IN  [v EXCEPT !.items = Ring([i \in DOMAIN v.items |-> Copied(i)])]

ImutOf(m) ==
  LET Copied(i) == LET item == m.items[Behind(m.items, i)] IN Item(item.key, ImutOf(item.val))
  IN  [m EXCEPT !.items = [i \in DOMAIN m.items |-> Copied(i)]]

(* yyjson_mut_arr_append(), unsafe_yyjson_mut_obj_add(): the item is linked *)
(* behind the last one and becomes the last.                               *)
Appended(m, item) ==
  [m EXCEPT !.items = IF @ = <<>> THEN <<item>> ELSE <<item>> \o Tail(@) \o <<Head(@)>>]

(* yyjson_mut_obj_put(): the first of a key takes the value, its others    *)
(* are removed.                                                            *)
ObjPut(m, key, val) ==
  LET items == Listed(m.items)
      chosen == CHOOSE i \in DOMAIN items : items[i].key = key /\ \A j \in 1..(i - 1) : items[j].key # key
      Kept(i) == i = chosen \/ items[i].key # key
      New(i)  == IF i = chosen THEN Item(key, val) ELSE items[i]
      kept    == SelectSeq([i \in DOMAIN items |-> i], Kept)
  IN  [m EXCEPT !.items = Ring([i \in DOMAIN kept |-> New(kept[i])])]

-----------------------------------------------------------------------------
(* ptr_next_token(): a pointer's tokens, unescaped as the keys are         *)
(* (ptr_token_eq(), ptr_new_key()), or Error when an escape is bad.        *)
Unescaped(token) ==
  LET CharOf(i) == IF token[i] # Tilde THEN token[i] ELSE IF token[i + 1] = Zero THEN Tilde ELSE Slash
      StartsChar(i) == i = 1 \/ token[i - 1] # Tilde
      heads == SelectSeq([i \in DOMAIN token |-> i], StartsChar)
  IN  [i \in DOMAIN heads |-> CharOf(heads[i])]

PtrTokens(ptr) ==
  LET bars == SetToSortSeq(Places(ptr, Slash), LAMBDA i, j : i < j)
      EndOf(i) == IF i = Len(bars) THEN Len(ptr) ELSE bars[i + 1] - 1
      Raw(i)  == SubSeq(ptr, bars[i] + 1, EndOf(i))
      Bad(t)  == \E i \in Places(t, Tilde) : i = Len(t) \/ t[i + 1] \notin {Zero, Zero + 1}
  IN  IF \E i \in DOMAIN bars : Bad(Raw(i)) THEN Error
      ELSE [error |-> FALSE, tokens |-> [i \in DOMAIN bars |-> Unescaped(Raw(i))]]

(* ptr_token_to_idx(): the index, or <<>>: '-' is past any array's end.    *)
TokenToIdx(token) ==
  LET digits == \A i \in DOMAIN token : token[i] \in Zero..(Zero + 9)
  IN  IF token = <<>> \/ (token[1] \in {Zero, Dash} /\ Len(token) > 1) THEN <<>>
      ELSE IF token = <<Dash>> THEN <<MaxValues>>
      ELSE IF digits THEN <<FoldLeft(LAMBDA n, c : 10 * n + c - Zero, 0, token)>> ELSE <<>>

(* The place of a token's item among n items in their order, or 0.         *)
ItemPlace(type, items, token) ==
  LET same == {i \in DOMAIN items : items[i].key = token}
      idx  == TokenToIdx(token)
  IN  IF type = "obj" /\ same # {} THEN CHOOSE i \in same : \A j \in same : i <= j
      ELSE IF type = "arr" /\ idx # <<>> /\ idx[1] < Len(items) THEN idx[1] + 1 ELSE 0

(* unsafe_yyjson_ptr_getx() and unsafe_yyjson_mut_ptr_getx().              *)
Step(v, items, token) ==
  LET i == ItemPlace(v.type, items, token) IN IF i = 0 THEN <<>> ELSE <<items[i].val>>

ImutGet(v, tokens) ==
  FoldLeft(LAMBDA at, t : IF at = <<>> THEN <<>> ELSE Step(at[1], at[1].items, t), <<v>>, tokens)
MutGet(m, tokens) ==
  FoldLeft(LAMBDA at, t : IF at = <<>> THEN <<>> ELSE Step(at[1], Listed(at[1].items), t), <<m>>, tokens)

(* unsafe_yyjson_mut_ptr_putx(), which makes the parents a set needs, and  *)
(* replacex(); "link" puts a changed item back where it is.  An array only *)
(* takes a value in place of another.                                      *)
Put(m, tokens, val, how) ==
  LET Nested == FoldRight(LAMBDA t, v : Container("obj", <<Item(t, v)>>), Tail(tokens), val)
      Placed(place, v) == [m EXCEPT !.items[place].val = v]
      Within(place, inner) == IF inner = <<>> THEN <<>> ELSE <<Placed(place, inner[1])>>
      AtPlace(place) ==
        IF Len(tokens) > 1 THEN Within(place, Put(m.items[place].val, Tail(tokens), val, how))
        ELSE <<IF m.type = "obj" /\ how # "link" THEN ObjPut(m, tokens[1], val) ELSE Placed(place, val)>>
      ItemAt(i) == IF i # 0 THEN AtPlace(Behind(m.items, i))
                   ELSE IF how = "set" /\ m.type = "obj" THEN <<Appended(m, Item(tokens[1], Nested))>> ELSE <<>>
  IN  ItemAt(ItemPlace(m.type, Listed(m.items), tokens[1]))

DocPut(root, tokens, val, how) ==
  IF root = NoRoot /\ how # "set" THEN <<>>
  ELSE IF tokens = <<>> THEN <<val>>
  ELSE Put(IF root = NoRoot THEN Container("obj", <<>>) ELSE root, tokens, val, how)

(* yyjson_mut_merge_patch().                                               *)
MergePatch(orig, patch) ==
  LET old == IF orig # <<>> /\ orig[1].type = "obj" THEN Listed(orig[1].items) ELSE <<>>
      new == Listed(patch.items)
      Unpatched(item) == \A i \in DOMAIN new : new[i].key # item.key
      Merged(item) == Item(item.key, MergePatch(Step(Container("obj", <<>>), old, item.key), item.val))
      Present(item) == item.val.type # "null"
      builder == FoldLeft(Appended, Container("obj", <<>>), SelectSeq(old, Unpatched))
  IN  IF patch.type # "obj" THEN patch
      ELSE FoldLeft(LAMBDA b, item : Appended(b, Merged(item)), builder, SelectSeq(new, Present))

-----------------------------------------------------------------------------
(* The grammar of RFC 8259.                                                *)
RECURSIVE IsValue(_), IsList(_, _)
IsEntry(t, obj) ==
  IF obj THEN Len(t) > 2 /\ t[1].type = "str" /\ t[2] = Mark(":") /\ IsValue(SubSeq(t, 3, Len(t)))
  ELSE IsValue(t)
IsList(t, obj) ==
  \E k \in DOMAIN t : /\ IsEntry(SubSeq(t, 1, k), obj)
                      /\ k = Len(t) \/ (t[k + 1] = Mark(",") /\ IsList(SubSeq(t, k + 2, Len(t)), obj))
IsValue(t) ==
  \/ Len(t) = 1 /\ t[1] \notin Marks
  \/ /\ Len(t) > 1 /\ <<t[1], Last(t)>> \in {<<Mark("["), Mark("]")>>, <<Mark("{"), Mark("}")>>}
     /\ Len(t) = 2 \/ IsList(SubSeq(t, 2, Len(t) - 1), t[1] = Mark("{"))

(* A text is read if it is JSON, and as what is written as that text.      *)
(* (yyjson_read_opts(), yyjson_mut_write_opts().)                          *)
TextRead(text) ==
  LET root == ReadDoc(text)
  IN  IF IsValue(text) THEN root # <<>> /\ WriteDoc(MutOf(root[1])) = <<text>> ELSE root = <<>>
=============================================================================
