----------------------------- MODULE BbStrings -----------------------------
(***************************************************************************)
(* Strings as a script uses them: the string methods, in any order, on     *)
(* strings it made, copied, sliced or captured, and counted references it  *)
(* takes and drops.  val says what text each string object stands for.     *)
(***************************************************************************)
EXTENDS CiString

CONSTANTS Texts,       \* texts of the strings at the start: <<interned, mutable>>
          Words,       \* texts that replace looks for
          Filler,      \* the text it puts there
          Ranges,      \* bounds given to slice and __slice
          Counts,      \* arguments of size and repeat
          Rooms,       \* arguments of string.new and copy
          Marks,       \* <<index, byte>> given to set
          Moves,       \* whether realloc moves the buffer
          Careful,     \* a string is modified only while no slice reads its buffer,
                       \* and is not an argument of its own append or prepend
          MaxRefs,     \* bound: references to a string that the script takes
          MaxStrs,     \* bound: string objects
          MaxLen       \* bound: length of a string

ASSUME BbStringsAssumption ==
    /\ Texts \in Seq(Seq(Int)) /\ Len(Texts) = 2
    /\ Words \subseteq Seq(Int) /\ Filler \in Seq(Int)
    /\ Ranges \subseteq Int \X Int /\ Marks \subseteq Int \X Int
    /\ Counts \subseteq Int /\ Rooms \subseteq Nat
    /\ Moves \subseteq BOOLEAN /\ Careful \in BOOLEAN

VARIABLES mem,         \* strings and their buffers
          val,         \* history: the text each string object stands for
          strRefs      \* references the script holds to strings
strVars == <<mem, val, strRefs>>

StrInit ==
    /\ mem = LET m == [strs |-> <<>>, bufs |-> With(<<>>, Static, <<>>)]
             IN  NewText(ci_str_new_readonly(m, Texts[1]), Texts[2])
    /\ val = Texts
    /\ strRefs = <<0, 1>>

Strings  == {s \in DOMAIN mem.strs : strRefs[s] > 0 \/ mem.strs[s].refcnt = RefMax}
ReadBy(s) == {t \in DOMAIN mem.strs \ {s} : mem.strs[t].buf = mem.strs[s].buf}
Changeable(s) == Writable(mem, s) /\ (Careful => ReadBy(s) = {})

Change(s, m, t) ==
    /\ Changeable(s) /\ Len(t) <= MaxLen
    /\ mem' = m /\ val' = [val EXCEPT ![s] = t]
    /\ UNCHANGED strRefs

Make(m, t) ==
    /\ Cardinality(DOMAIN mem.strs) < MaxStrs /\ Len(t) <= MaxLen
    /\ mem' = m /\ val' = With(val, NewStr(mem), t)
    /\ strRefs' = With(strRefs, NewStr(mem), 1)

Append_(s, o) == /\ Careful => o # s
                 /\ \E moved \in Moves : Change(s, bb_str_append(mem, s, o, moved), val[s] \o val[o])
Prepend(s, o) == /\ Careful => o # s
                 /\ Change(s, bb_str_prepend(mem, s, o), val[o] \o val[s])
Clear(s)   == Change(s, bb_str_clear(mem, s), <<>>)
ToUpper(s) == Change(s, bb_str_upper(mem, s), Upper(val[s]))
ToLower(s) == Change(s, bb_str_lower(mem, s), Lower(val[s]))
Rev(s)     == Change(s, bb_str_rev(mem, s), Reverse(val[s]))
Trim(s)    == LET kept == {i \in DOMAIN val[s] : ~Blank(val[s][i])}
              IN  Change(s, bb_str_trim(mem, s), IF kept = {} THEN <<>>
                                                 ELSE SubSeq(val[s], Min(kept), Max(kept)))
SetByte(s, i, c) == /\ Wrapped(i, Len(val[s])) \in 0 .. Len(val[s]) - 1
                    /\ Change(s, bb_str_set(mem, s, i, c),
                              [val[s] EXCEPT ![Wrapped(i, Len(val[s])) + 1] = c % 256])
Reserve(s, n) == \E moved \in Moves : Change(s, bb_str_size(mem, s, n, moved), val[s])

\* The hash is cached in the string, or found there.
Hash(s) == mem' = ci_str_hash(mem, s) /\ UNCHANGED <<val, strRefs>>

NewString(size)   == Make(ci_str_new(mem, size), <<>>)
Copy(s, extra)    == Make(ci_str_copy(mem, s, extra), val[s])
Slice(s, i, j)    == LET b == Bounds(Len(val[s]), i, j)
                     IN  Make(bb_str_slice(mem, s, i, j), SubSeq(val[s], b.from + 1, b.to))
View(s, i, j)     == LET b == Bounds(Len(val[s]), i, j)
                     IN  Make(bb_str__slice(mem, s, i, j), SubSeq(val[s], b.from + 1, b.to))
Repeat(s, n)      == Make(bb_str_repeat(mem, s, n), FlattenSeq([i \in 1 .. n |-> val[s]]))

\* The pieces of a list with r between them.
Joined(pieces, r) == Head(pieces) \o FlattenSeq([i \in 1 .. Len(pieces) - 1 |-> r \o pieces[i + 1]])
Replace(s, n, r)  == Make(bb_str_replace(mem, s, n, r), Joined(bb_str_split(val[s], n), r))

\* A capture of match: a slice of the string, with the name it was given or 0.
AddSlice(m, s, from, to, name) ==
    LET o == m.strs[s]
        t == NewStr(m)
        r == ci_str_slice_new(m, o.buf, o.start + from, o.start + to, s)
    IN  IF name = 0 THEN r ELSE [ci_str_inc(r, name) EXCEPT !.strs[t].ctx = name]
Capture(s, i, j, name) == /\ 0 <= i /\ i <= j /\ j <= Len(val[s])
                          /\ Make(AddSlice(mem, s, i, j, name), SubSeq(val[s], i + 1, j))

\* The script takes another reference to a string.
Keep(s) == /\ strRefs[s] < MaxRefs
           /\ mem' = ci_str_inc(mem, s) /\ strRefs' = [strRefs EXCEPT ![s] = @ + 1]
           /\ UNCHANGED val

\* The script lets go of a string.
Forgotten(m) == [s \in DOMAIN m.strs |-> val[s]]
DropStr(s) ==
    /\ strRefs[s] > 0
    /\ mem' = ci_str_dec(mem, s)
    /\ val' = Forgotten(mem')
    /\ strRefs' = [t \in DOMAIN mem'.strs |-> IF t = s THEN strRefs[s] - 1 ELSE strRefs[t]]

StrNext ==
    \E s \in Strings :
        \/ \E o \in Strings : Append_(s, o) \/ Prepend(s, o)
        \/ Clear(s) \/ ToUpper(s) \/ ToLower(s) \/ Rev(s) \/ Trim(s) \/ Hash(s)
        \/ \E p \in Marks : SetByte(s, p[1], p[2])
        \/ \E n \in Counts : Reserve(s, n) \/ Repeat(s, n)
        \/ \E n \in Rooms : NewString(n) \/ Copy(s, n)
        \/ \E b \in Ranges : Slice(s, b[1], b[2]) \/ View(s, b[1], b[2])
        \/ \E b \in Ranges, name \in Strings \cup {0} : Capture(s, b[1], b[2], name)
        \/ \E n \in Words \ {<<>>} : Replace(s, n, Filler)
        \/ Keep(s) \/ DropStr(s)

StrSpec == StrInit /\ [][StrNext]_strVars

(***************************************************************************)
(* Properties.                                                             *)
(***************************************************************************)
(* Every string object reads as the text it stands for, whatever was done  *)
(* to its buffer, its parent or its parent's owner since (append, prepend, *)
(* trim and their reuse of head and tail space; slices of slices; captures *)
(* of strings the script has dropped), and a cached hash is the hash of    *)
(* that text.                                                              *)
StringsRead ==
    \A s \in DOMAIN mem.strs :
        /\ Readable(mem, s)
        /\ Text(mem, s) = val[s]
        /\ mem.strs[s].hash \in {<<>>, HashOf(val[s])}

(* split cuts at every occurrence and loses nothing, and replace, which    *)
(* counts in a first pass how large its result must be, puts the           *)
(* replacement exactly where split cuts.                                   *)
SplitJoins ==
    \A s \in DOMAIN val : \A d \in Words \ {<<>>} :
        LET pieces == bb_str_split(val[s], d)
        IN  /\ Joined(pieces, d) = val[s]
            /\ \A i \in DOMAIN pieces : bb_str_find(pieces[i], d, 0) = -1
            /\ \A r \in Words : Replaced(val[s], d, r) = Joined(pieces, r)

(* The buffer that a slice reads is there as long as the slice: it holds a *)
(* reference to its parent.                                                *)
SliceMemoryKept ==
    \A s \in DOMAIN mem.strs : mem.strs[s].kind = "slice" => Readable(mem, s)
=============================================================================
