-------------------------- MODULE ConfigStoreProofs -------------------------
(***************************************************************************)
(* Proofs about ConfigStore, for every set of keys, texts and values and   *)
(* for any behaviour of the C library's conversions that agrees with       *)
(* LibraryAssumption.                                                      *)
(***************************************************************************)
EXTENDS ConfigStore, SequenceTheorems, TLAPS

USE DEF store, history

-----------------------------------------------------------------------------
(***************************************************************************)
(* The conversions.                                                        *)
(***************************************************************************)

(* What save prints is a text, and what load reads is a value.             *)
LEMMA FormatType ==
    ASSUME NEW v \in Values
    PROVE  Format(v) \in Texts
<1>1. CASE \E n \in Ints : v = Number("INT", n)
  <2>1. PICK n \in Ints : v = Number("INT", n)
    BY <1>1
  <2>2. Format(v) = IntText[n]
    BY <2>1 DEF Format, Number
  <2> QED
    BY <2>2, TextAssumption
<1>2. CASE \E n \in Floats : v = Number("FLOAT", n)
  <2>1. PICK n \in Floats : v = Number("FLOAT", n)
    BY <1>2
  <2>2. Format(v) = FloatText[n]
    BY <2>1 DEF Format, Number
  <2> QED
    BY <2>2, TextAssumption
<1>3. CASE \E n \in {0, 1} : v = Number("BOOL", n)
  <2>1. PICK n \in {0, 1} : v = Number("BOOL", n)
    BY <1>3
  <2>2. Format(v) = IF n = 1 THEN "true" ELSE "false"
    BY <2>1 DEF Format, Number
  <2>3. "true" \in Texts /\ "false" \in Texts
    BY TextAssumption
  <2> QED
    BY <2>2, <2>3
<1>4. CASE \E t \in Texts : v = String(t)
  BY <1>4 DEF Format, String
<1> QED
  BY <1>1, <1>2, <1>3, <1>4 DEF Values

LEMMA ParseType ==
    ASSUME NEW t \in Texts, Trim[t] # NoText
    PROVE  Parse(t) \in Values
<1>1. Trim[t] \in Texts /\ Atof[Trim[t]] \in Floats /\ (Atoi[Trim[t]] # 0 => Atoi[Trim[t]] \in Ints)
  BY TextAssumption
<1> QED
  BY <1>1 DEF Parse, Values

LEMMA NumberFields ==
    ASSUME NEW y, NEW n
    PROVE  Number(y, n).type = y /\ Number(y, n).num = n
  BY DEF Number

(* What is read back of a value that a text can carry.                     *)
LEMMA ParseFormat ==
    ASSUME NEW v \in Values, Carried(v)
    PROVE  Trim[Format(v)] # NoText /\ Parse(Format(v)) = Restored(v)
<1>0. NoText \notin Texts
  BY TextAssumption
<1>1. CASE \E n \in Ints : v = Number("INT", n)
  <2>1. PICK n \in Ints : v = Number("INT", n)
    BY <1>1
  <2>2. Format(v) = IntText[n] /\ IntText[n] \in Texts
    BY <2>1, TextAssumption DEF Number, Format
  <2>3. /\ Trim[IntText[n]] = IntText[n] /\ IntText[n] \notin Dotted
        /\ Atoi[IntText[n]] = n /\ IntText[n] \notin {"true", "false"}
        /\ (IntText[n] = "0" <=> n = 0) /\ (IntText[n] = "1" <=> n = 1)
    BY LibraryAssumption
  <2>4. v.type = "INT" /\ v.num = n
    BY <2>1, NumberFields
  <2>5. CASE n \in {0, 1}
    <3>1. Restored(v) = Number("BOOL", n)
      BY <2>4, <2>5 DEF Restored
    <3>2. Parse(IntText[n]) = Number("BOOL", n)
      BY <2>3, <2>5 DEF Parse
    <3> QED
      BY <1>0, <2>2, <2>3, <3>1, <3>2
  <2>6. CASE n \notin {0, 1}
    <3>1. Restored(v) = v
      BY <2>4, <2>6 DEF Restored
    <3>2. Parse(IntText[n]) = Number("INT", n)
      BY <2>3, <2>6 DEF Parse
    <3> QED
      BY <1>0, <2>1, <2>2, <2>3, <3>1, <3>2
  <2> QED
    BY <2>5, <2>6
<1>2. CASE \E n \in Floats : v = Number("FLOAT", n)
  <2>1. PICK n \in Floats : v = Number("FLOAT", n)
    BY <1>2
  <2>2. Format(v) = FloatText[n] /\ FloatText[n] \in Texts
    BY <2>1, TextAssumption DEF Number, Format
  <2>3. /\ Trim[FloatText[n]] = FloatText[n] /\ FloatText[n] \notin {"true", "false", "0", "1"}
        /\ FloatText[n] \notin Dotted => Atoi[FloatText[n]] = 0
    BY LibraryAssumption
  <2>4. v.type = "FLOAT" /\ v.num = n
    BY <2>1, NumberFields
  <2>5. CASE FloatText[n] \in Dotted
    <3>1. Restored(v) = Number("FLOAT", Atof[FloatText[n]])
      BY <2>4, <2>5 DEF Restored
    <3>2. Parse(FloatText[n]) = Number("FLOAT", Atof[FloatText[n]])
      BY <2>3, <2>5 DEF Parse
    <3> QED
      BY <1>0, <2>2, <2>3, <3>1, <3>2
  <2>6. CASE FloatText[n] \notin Dotted
    <3>1. Restored(v) = String(FloatText[n])
      BY <2>4, <2>6 DEF Restored
    <3>2. Parse(FloatText[n]) = String(FloatText[n])
      BY <2>3, <2>6 DEF Parse
    <3> QED
      BY <1>0, <2>2, <2>3, <3>1, <3>2
  <2> QED
    BY <2>5, <2>6
<1>3. CASE \E n \in {0, 1} : v = Number("BOOL", n)
  <2>1. PICK n \in {0, 1} : v = Number("BOOL", n)
    BY <1>3
  <2>2. Format(v) = IF n = 1 THEN "true" ELSE "false"
    BY <2>1 DEF Format, Number
  <2>3. Trim["true"] = "true" /\ Trim["false"] = "false"
    BY LibraryAssumption
  <2>4. "true" # NoText /\ "false" # NoText
    BY <1>0, TextAssumption
  <2>5. v.type = "BOOL"
    BY <2>1, NumberFields
  <2>6. Restored(v) = v
    BY <2>5 DEF Restored
  <2> QED
    BY <2>1, <2>2, <2>3, <2>4, <2>6 DEF Parse
<1>4. CASE \E t \in Texts : v = String(t)
  <2>1. PICK t \in Texts : v = String(t)
    BY <1>4
  <2>2. Format(v) = t /\ t \in Plain /\ v.type = "STRING"
    BY <2>1 DEF String, Format, Carried
  <2>3. Trim[t] = t /\ t \notin Dotted /\ Atoi[t] = 0 /\ t \notin {"true", "false", "0", "1"}
    BY <2>2, LibraryAssumption
  <2>4. Restored(v) = v
    BY <2>2 DEF Restored
  <2> QED
    BY <1>0, <2>1, <2>2, <2>3, <2>4 DEF Parse
<1> QED
  BY <1>1, <1>2, <1>3, <1>4 DEF Values

-----------------------------------------------------------------------------
(***************************************************************************)
(* The setters.                                                            *)
(***************************************************************************)

(* A setter keeps one item per key, the places of the items and every item *)
(* of another key; a new key comes last.                                   *)
LEMMA SetItemKeeps ==
    ASSUME NEW t \in Seq(Items), OncePerKey(t), NEW k \in Keys, NEW v \in Values,
           NEW x, x = [key |-> k, val |-> v], NEW r, r = SetItem(t, k, v)
    PROVE  /\ r \in Seq(Items) /\ OncePerKey(r)
           /\ Len(t) <= Len(r)
           /\ \A n \in 1..Len(t) : r[n].key = t[n].key
           /\ \A n \in 1..Len(t) : t[n].key # k => r[n] = t[n]
           /\ \A n \in 1..Len(t) : r[n] = t[n] \/ (r[n] = x /\ t[n].key = k)
           /\ (\E n \in 1..Len(t) : t[n].key = k) => Len(r) = Len(t)
           /\ \A n \in Len(t)+1..Len(r) : r[n] = x
           /\ (\A n \in 1..Len(t) : t[n].key # k) => Len(r) = Len(t) + 1
<1>1. Len(t) \in Nat /\ DOMAIN t = 1..Len(t) /\ \A n \in 1..Len(t) : t[n] \in Items
  BY LenProperties, ElementOfSeq
<1>2. x \in Items /\ x.key = k
  BY DEF Items
<1>3. CASE FindItem(t, k) = {}
  <2>1. r = Append(t, x) /\ \A n \in 1..Len(t) : t[n].key # k
    BY <1>1, <1>3 DEF SetItem, FindItem
  <2>2. /\ r \in Seq(Items) /\ Len(r) = Len(t) + 1 /\ r[Len(t) + 1] = x
        /\ \A n \in 1..Len(t) : r[n] = t[n]
    BY <1>2, <2>1, AppendProperties
  <2>3. OncePerKey(r)
    <3>1. DOMAIN r = 1..Len(t) + 1
      BY <2>2, LenProperties
    <3>2. \A n \in 1..Len(t) + 1 : n \in 1..Len(t) \/ n = Len(t) + 1
      BY <1>1
    <3> QED
      BY <1>1, <1>2, <2>1, <2>2, <3>1, <3>2 DEF OncePerKey
  <2>4. \A n \in Len(t)+1..Len(r) : r[n] = x
    BY <1>1, <2>2
  <2>5. Len(t) <= Len(r)
    BY <1>1, <2>2
  <2>6. ~\E n \in 1..Len(t) : t[n].key = k
    BY <2>1
  <2> QED
    BY <2>1, <2>2, <2>3, <2>4, <2>5, <2>6
<1>4. CASE FindItem(t, k) # {}
  <2>1. r = [n \in 1..Len(t) |-> IF n \in FindItem(t, k) /\ t[n].val.type = v.type
                                 THEN x ELSE t[n]]
    BY <1>1, <1>4 DEF SetItem
  <2>2. \A n \in 1..Len(t) : n \in FindItem(t, k) <=> t[n].key = k
    BY <1>1 DEF FindItem
  <2>3. DOMAIN r = 1..Len(t) /\ \A n \in 1..Len(t) : r[n] = t[n] \/ (r[n] = x /\ t[n].key = k)
    BY <2>1, <2>2
  <2>4. r \in Seq(Items)
    <3>1. \A n \in 1..Len(t) : (IF n \in FindItem(t, k) /\ t[n].val.type = v.type
                                THEN x ELSE t[n]) \in Items
      BY <1>1, <1>2
    <3> QED
      BY <1>1, <2>1, <3>1, IsASeq
  <2>5. Len(r) = Len(t)
    BY <1>1, <2>3, <2>4, LenProperties
  <2>6. \A n \in 1..Len(t) : r[n].key = t[n].key
    BY <1>2, <2>3
  <2>7. OncePerKey(r)
    BY <1>1, <2>3, <2>6 DEF OncePerKey
  <2>8. Len(t)+1..Len(r) = {}
    BY <1>1, <2>5
  <2>9. ~\A n \in 1..Len(t) : t[n].key # k
    BY <1>1, <1>4, <2>2 DEF FindItem
  <2>10. \A n \in 1..Len(t) : /\ t[n].key # k => r[n] = t[n]
                              /\ r[n] = t[n] \/ (r[n] = x /\ t[n].key = k)
    BY <2>3
  <2>11. Len(t) <= Len(r)
    BY <1>1, <2>5
  <2>12. \A n \in Len(t)+1..Len(r) : r[n] = x
    BY <2>8
  <2> QED
    BY <2>4, <2>5, <2>6, <2>7, <2>9, <2>10, <2>11, <2>12, SMTT(40)
<1> QED
  BY <1>3, <1>4

-----------------------------------------------------------------------------
(***************************************************************************)
(* The inductive invariant.  Files: a save writes the keys of the items in *)
(* their order, also while setters append.  Restarts: a trusted file is    *)
(* the image of the snapshot, and a load that nobody disturbs restores the *)
(* lines it has read, whether the table was empty or is loaded again.      *)
(***************************************************************************)

SavedKeys ==
    mpc = "saving" =>
        /\ ~trusted /\ Len(out) = line /\ line <= Len(items)
        /\ \A n \in 1..Len(out) : out[n].key = items[n].key

IsImage ==
    trusted =>
        /\ Len(file) = Len(snapshot)
        /\ \A n \in 1..Len(snapshot) : /\ file[n].key = snapshot[n].key
                                       /\ file[n].text = Format(snapshot[n].val)

(* The n-th item of a snapshot s is in the table t, if a file can carry it. *)
Kept(s, t, n) ==
    Carried(s[n].val) => \E j \in 1..Len(t) : /\ t[j].key = s[n].key
                                              /\ t[j].val \in {s[n].val, Restored(s[n].val)}

LoadedSoFar ==
    mpc = "loading" /\ trusted /\ ~touched =>
        /\ source = file /\ line <= Len(source)
        /\ \A n \in 1..line : Kept(snapshot, items, n)
        /\ \/ \A j \in 1..Len(items) : \E n \in 1..line : items[j].key = source[n].key
           \/ \A n \in 1..Len(snapshot) : Kept(snapshot, items, n)

Loaded ==
    mpc = "up" /\ trusted /\ ~touched =>
        \A n \in 1..Len(snapshot) : Kept(snapshot, items, n)

Untouched == mpc = "inited" /\ ~touched => items = <<>>

Keyed == OncePerKey(items) /\ OncePerKey(snapshot) /\ OneLinePerKey

IInv == TypeOK /\ Keyed /\ SavedKeys /\ IsImage /\ LoadedSoFar /\ Loaded /\ Untouched

(* The lengths of the sequences are numbers.                               *)
LEMMA Lengths ==
    ASSUME TypeOK
    PROVE  /\ Len(items) \in Nat /\ DOMAIN items = 1..Len(items)
           /\ Len(out) \in Nat /\ DOMAIN out = 1..Len(out)
           /\ Len(file) \in Nat /\ DOMAIN file = 1..Len(file)
           /\ Len(source) \in Nat /\ DOMAIN source = 1..Len(source)
           /\ Len(snapshot) \in Nat /\ DOMAIN snapshot = 1..Len(snapshot)
  BY LenProperties DEF TypeOK

(* The first process has not started.                                      *)
LEMMA InitIInv == Init => IInv
<1> SUFFICES ASSUME Init PROVE IInv
  OBVIOUS
<1>1. <<>> \in Seq(Items) /\ <<>> \in Seq(Lines) /\ DOMAIN <<>> = {} /\ Len(<<>>) = 0
  OBVIOUS
<1>2. file \in Seq(Lines) /\ 0 \in 0..MaxSets /\ 0 \in 0..MaxLives
  BY BoundAssumption DEF Init
<1>3. TypeOK
  BY <1>1, <1>2 DEF Init, TypeOK
<1>4. Keyed
  BY <1>1 DEF Init, Keyed, OncePerKey, OneLinePerKey
<1>5. SavedKeys /\ IsImage /\ LoadedSoFar /\ Loaded /\ Untouched
  BY DEF Init, SavedKeys, IsImage, LoadedSoFar, Loaded, Untouched
<1> QED
  BY <1>3, <1>4, <1>5 DEF IInv

(* A process starts, and its table is empty.                               *)
LEMMA ModuleInitIInv ==
    ASSUME IInv, ModuleInit
    PROVE  IInv'
<1>1. <<>> \in Seq(Items) /\ DOMAIN <<>> = {}
  OBVIOUS
<1>2. TypeOK'
  <2>1. lives' \in 0..MaxLives
    BY BoundAssumption DEF ModuleInit, IInv, TypeOK
  <2> QED
    BY <1>1, <2>1 DEF ModuleInit, IInv, TypeOK
<1>3. Keyed'
  BY <1>1 DEF ModuleInit, IInv, Keyed, OncePerKey, OneLinePerKey
<1>4. IsImage'
  BY DEF ModuleInit, IInv, IsImage
<1>5. SavedKeys' /\ LoadedSoFar' /\ Loaded' /\ Untouched'
  BY DEF ModuleInit, SavedKeys, LoadedSoFar, Loaded, Untouched
<1> QED
  BY <1>2, <1>3, <1>4, <1>5 DEF IInv

(* Loading begins: at start with the empty table, later with the table     *)
(* that the program has.                                                   *)
LEMMA LoadBeginIInv ==
    ASSUME IInv, LoadBegin, mpc \in {"inited", "up"}
    PROVE  IInv'
<1>1. TypeOK'
  BY DEF LoadBegin, IInv, TypeOK
<1>2. Keyed' /\ IsImage'
  BY DEF LoadBegin, IInv, Keyed, OneLinePerKey, IsImage
<1>3. SavedKeys' /\ Loaded' /\ Untouched'
  BY DEF LoadBegin, SavedKeys, Loaded, Untouched
<1>4. LoadedSoFar'
  <2> SUFFICES ASSUME trusted, ~touched
               PROVE  /\ 0 <= Len(file)
                      /\ \/ \A j \in 1..Len(items) : FALSE
                         \/ \A n \in 1..Len(snapshot) : Kept(snapshot, items, n)
    BY DEF LoadBegin, LoadedSoFar
  <2>1. CASE mpc = "inited"
    <3>1. items = <<>> /\ Len(<<>>) = 0
      BY <2>1 DEF IInv, Untouched
    <3> QED
      BY <3>1, Lengths DEF IInv
  <2>2. CASE mpc = "up"
    BY <2>2, Lengths DEF IInv, Loaded
  <2> QED
    BY <2>1, <2>2
<1> QED
  BY <1>1, <1>2, <1>3, <1>4 DEF IInv

(* config_module_start.                                                    *)
LEMMA StartIInv ==
    ASSUME IInv, Start
    PROVE  IInv'
<1>1. CASE LoadBegin
  BY <1>1, LoadBeginIInv DEF Start
<1>2. CASE ~LoadBegin
  <2>1. /\ mpc' = "up" /\ touched' = TRUE
        /\ UNCHANGED <<store, file, source, line, out, closing, sets, lives,
                       mine, trusted, snapshot, before, quiet>>
    BY <1>2 DEF Start
  <2>2. TypeOK'
    BY <2>1 DEF IInv, TypeOK
  <2>3. Keyed' /\ IsImage'
    BY <2>1 DEF IInv, Keyed, OneLinePerKey, IsImage
  <2>4. SavedKeys' /\ Loaded' /\ Untouched' /\ LoadedSoFar'
    BY <2>1 DEF SavedKeys, Loaded, Untouched, LoadedSoFar
  <2> QED
    BY <2>2, <2>3, <2>4 DEF IInv
<1> QED
  BY <1>1, <1>2

(* config_load_from_file, called again.                                    *)
LEMMA ReloadIInv ==
    ASSUME IInv, Reload
    PROVE  IInv'
  BY LoadBeginIInv DEF Reload

(* Loading one line of the image of a snapshot restores its item and keeps *)
(* the others.                                                             *)
LEMMA LineRestores ==
    ASSUME TypeOK, OncePerKey(items), OncePerKey(snapshot), IsImage, LoadedSoFar,
           mpc = "loading", trusted, ~touched, line < Len(source),
           Trim[source[line + 1].text] # NoText,
           NEW r, r = SetItem(items, source[line + 1].key, Parse(source[line + 1].text))
    PROVE  /\ \A n \in 1..line + 1 : Kept(snapshot, r, n)
           /\ \/ \A j \in 1..Len(r) : \E n \in 1..line + 1 : r[j].key = source[n].key
              \/ \A n \in 1..Len(snapshot) : Kept(snapshot, r, n)
<1> DEFINE m == line + 1
           k == source[m].key
           w == Parse(source[m].text)
           x == [key |-> k, val |-> w]
<1>1. /\ line \in Nat /\ Len(items) \in Nat /\ Len(snapshot) \in Nat
      /\ DOMAIN snapshot = 1..Len(snapshot)
  BY Lengths DEF TypeOK
<1>2. /\ source = file /\ Len(source) = Len(snapshot) /\ m \in 1..Len(snapshot)
      /\ \A n \in 1..Len(snapshot) : /\ source[n].key = snapshot[n].key
                                     /\ source[n].text = Format(snapshot[n].val)
  BY <1>1 DEF LoadedSoFar, IsImage
<1>3. /\ \A n \in 1..Len(items) : items[n] \in Items
      /\ \A n \in 1..Len(snapshot) : snapshot[n] \in Items
      /\ source[m] \in Lines
  BY <1>1, <1>2, ElementOfSeq DEF TypeOK
<1>4. k \in Keys /\ w \in Values
  BY <1>3, ParseType DEF Lines
<1>5. \A n \in 1..Len(snapshot) : snapshot[n].key = k => n = m
  BY <1>1, <1>2 DEF OncePerKey
<1>6. /\ r \in Seq(Items) /\ Len(items) <= Len(r)
      /\ \A n \in 1..Len(items) : r[n].key = items[n].key
      /\ \A n \in 1..Len(items) : items[n].key # k => r[n] = items[n]
      /\ \A n \in 1..Len(items) : r[n] = items[n] \/ (r[n] = x /\ items[n].key = k)
      /\ \A n \in Len(items)+1..Len(r) : r[n] = x
      /\ (\A n \in 1..Len(items) : items[n].key # k) => Len(r) = Len(items) + 1
  <2>1. items \in Seq(Items)
    BY DEF TypeOK
  <2>2. r = SetItem(items, k, w) /\ x = [key |-> k, val |-> w]
    OBVIOUS
  <2> HIDE DEF k, w, x
  <2> QED
    BY <1>4, <2>1, <2>2, SetItemKeeps
<1>7. Len(r) \in Nat
  BY <1>6, LenProperties
<1>8. Carried(snapshot[m].val) => w = Restored(snapshot[m].val)
  <2>1. snapshot[m].val \in Values
    BY <1>2, <1>3 DEF Items
  <2> QED
    BY <1>2, <2>1, ParseFormat
<1>9. ASSUME NEW n \in 1..Len(snapshot), Kept(snapshot, items, n)
      PROVE  Kept(snapshot, r, n)
  <2> DEFINE v == snapshot[n].val
  <2> SUFFICES ASSUME Carried(v)
               PROVE  \E j \in 1..Len(r) : r[j].key = snapshot[n].key /\ r[j].val \in {v, Restored(v)}
    BY DEF Kept
  <2>1. PICK j \in 1..Len(items) : items[j].key = snapshot[n].key /\ items[j].val \in {v, Restored(v)}
    BY <1>9 DEF Kept
  <2>2. r[j].key = snapshot[n].key /\ r[j].val \in {v, Restored(v)}
    <3>1. CASE r[j] = items[j]
      BY <2>1, <3>1
    <3>2. CASE r[j] = x /\ items[j].key = k
      <4>1. n = m
        BY <1>5, <2>1, <3>2
      <4>2. r[j].val = w /\ r[j].key = k
        BY <3>2
      <4> QED
        BY <1>8, <2>1, <3>2, <4>1, <4>2
    <3> QED
      BY <1>6, <3>1, <3>2
  <2>3. j \in 1..Len(r)
    BY <1>1, <1>6, <1>7
  <2> QED
    BY <2>2, <2>3
<1>10. \A n \in 1..line : n \in 1..Len(snapshot) /\ n \in 1..m /\ n # m
  BY <1>1, <1>2
<1>11. \A n \in 1..m : n \in 1..line \/ n = m
  BY <1>1
<1>12. \A n \in 1..line : Kept(snapshot, r, n)
  BY <1>9, <1>10 DEF LoadedSoFar
<1>13. CASE \A j \in 1..Len(items) : \E n \in 1..line : items[j].key = source[n].key
  <2>1. \A j \in 1..Len(items) : items[j].key # k
    BY <1>2, <1>5, <1>10, <1>13
  <2>2. Len(r) = Len(items) + 1 /\ Len(r) \in 1..Len(r) /\ Len(r) \in Len(items)+1..Len(r)
    BY <1>1, <1>6, <2>1
  <2>3. r[Len(r)] = x
    BY <1>6, <2>2
  <2>4. Kept(snapshot, r, m)
    <3>1. r[Len(r)].key = snapshot[m].key /\ r[Len(r)].val = w
      BY <1>2, <2>3
    <3> QED
      BY <1>8, <2>2, <3>1 DEF Kept
  <2>5. \A j \in 1..Len(r) : \E n \in 1..m : r[j].key = source[n].key
    <3> TAKE j \in 1..Len(r)
    <3>1. CASE j \in 1..Len(items)
      <4>1. r[j].key = items[j].key
        BY <1>6, <3>1
      <4> QED
        BY <1>10, <1>13, <3>1, <4>1
    <3>2. CASE j = Len(r)
      <4>1. r[j].key = source[m].key /\ m \in 1..m
        BY <1>1, <2>3, <3>2
      <4> QED
        BY <4>1
    <3> QED
      BY <1>1, <2>2, <3>1, <3>2
  <2> QED
    BY <1>11, <1>12, <2>4, <2>5
<1>14. CASE \A n \in 1..Len(snapshot) : Kept(snapshot, items, n)
  BY <1>2, <1>9, <1>11, <1>12, <1>14
<1> QED
  BY <1>13, <1>14 DEF LoadedSoFar

(* Loading goes on.                                                        *)
LEMMA LoadLineIInv ==
    ASSUME IInv, LoadLine
    PROVE  IInv'
<1> DEFINE m == line + 1
           skip == Trim[source[m].text] = NoText
           r == SetItem(items, source[m].key, Parse(source[m].text))
<1> USE DEF IInv
<1>1. /\ mpc = "loading" /\ mpc' = mpc /\ line < Len(source) /\ line' = m
      /\ items' = IF skip THEN items ELSE r
      /\ UNCHANGED <<auto_save, has_file, file, source, out, closing, sets, lives, history>>
  BY DEF LoadLine
<1>2. line \in Nat /\ Len(source) \in Nat /\ m \in 1..Len(source)
  BY <1>1, Lengths DEF TypeOK
<1>3. source[m].key \in Keys /\ source[m].text \in Texts
  <2>1. source[m] \in Lines
    BY <1>2, ElementOfSeq DEF TypeOK
  <2> QED
    BY <2>1 DEF Lines
<1>4. ~skip => r \in Seq(Items) /\ OncePerKey(r)
  <2> SUFFICES ASSUME ~skip PROVE r \in Seq(Items) /\ OncePerKey(r)
    OBVIOUS
  <2>1. Parse(source[m].text) \in Values
    BY <1>3, ParseType
  <2>2. items \in Seq(Items) /\ OncePerKey(items)
    BY DEF TypeOK, Keyed
  <2> QED
    BY <1>3, <2>1, <2>2, SetItemKeeps
<1>5. items' \in Seq(Items) /\ OncePerKey(items')
  <2>1. items \in Seq(Items) /\ OncePerKey(items)
    BY DEF TypeOK, Keyed
  <2> QED
    BY <1>1, <1>4, <2>1
<1>6. TypeOK'
  <2>1. m \in Nat
    BY <1>2
  <2> QED
    BY <1>1, <1>5, <2>1 DEF TypeOK
<1>7. Keyed'
  BY <1>1, <1>5 DEF Keyed, OneLinePerKey
<1>8. SavedKeys' /\ IsImage' /\ Loaded' /\ Untouched'
  BY <1>1 DEF SavedKeys, IsImage, Loaded, Untouched
<1>9. LoadedSoFar'
  <2> SUFFICES ASSUME trusted, ~touched
               PROVE  /\ source = file /\ m <= Len(source)
                      /\ \A n \in 1..m : Kept(snapshot, items', n)
                      /\ \/ \A j \in 1..Len(items') : \E n \in 1..m : items'[j].key = source[n].key
                         \/ \A n \in 1..Len(snapshot) : Kept(snapshot, items', n)
    <3>1. \A n : Kept(snapshot, items, n)' <=> Kept(snapshot, items', n)
      BY <1>1 DEF Kept
    <3>2. /\ source' = source /\ file' = file /\ snapshot' = snapshot /\ line' = m
          /\ trusted' = trusted /\ touched' = touched
      BY <1>1
    <3> HIDE DEF IInv, m
    <3> QED
      BY <3>1, <3>2 DEF LoadedSoFar
  <2>1. source = file /\ m <= Len(source)
    BY <1>1, <1>2 DEF LoadedSoFar
  <2>2. CASE skip
    <3>1. /\ \A n \in 1..line : Kept(snapshot, items, n)
          /\ \/ \A j \in 1..Len(items) : \E n \in 1..line : items[j].key = source[n].key
             \/ \A n \in 1..Len(snapshot) : Kept(snapshot, items, n)
      BY <1>1 DEF LoadedSoFar
    <3>2. ~Carried(snapshot[m].val)
      <4>1. m \in 1..Len(snapshot) /\ source[m].text = Format(snapshot[m].val)
        BY <1>2, <2>1 DEF IsImage
      <4>2. snapshot[m] \in Items
        BY <4>1, ElementOfSeq DEF TypeOK
      <4>3. snapshot[m].val \in Values
        BY <4>2 DEF Items
      <4> QED
        BY <2>2, <4>1, <4>3, ParseFormat
    <3>3. \A n \in 1..m : n \in 1..line \/ n = m
      BY <1>2
    <3>4. \A n \in 1..m : Kept(snapshot, items, n)
      BY <3>1, <3>2, <3>3 DEF Kept
    <3>5. \A n \in 1..line : n \in 1..m
      BY <1>2
    <3>6. items' = items
      BY <1>1, <2>2
    <3> QED
      BY <2>1, <3>1, <3>4, <3>5, <3>6
  <2>3. CASE ~skip
    <3>1. items' = r
      BY <1>1, <2>3
    <3>2. OncePerKey(items) /\ OncePerKey(snapshot)
      BY DEF Keyed
    <3>3. /\ \A n \in 1..m : Kept(snapshot, r, n)
          /\ \/ \A j \in 1..Len(r) : \E n \in 1..m : r[j].key = source[n].key
             \/ \A n \in 1..Len(snapshot) : Kept(snapshot, r, n)
      BY <1>1, <2>3, <3>2, LineRestores
    <3> QED
      BY <2>1, <3>1, <3>3
  <2> QED
    BY <2>2, <2>3
<1> QED
  BY <1>6, <1>7, <1>8, <1>9

(* The last line has been read.                                            *)
LEMMA LoadEndIInv ==
    ASSUME IInv, LoadEnd
    PROVE  IInv'
<1> USE DEF IInv
<1>1. TypeOK'
  BY DEF LoadEnd, TypeOK
<1>2. Keyed' /\ IsImage'
  BY DEF LoadEnd, Keyed, OneLinePerKey, IsImage
<1>3. SavedKeys' /\ LoadedSoFar' /\ Untouched'
  BY DEF LoadEnd, SavedKeys, LoadedSoFar, Untouched
<1>4. Loaded'
  <2> SUFFICES ASSUME trusted, ~touched
               PROVE  \A n \in 1..Len(snapshot) : Kept(snapshot, items, n)
    BY DEF LoadEnd, Loaded, Kept
  <2>1. line = Len(snapshot)
    BY DEF LoadEnd, LoadedSoFar, IsImage
  <2> QED
    BY <2>1 DEF LoadEnd, LoadedSoFar
<1> QED
  BY <1>1, <1>2, <1>3, <1>4

(* A save begins: the file is empty and nothing in it can be trusted.      *)
LEMMA SaveBeginIInv ==
    ASSUME IInv, NEW c \in BOOLEAN, SaveBegin(c)
    PROVE  IInv'
<1> USE DEF IInv
<1>1. <<>> \in Seq(Lines) /\ DOMAIN <<>> = {} /\ Len(<<>>) = 0
  OBVIOUS
<1>2. TypeOK'
  BY <1>1 DEF SaveBegin, TypeOK
<1>3. Keyed'
  BY <1>1 DEF SaveBegin, Keyed, OneLinePerKey, OncePerKey
<1>4. SavedKeys'
  <2>1. 0 <= Len(items)
    BY Lengths
  <2>2. \A n \in 1..0 : FALSE
    OBVIOUS
  <2> QED
    BY <1>1, <2>1, <2>2 DEF SaveBegin, SavedKeys
<1>5. IsImage' /\ LoadedSoFar' /\ Loaded' /\ Untouched'
  BY DEF SaveBegin, IsImage, LoadedSoFar, Loaded, Untouched
<1> QED
  BY <1>2, <1>3, <1>4, <1>5

LEMMA SaveIInv ==
    ASSUME IInv, Save \/ CleanupSaves
    PROVE  IInv'
  BY SaveBeginIInv DEF Save, CleanupSaves

(* One item is printed.                                                    *)
LEMMA SaveLineIInv ==
    ASSUME IInv, SaveLine
    PROVE  IInv'
<1> DEFINE m == line + 1
           l == [key |-> items[m].key, text |-> Format(items[m].val)]
<1> USE DEF IInv
<1>1. /\ mpc = "saving" /\ mpc' = mpc /\ line < Len(items) /\ line' = m
      /\ out' = Append(out, l)
      /\ UNCHANGED <<mpc, store, file, source, closing, sets, lives, history>>
  BY DEF SaveLine
<1>2. line \in Nat /\ Len(items) \in Nat /\ m \in 1..Len(items) /\ m \in Nat
  BY <1>1, Lengths DEF TypeOK
<1>3. l \in Lines /\ l.key = items[m].key
  <2>1. items[m] \in Items
    BY <1>2, ElementOfSeq DEF TypeOK
  <2>2. items[m].key \in Keys /\ items[m].val \in Values
    BY <2>1 DEF Items
  <2> QED
    BY <2>2, FormatType DEF Lines
<1>4. /\ out' \in Seq(Lines) /\ Len(out') = Len(out) + 1 /\ out'[Len(out) + 1] = l
      /\ \A n \in 1..Len(out) : out'[n] = out[n]
  <2>1. out \in Seq(Lines)
    BY DEF TypeOK
  <2> HIDE DEF l
  <2> QED
    BY <1>1, <1>3, <2>1, AppendProperties
<1>5. TypeOK'
  BY <1>1, <1>2, <1>4 DEF TypeOK
<1>6. Keyed' /\ IsImage'
  BY <1>1 DEF Keyed, OneLinePerKey, IsImage
<1>7. LoadedSoFar' /\ Loaded' /\ Untouched'
  BY <1>1 DEF LoadedSoFar, Loaded, Untouched
<1>8. SavedKeys'
  <2>1. Len(out) = line /\ ~trusted /\ \A n \in 1..Len(out) : out[n].key = items[n].key
    BY <1>1 DEF SavedKeys
  <2>2. \A n \in 1..m : n \in 1..line \/ n = m
    BY <1>2
  <2>3. \A n \in 1..m : out'[n].key = items[n].key
    BY <1>3, <1>4, <2>1, <2>2
  <2>4. Len(out') = m /\ m <= Len(items)
    BY <1>2, <1>4, <2>1
  <2> QED
    BY <1>1, <2>1, <2>3, <2>4 DEF SavedKeys
<1> QED
  BY <1>5, <1>6, <1>7, <1>8

(* The file is closed: it has the keys of the table, and is its image if   *)
(* no setter changed what had been printed.                                *)
LEMMA SaveEndIInv ==
    ASSUME IInv, SaveEnd
    PROVE  IInv'
<1> USE DEF IInv
<1>1. /\ mpc = "saving" /\ line = Len(items) /\ mpc' \in {"saved", "up"}
      /\ file' = out /\ snapshot' = items
      /\ UNCHANGED <<store, source, line, out, closing, sets, lives, touched, mine, before>>
  BY DEF SaveEnd
<1>2. Len(out) = Len(items) /\ \A n \in 1..Len(items) : out[n].key = items[n].key
  BY <1>1 DEF SavedKeys
<1>3. /\ DOMAIN out = 1..Len(items) /\ DOMAIN items = 1..Len(items)
      /\ Len(items) \in Nat
  BY <1>2, Lengths
<1>4. TypeOK'
  <2>1. quiet' \in Nat
    <3>1. quiet \in Nat /\ quiet' = IF touched THEN 0 ELSE quiet + (IF closing THEN 1 ELSE 0)
      BY DEF SaveEnd, TypeOK
    <3> QED
      BY <3>1
  <2>2. trusted' \in BOOLEAN
    BY DEF SaveEnd
  <2> QED
    BY <1>1, <2>1, <2>2 DEF TypeOK
<1>5. Keyed'
  <2>1. OncePerKey(items)
    BY DEF Keyed
  <2>2. OncePerKey(out)
    BY <1>2, <1>3, <2>1 DEF OncePerKey
  <2>3. OncePerKey(items)' /\ OncePerKey(snapshot)' /\ OncePerKey(file)'
    BY <1>1, <2>1, <2>2 DEF OncePerKey
  <2> QED
    BY <2>3 DEF Keyed, OneLinePerKey
<1>6. IsImage'
  <2> SUFFICES ASSUME trusted'
               PROVE  /\ Len(out) = Len(items)
                      /\ \A n \in 1..Len(items) : /\ out[n].key = items[n].key
                                                  /\ out[n].text = Format(items[n].val)
    BY <1>1 DEF IsImage
  <2>1. \A n \in DOMAIN items : out[n].text = Format(items[n].val)
    BY DEF SaveEnd
  <2> QED
    BY <1>2, <1>3, <2>1
<1>7. SavedKeys' /\ LoadedSoFar' /\ Untouched'
  BY <1>1 DEF SavedKeys, LoadedSoFar, Untouched
<1>8. Loaded'
  BY <1>1 DEF Loaded, Kept
<1> QED
  BY <1>4, <1>5, <1>6, <1>7, <1>8

(* The table is freed.                                                     *)
LEMMA CleanupFreesIInv ==
    ASSUME IInv, CleanupFrees
    PROVE  IInv'
<1> USE DEF IInv
<1>1. <<>> \in Seq(Items) /\ DOMAIN <<>> = {}
  OBVIOUS
<1>2. TypeOK'
  BY <1>1 DEF CleanupFrees, TypeOK
<1>3. Keyed' /\ IsImage'
  BY <1>1 DEF CleanupFrees, Keyed, OneLinePerKey, OncePerKey, IsImage
<1>4. SavedKeys' /\ LoadedSoFar' /\ Loaded' /\ Untouched'
  BY DEF CleanupFrees, SavedKeys, LoadedSoFar, Loaded, Untouched
<1> QED
  BY <1>2, <1>3, <1>4

(* What a torn save leaves has one line per key.                           *)
LEMMA TornLines ==
    ASSUME out \in Seq(Lines), OncePerKey(out), NEW f \in Torn
    PROVE  f \in Seq(Lines) /\ OncePerKey(f)
<1>1. /\ Len(out) \in Nat /\ DOMAIN out = 1..Len(out)
      /\ \A i \in 1..Len(out) : out[i] \in Lines
  BY LenProperties, ElementOfSeq
<1>2. ASSUME NEW n \in 0..Len(out), NEW g, g = SubSeq(out, 1, n)
      PROVE  /\ g \in Seq(Lines) /\ Len(g) = n /\ DOMAIN g = 1..n
             /\ \A i \in 1..n : g[i] = out[i] /\ i \in 1..Len(out)
  <2>1. \A i \in 1..n : i \in 1..Len(out)
    BY <1>1
  <2>2. g = [i \in 1..n |-> out[i]]
    BY <1>1, <1>2
  <2>3. g \in Seq(Lines)
    <3>1. n \in Nat /\ \A i \in 1..n : out[i] \in Lines
      BY <1>1, <2>1
    <3> QED
      BY <2>2, <3>1, IsASeq
  <2>4. Len(g) = n
    BY <1>1, <2>2, <2>3, LenProperties
  <2> QED
    BY <2>1, <2>2, <2>3, <2>4
<1>3. CASE \E n \in 0..Len(out) : f = SubSeq(out, 1, n)
  BY <1>1, <1>2, <1>3 DEF OncePerKey
<1>4. CASE \E n \in 0..Len(out) - 1 : \E t \in Cut[out[n + 1].text] :
              f = Append(SubSeq(out, 1, n), [key |-> out[n + 1].key, text |-> t])
  <2>1. PICK n \in 0..Len(out) - 1 : \E t \in Cut[out[n + 1].text] :
              f = Append(SubSeq(out, 1, n), [key |-> out[n + 1].key, text |-> t])
    BY <1>4
  <2>2. PICK t \in Cut[out[n + 1].text] :
              f = Append(SubSeq(out, 1, n), [key |-> out[n + 1].key, text |-> t])
    BY <2>1
  <2> DEFINE l == [key |-> out[n + 1].key, text |-> t]
             g == SubSeq(out, 1, n)
  <2>3. n \in Nat /\ n \in 0..Len(out) /\ n + 1 \in 1..Len(out)
    BY <1>1
  <2>4. l \in Lines /\ l.key = out[n + 1].key
    <3>1. out[n + 1].key \in Keys /\ out[n + 1].text \in Texts
      BY <1>1, <2>3 DEF Lines
    <3>2. t \in Texts
      BY <3>1, TextAssumption
    <3> QED
      BY <3>1, <3>2 DEF Lines
  <2>5. /\ g \in Seq(Lines) /\ Len(g) = n
        /\ \A i \in 1..n : g[i] = out[i] /\ i \in 1..Len(out)
    BY <1>2, <2>3
  <2>6. f = Append(g, l)
    BY <2>2
  <2> HIDE DEF l, g
  <2>7. /\ f \in Seq(Lines) /\ Len(f) = n + 1 /\ f[n + 1] = l
        /\ \A i \in 1..n : f[i] = g[i]
    BY <2>4, <2>5, <2>6, AppendProperties
  <2>8. DOMAIN f = 1..n + 1 /\ \A i \in 1..n + 1 : i \in 1..n \/ i = n + 1
    BY <2>3, <2>7, LenProperties
  <2>9. \A i \in 1..n + 1 : f[i].key = out[i].key /\ i \in 1..Len(out)
    BY <2>3, <2>4, <2>5, <2>7, <2>8
  <2>10. OncePerKey(f)
    BY <1>1, <2>8, <2>9 DEF OncePerKey
  <2> QED
    BY <2>7, <2>10
<1> QED
  BY <1>3, <1>4 DEF Torn

(* The process dies, perhaps in the middle of a save.                      *)
LEMMA CrashIInv ==
    ASSUME IInv, Crash
    PROVE  IInv'
<1> USE DEF IInv
<1>1. <<>> \in Seq(Items) /\ DOMAIN <<>> = {}
  OBVIOUS
<1>2. file' \in Seq(Lines) /\ (mine => OncePerKey(file'))
  <2>1. CASE mpc = "saving"
    <3>1. out \in Seq(Lines) /\ file' \in Torn
      BY <2>1 DEF Crash, TypeOK
    <3>2. OncePerKey(out)
      <4>1. /\ DOMAIN out = 1..Len(out) /\ Len(out) \in Nat /\ Len(items) \in Nat
            /\ DOMAIN items = 1..Len(items)
        BY Lengths
      <4>2. Len(out) <= Len(items) /\ \A n \in 1..Len(out) : out[n].key = items[n].key
        BY <2>1 DEF SavedKeys
      <4>3. \A n \in 1..Len(out) : n \in 1..Len(items)
        BY <4>1, <4>2
      <4>4. OncePerKey(items)
        BY DEF Keyed
      <4> QED
        BY <4>1, <4>2, <4>3, <4>4 DEF OncePerKey
    <3> QED
      BY <3>1, <3>2, TornLines
  <2>2. CASE mpc # "saving"
    BY <2>2 DEF Crash, TypeOK, Keyed, OneLinePerKey
  <2> QED
    BY <2>1, <2>2
<1>3. TypeOK'
  <2>1. quiet' \in Nat
    BY DEF Crash, TypeOK
  <2> QED
    BY <1>1, <1>2, <2>1 DEF Crash, TypeOK
<1>4. Keyed'
  <2>1. OncePerKey(file') = OncePerKey(file)'
    BY DEF OncePerKey
  <2> QED
    BY <1>1, <1>2, <2>1 DEF Crash, Keyed, OneLinePerKey, OncePerKey
<1>5. IsImage'
  <2>1. CASE mpc = "saving"
    BY <2>1 DEF Crash, SavedKeys, IsImage
  <2>2. CASE mpc # "saving"
    BY <2>2 DEF Crash, IsImage
  <2> QED
    BY <2>1, <2>2
<1>6. SavedKeys' /\ LoadedSoFar' /\ Loaded' /\ Untouched'
  BY DEF Crash, SavedKeys, LoadedSoFar, Loaded, Untouched
<1> QED
  BY <1>3, <1>4, <1>5, <1>6

(* A setter runs, beside a load or a save too: the keys that have been     *)
(* printed stay where they are.                                            *)
LEMMA SetIInv ==
    ASSUME IInv, NEW k \in Keys, NEW v \in SetValues, Set(k, v)
    PROVE  IInv'
<1> USE DEF IInv
<1>1. /\ items' = SetItem(items, k, v) /\ sets < MaxSets /\ sets' = sets + 1 /\ touched' = TRUE
      /\ UNCHANGED <<mpc, auto_save, has_file, file, source, line, out, closing, lives,
                     mine, trusted, snapshot, before, quiet>>
  BY DEF Set
<1>2. /\ items' \in Seq(Items) /\ OncePerKey(items') /\ Len(items) <= Len(items')
      /\ \A n \in 1..Len(items) : items'[n].key = items[n].key
  <2>1. v \in Values
    BY BoundAssumption
  <2>2. items \in Seq(Items) /\ OncePerKey(items)
    BY DEF TypeOK, Keyed
  <2>3. PICK r, x : r = SetItem(items, k, v) /\ x = [key |-> k, val |-> v]
    OBVIOUS
  <2>4. /\ r \in Seq(Items) /\ OncePerKey(r) /\ Len(items) <= Len(r)
        /\ \A n \in 1..Len(items) : r[n].key = items[n].key
    BY <2>1, <2>2, <2>3, SetItemKeeps
  <2> QED
    BY <1>1, <2>3, <2>4
<1>3. TypeOK'
  <2>1. sets' \in 0..MaxSets
    BY <1>1, BoundAssumption DEF TypeOK
  <2> QED
    BY <1>1, <1>2, <2>1 DEF TypeOK
<1>4. Keyed'
  <2>1. OncePerKey(items)'
    BY <1>2 DEF OncePerKey
  <2>2. OncePerKey(snapshot)' /\ OneLinePerKey'
    BY <1>1 DEF Keyed, OneLinePerKey
  <2> QED
    BY <2>1, <2>2 DEF Keyed
<1>5. SavedKeys'
  <2> SUFFICES ASSUME mpc = "saving"
               PROVE  /\ ~trusted /\ Len(out) = line /\ line <= Len(items')
                      /\ \A n \in 1..Len(out) : out[n].key = items'[n].key
    BY <1>1 DEF SavedKeys
  <2>1. /\ ~trusted /\ Len(out) = line /\ line <= Len(items)
        /\ \A n \in 1..Len(out) : out[n].key = items[n].key
    BY DEF SavedKeys
  <2>2. line \in Nat /\ Len(items) \in Nat /\ Len(items') \in Nat
    BY <1>2, Lengths, LenProperties DEF TypeOK
  <2>3. \A n \in 1..Len(out) : n \in 1..Len(items)
    BY <2>1, <2>2
  <2>4. line <= Len(items')
    BY <1>2, <2>1, <2>2
  <2> QED
    BY <1>2, <2>1, <2>3, <2>4
<1>6. IsImage'
  BY <1>1 DEF IsImage
<1>7. Untouched' /\ LoadedSoFar' /\ Loaded'
  BY <1>1 DEF Untouched, LoadedSoFar, Loaded
<1> QED
  BY <1>3, <1>4, <1>5, <1>6, <1>7

(* config_module_set_config, and steps that change nothing.                *)
LEMMA SetConfigIInv ==
    ASSUME IInv, NEW save \in BOOLEAN, NEW path \in BOOLEAN, SetConfig(save, path)
    PROVE  IInv'
<1> USE DEF IInv
<1>1. TypeOK'
  BY DEF SetConfig, TypeOK
<1>2. Keyed' /\ SavedKeys' /\ IsImage'
  BY DEF SetConfig, Keyed, OneLinePerKey, SavedKeys, IsImage
<1>3. LoadedSoFar' /\ Loaded' /\ Untouched'
  BY DEF SetConfig, LoadedSoFar, Loaded, Kept, Untouched
<1> QED
  BY <1>1, <1>2, <1>3

LEMMA StutterIInv ==
    ASSUME IInv, UNCHANGED vars
    PROVE  IInv'
<1> USE DEF IInv
<1>1. TypeOK'
  BY DEF vars, TypeOK
<1>2. Keyed' /\ SavedKeys' /\ IsImage'
  BY DEF vars, Keyed, OneLinePerKey, SavedKeys, IsImage
<1>3. LoadedSoFar' /\ Loaded' /\ Untouched'
  BY DEF vars, LoadedSoFar, Loaded, Kept, Untouched
<1> QED
  BY <1>1, <1>2, <1>3

(* The invariant holds over all lives of the process.                      *)
LEMMA InvariantHolds == Spec => []IInv
<1>1. IInv /\ [Next]_vars => IInv'
  <2> SUFFICES ASSUME IInv, [Next]_vars PROVE IInv'
    OBVIOUS
  <2>1. CASE ModuleInit
    BY <2>1, ModuleInitIInv
  <2>2. CASE Start
    BY <2>2, StartIInv
  <2>3. CASE Reload
    BY <2>3, ReloadIInv
  <2>4. CASE LoadLine
    BY <2>4, LoadLineIInv
  <2>5. CASE LoadEnd
    BY <2>5, LoadEndIInv
  <2>6. CASE Save \/ CleanupSaves
    BY <2>6, SaveIInv
  <2>7. CASE SaveLine
    BY <2>7, SaveLineIInv
  <2>8. CASE SaveEnd
    BY <2>8, SaveEndIInv
  <2>9. CASE CleanupFrees
    BY <2>9, CleanupFreesIInv
  <2>10. CASE Crash
    BY <2>10, CrashIInv
  <2>11. CASE \E k \in Keys, v \in SetValues : Set(k, v)
    <3>1. PICK k \in Keys, v \in SetValues : Set(k, v)
      BY <2>11
    <3> QED
      BY <3>1, SetIInv
  <2>12. CASE \E save, path \in BOOLEAN : SetConfig(save, path)
    <3>1. PICK save \in BOOLEAN, path \in BOOLEAN : SetConfig(save, path)
      BY <2>12
    <3> QED
      BY <3>1, SetConfigIInv
  <2>13. CASE UNCHANGED vars
    BY <2>13, StutterIInv
  <2> QED
    BY <2>1, <2>2, <2>3, <2>4, <2>5, <2>6, <2>7, <2>8, <2>9, <2>10, <2>11, <2>12, <2>13 DEF Next
<1> QED
  BY <1>1, InitIInv, PTL DEF Spec

(* config_save_to_file: whatever setters do to the list that it walks, and *)
(* wherever a crash cuts the file, no key has two lines.                   *)
THEOREM OneLineCorrect == Spec => []OneLinePerKey
<1>1. IInv => OneLinePerKey
  BY DEF IInv, Keyed
<1> QED
  BY <1>1, InvariantHolds, PTL

(* config_save_to_file and config_load_from_file: of what a completed save *)
(* has written, everything that a text can carry is in the table of a      *)
(* later life: booleans, other integers and plain strings unchanged, 0 and *)
(* 1 as booleans, floats with the six digits that were printed.            *)
THEOREM RestartCorrect == Spec => []SurvivesRestart
<1>1. IInv => SurvivesRestart
  <2> SUFFICES ASSUME IInv, mpc = "up", trusted, ~touched,
                      NEW n \in DOMAIN snapshot, Carried(snapshot[n].val)
               PROVE  \E j \in DOMAIN items :
                          /\ items[j].key = snapshot[n].key
                          /\ items[j].val \in {snapshot[n].val, Restored(snapshot[n].val)}
    BY DEF SurvivesRestart
  <2>1. DOMAIN snapshot = 1..Len(snapshot) /\ DOMAIN items = 1..Len(items)
    BY Lengths DEF IInv
  <2> QED
    BY <2>1 DEF IInv, Loaded, Kept
<1> QED
  BY <1>1, InvariantHolds, PTL

-----------------------------------------------------------------------------
(***************************************************************************)
(* The file settles.  What load makes of any text, save and load give back *)
(* unchanged, but for the integer 1, which is printed as "1" and read as a *)
(* boolean.                                                                *)
(***************************************************************************)

One == Number("INT", 1)

(* A value as load makes it.                                               *)
Parsed(v) ==
    /\ v \in Values
    /\ v.type = "INT" => v.num # 0
    /\ v.type = "STRING" =>
          /\ Trim[v.text] = v.text /\ v.text \notin Dotted /\ Atoi[v.text] = 0
          /\ v.text \notin {"true", "false", "0", "1"}

(* A file of such values, and one that also has no integer 1.              *)
Normal(s) == \A n \in 1..Len(s) : \E v \in Values : Parsed(v) /\ s[n].text = Format(v)
Settled(s) ==
    \A n \in 1..Len(s) : \E v \in Values : Parsed(v) /\ v # One /\ s[n].text = Format(v)

(* The table t holds the first lines of the file s.                        *)
Agrees(t, s) ==
    /\ Len(t) <= Len(s)
    /\ \A n \in 1..Len(t) : t[n].key = s[n].key /\ Format(t[n].val) = s[n].text

Written == mpc = "saving" \/ quiet > 0 => mine

Files ==
    /\ mpc # "saving" /\ quiet > 0 => Normal(file)
    /\ mpc # "saving" /\ quiet > 1 => Settled(file)
    /\ mpc = "loading" /\ quiet > 0 => Normal(source)

(* The table of a life in which no setter was called.                      *)
Table ==
    mpc \in {"loading", "up", "saving"} /\ ~touched =>
        \A n \in 1..Len(items) : Parsed(items[n].val) /\ (quiet > 0 => items[n].val # One)

Printed ==
    mpc = "saving" /\ ~touched => \A n \in 1..line : out[n].text = Format(items[n].val)

(* The third life and the ones after it.                                   *)
Third ==
    quiet > 1 /\ ~touched =>
        /\ mpc \in {"inited", "loading", "up"} => file = before
        /\ mpc \in {"loading", "up", "saving"} => Agrees(items, before)
        /\ mpc \in {"up", "saving"} => Len(items) = Len(before)
        /\ mpc = "loading" => /\ source = before /\ line <= Len(source)
                              /\ Len(items) = line \/ Len(items) = Len(before)

SettleInv == Written /\ Files /\ Table /\ Printed /\ Third /\ FileSettles

(* Load makes such values, of any text.                                    *)
LEMMA ParseParsed ==
    ASSUME NEW t \in Texts, Trim[t] # NoText
    PROVE  Parsed(Parse(t))
<1>1. Parse(t) \in Values
  BY ParseType
<1>2. PICK v : v = Trim[t]
  OBVIOUS
<1>3. v \in Texts /\ Trim[v] = v
  BY <1>2, TextAssumption, LibraryAssumption
<1>4. \/ \E n \in {0, 1} : Parse(t) = Number("BOOL", n)
      \/ Parse(t) = Number("FLOAT", Atof[v])
      \/ Atoi[v] # 0 /\ Parse(t) = Number("INT", Atoi[v])
      \/ /\ v \notin {"true", "false", "0", "1"} /\ v \notin Dotted /\ Atoi[v] = 0
         /\ Parse(t) = String(v)
  BY <1>2 DEF Parse
<1>5. CASE \E n \in {0, 1} : Parse(t) = Number("BOOL", n)
  <2>1. Parse(t).type = "BOOL"
    BY <1>5, NumberFields
  <2> QED
    BY <1>1, <2>1 DEF Parsed
<1>6. CASE Parse(t) = Number("FLOAT", Atof[v])
  <2>1. Parse(t).type = "FLOAT"
    BY <1>6, NumberFields
  <2> QED
    BY <1>1, <2>1 DEF Parsed
<1>7. CASE Atoi[v] # 0 /\ Parse(t) = Number("INT", Atoi[v])
  <2>1. Parse(t).type = "INT" /\ Parse(t).num # 0
    BY <1>7, NumberFields
  <2> QED
    BY <1>1, <2>1 DEF Parsed
<1>8. CASE /\ v \notin {"true", "false", "0", "1"} /\ v \notin Dotted /\ Atoi[v] = 0
           /\ Parse(t) = String(v)
  BY <1>1, <1>3, <1>8 DEF Parsed, String
<1> QED
  BY <1>4, <1>5, <1>6, <1>7, <1>8

(* They are read back as values that print the same, none as the integer 1.*)
LEMMA FormatParsed ==
    ASSUME NEW v, Parsed(v)
    PROVE  /\ Format(v) \in Texts /\ Trim[Format(v)] # NoText
           /\ v # One => Format(Parse(Format(v))) = Format(v)
           /\ Parse(Format(v)) # One
<1>0. v \in Values /\ NoText \notin Texts /\ Format(v) \in Texts
  BY TextAssumption, FormatType DEF Parsed
<1>1. CASE \E n \in Ints : v = Number("INT", n)
  <2>1. PICK n \in Ints : v = Number("INT", n)
    BY <1>1
  <2>2. n # 0 /\ Format(v) = IntText[n] /\ IntText[n] \in Texts
    BY <2>1, TextAssumption DEF Parsed, Number, Format
  <2>3. /\ Trim[IntText[n]] = IntText[n] /\ IntText[n] \notin Dotted
        /\ Atoi[IntText[n]] = n /\ IntText[n] \notin {"true", "false"}
        /\ (IntText[n] = "0" <=> n = 0) /\ (IntText[n] = "1" <=> n = 1)
    BY LibraryAssumption
  <2>4. CASE n = 1
    <3>1. v = One /\ Parse(Format(v)) = Number("BOOL", 1)
      BY <2>1, <2>2, <2>3, <2>4 DEF Parse, One
    <3> QED
      <4>1. Parse(Format(v)).type = "BOOL" /\ One.type = "INT"
        BY <3>1, NumberFields DEF One
      <4> QED
        BY <1>0, <2>2, <2>3, <3>1, <4>1
  <2>5. CASE n # 1
    <3>1. Parse(Format(v)) = Number("INT", n)
      BY <2>2, <2>3, <2>5 DEF Parse
    <3> QED
      <4>1. Parse(Format(v)).num = n /\ One.num = 1
        BY <3>1, NumberFields DEF One
      <4> QED
        BY <1>0, <2>1, <2>2, <2>3, <2>5, <3>1, <4>1
  <2> QED
    BY <2>4, <2>5
<1>2. CASE \E n \in Floats : v = Number("FLOAT", n)
  <2>1. PICK n \in Floats : v = Number("FLOAT", n)
    BY <1>2
  <2>2. Carried(v) /\ v.type = "FLOAT" /\ v.num = n /\ Format(v) = FloatText[n]
    BY <2>1, NumberFields DEF Carried, Format
  <2>3. Trim[Format(v)] # NoText /\ Parse(Format(v)) = Restored(v)
    BY <1>0, <2>2, ParseFormat
  <2>4. One.type = "INT"
    BY NumberFields DEF One
  <2>5. CASE FloatText[n] \in Dotted
    <3>1. Restored(v) = Number("FLOAT", Atof[FloatText[n]])
      BY <2>2, <2>5 DEF Restored
    <3>2. Restored(v).type = "FLOAT" /\ Restored(v).num = Atof[FloatText[n]]
      BY <3>1, NumberFields
    <3>3. Format(Restored(v)) = FloatText[Atof[FloatText[n]]]
      BY <3>2 DEF Format
    <3>4. FloatText[Atof[FloatText[n]]] = FloatText[n]
      BY <2>5, LibraryAssumption
    <3> QED
      BY <1>0, <2>2, <2>3, <2>4, <3>2, <3>3, <3>4
  <2>6. CASE FloatText[n] \notin Dotted
    <3>1. Restored(v) = String(FloatText[n])
      BY <2>2, <2>6 DEF Restored
    <3>2. Restored(v).type = "STRING" /\ Restored(v).text = FloatText[n]
      BY <3>1 DEF String
    <3>3. Format(Restored(v)) = FloatText[n]
      BY <3>2 DEF Format
    <3> QED
      BY <1>0, <2>2, <2>3, <2>4, <3>2, <3>3
  <2> QED
    BY <2>5, <2>6
<1>3. CASE \E n \in {0, 1} : v = Number("BOOL", n)
  <2>1. PICK n \in {0, 1} : v = Number("BOOL", n)
    BY <1>3
  <2>2. Carried(v) /\ v.type = "BOOL" /\ One.type = "INT"
    BY <2>1, NumberFields DEF Carried, One
  <2>3. Restored(v) = v
    BY <2>2 DEF Restored
  <2> QED
    BY <1>0, <2>2, <2>3, ParseFormat
<1>4. CASE \E t \in Texts : v = String(t)
  <2>1. PICK t \in Texts : v = String(t)
    BY <1>4
  <2>2. Format(v) = t /\ v # One
    BY <2>1 DEF String, Format, One, Number
  <2>3. Trim[t] = t /\ t \notin Dotted /\ Atoi[t] = 0 /\ t \notin {"true", "false", "0", "1"}
    BY <2>1 DEF Parsed, String
  <2>4. Parse(t) = String(t)
    BY <2>3 DEF Parse
  <2> QED
    BY <1>0, <2>1, <2>2, <2>3, <2>4
<1> QED
  BY <1>0, <1>1, <1>2, <1>3, <1>4 DEF Values

(* A setter adds or changes no item but the one it is called for.          *)
LEMMA SetItemFrom ==
    ASSUME NEW t \in Seq(Items), NEW k \in Keys, NEW v \in Values,
           NEW x, x = [key |-> k, val |-> v], NEW r, r = SetItem(t, k, v)
    PROVE  \A n \in 1..Len(r) : r[n] = x \/ (n \in 1..Len(t) /\ r[n] = t[n])
<1>1. Len(t) \in Nat /\ DOMAIN t = 1..Len(t) /\ \A n \in 1..Len(t) : t[n] \in Items
  BY LenProperties, ElementOfSeq
<1>2. x \in Items
  BY DEF Items
<1>3. CASE FindItem(t, k) = {}
  <2>1. r = Append(t, x)
    BY <1>3 DEF SetItem
  <2>2. /\ Len(r) = Len(t) + 1 /\ r[Len(t) + 1] = x
        /\ \A n \in 1..Len(t) : r[n] = t[n]
    BY <1>2, <2>1, AppendProperties
  <2>3. \A n \in 1..Len(t) + 1 : n \in 1..Len(t) \/ n = Len(t) + 1
    BY <1>1
  <2> QED
    BY ONLY <2>2, <2>3
<1>4. CASE FindItem(t, k) # {}
  <2>1. r = [n \in 1..Len(t) |-> IF n \in FindItem(t, k) /\ t[n].val.type = v.type
                                 THEN x ELSE t[n]]
    BY <1>1, <1>4 DEF SetItem
  <2>2. \A n \in 1..Len(t) : r[n] = t[n] \/ r[n] = x
    BY <2>1
  <2>3. r \in Seq(Items)
    <3>1. \A n \in 1..Len(t) : (IF n \in FindItem(t, k) /\ t[n].val.type = v.type
                                THEN x ELSE t[n]) \in Items
      BY <1>1, <1>2
    <3> QED
      BY <1>1, <2>1, <3>1, IsASeq
  <2>4. DOMAIN r = 1..Len(t) /\ Len(r) = Len(t)
    BY <1>1, <2>1, <2>3, LenProperties
  <2> QED
    BY <2>2, <2>4, SMTT(40)
<1> QED
  BY <1>3, <1>4

LEMMA InitSettle == Init => SettleInv
  BY DEF Init, SettleInv, Written, Files, Table, Printed, Third, FileSettles

(* A process starts.                                                       *)
LEMMA ModuleInitSettle ==
    ASSUME IInv, SettleInv, ModuleInit
    PROVE  SettleInv'
<1>1. /\ mpc = "down" /\ mpc' \in {"inited", "degraded"} /\ items' = <<>>
      /\ touched' = FALSE /\ before' = file /\ UNCHANGED <<file, mine, quiet>>
  BY DEF ModuleInit
<1>2. Written' /\ Table' /\ Printed' /\ FileSettles'
  BY <1>1 DEF SettleInv, Written, Table, Printed, FileSettles
<1>3. Files'
  BY <1>1 DEF SettleInv, Files, Normal, Settled
<1>4. Third'
  BY <1>1 DEF Third
<1> QED
  BY <1>2, <1>3, <1>4 DEF SettleInv

(* The file is opened for reading, in config_module_start or later.        *)
LEMMA LoadBeginSettle ==
    ASSUME IInv, SettleInv, mpc \in {"inited", "up"}, LoadBegin
    PROVE  SettleInv'
<1>1. /\ mpc' = "loading" /\ source' = file /\ line' = 0
      /\ UNCHANGED <<items, file, quiet, mine, touched, before>>
  BY DEF LoadBegin
<1>2. mpc = "inited" /\ ~touched => items = <<>>
  BY DEF IInv, Untouched
<1>3. Len(<<>>) = 0 /\ Len(before) \in Nat
  BY LenProperties DEF IInv, TypeOK
<1>4. Written' /\ Printed' /\ FileSettles'
  BY <1>1 DEF SettleInv, Written, Printed, FileSettles
<1>5. Files'
  BY <1>1 DEF SettleInv, Files, Normal, Settled
<1>6. Table'
  <2>1. CASE mpc = "inited"
    BY <1>1, <1>2, <1>3, <2>1 DEF Table
  <2>2. CASE mpc = "up"
    BY <1>1, <2>2 DEF SettleInv, Table
  <2> QED
    BY <2>1, <2>2
<1>7. Third'
  <2> SUFFICES ASSUME quiet > 1, ~touched
               PROVE  /\ file = before /\ Agrees(items, before)
                      /\ 0 <= Len(before) /\ (Len(items) = 0 \/ Len(items) = Len(before))
    BY <1>1 DEF Third, Agrees
  <2>1. file = before
    BY DEF SettleInv, Third
  <2>2. CASE mpc = "inited"
    <3>1. items = <<>> /\ Len(items) = 0
      BY <1>2, <1>3, <2>2
    <3>2. Agrees(items, before)
      BY <1>3, <3>1 DEF Agrees
    <3> QED
      BY <1>3, <2>1, <3>1, <3>2
  <2>3. CASE mpc = "up"
    <3>1. Agrees(items, before) /\ Len(items) = Len(before)
      BY <2>3 DEF SettleInv, Third
    <3> QED
      BY <1>3, <2>1, <3>1
  <2> QED
    BY <2>2, <2>3
<1> QED
  BY <1>4, <1>5, <1>6, <1>7 DEF SettleInv

(* A line is read.                                                         *)
LEMMA LoadLineSettle ==
    ASSUME IInv, SettleInv, LoadLine
    PROVE  SettleInv'
<1>1. /\ mpc = "loading" /\ line < Len(source) /\ line' = line + 1
      /\ UNCHANGED <<mpc, file, source, quiet, mine, touched, before>>
  BY DEF LoadLine
<1>2. /\ items \in Seq(Items) /\ source \in Seq(Lines) /\ before \in Seq(Lines) /\ line \in Nat
      /\ OncePerKey(items) /\ file \in Seq(Lines)
  BY DEF IInv, TypeOK, Keyed
<1>3. PICK i : i = line + 1
  OBVIOUS
<1>4. /\ i \in 1..Len(source) /\ Len(source) \in Nat /\ Len(items) \in Nat /\ Len(before) \in Nat
      /\ i \in Nat /\ line < i
  BY <1>1, <1>2, <1>3, LenProperties
<1>5. PICK k, t : k = source[i].key /\ t = source[i].text
  OBVIOUS
<1>6. k \in Keys /\ t \in Texts
  <2>1. source[i] \in Lines
    BY <1>2, <1>4, ElementOfSeq
  <2> QED
    BY <1>5, <2>1 DEF Lines
<1>7. PICK r : r = IF Trim[t] = NoText THEN items ELSE SetItem(items, k, Parse(t))
  OBVIOUS
<1>8. items' = r
  BY <1>3, <1>5, <1>7 DEF LoadLine
<1>9. Written' /\ Printed' /\ FileSettles'
  BY <1>1 DEF SettleInv, Written, Printed, FileSettles
<1>10. Files'
  BY <1>1 DEF SettleInv, Files, Normal, Settled
<1>11. ASSUME Trim[t] # NoText
       PROVE  /\ Parsed(Parse(t)) /\ Parse(t) \in Values
              /\ \A n \in 1..Len(r) : \/ r[n] = [key |-> k, val |-> Parse(t)]
                                      \/ n \in 1..Len(items) /\ r[n] = items[n]
  <2>1. Parsed(Parse(t)) /\ Parse(t) \in Values
    BY <1>6, <1>11, ParseParsed, ParseType
  <2>2. PICK v, x : v = Parse(t) /\ x = [key |-> k, val |-> v]
    OBVIOUS
  <2>3. v \in Values /\ items \in Seq(Items) /\ k \in Keys /\ r = SetItem(items, k, v)
    BY <1>2, <1>6, <1>7, <1>11, <2>1, <2>2
  <2>4. \A n \in 1..Len(r) : r[n] = x \/ (n \in 1..Len(items) /\ r[n] = items[n])
    BY ONLY <2>2, <2>3, SetItemFrom
  <2> QED
    BY <2>1, <2>2, <2>4
<1>12. Table'
  <2> SUFFICES ASSUME ~touched, NEW n \in 1..Len(r)
               PROVE  Parsed(r[n].val) /\ (quiet > 0 => r[n].val # One)
    BY <1>1, <1>8 DEF Table
  <2>1. \A m \in 1..Len(items) : Parsed(items[m].val) /\ (quiet > 0 => items[m].val # One)
    BY <1>1 DEF SettleInv, Table
  <2>2. CASE n \in 1..Len(items) /\ r[n] = items[n]
    BY <2>1, <2>2
  <2>3. CASE Trim[t] # NoText /\ r[n] = [key |-> k, val |-> Parse(t)]
    <3>1. r[n].val = Parse(t) /\ Parsed(Parse(t))
      BY <1>11, <2>3
    <3>2. ASSUME quiet > 0 PROVE Parse(t) # One
      <4>1. Normal(source)
        BY <1>1, <3>2 DEF SettleInv, Files
      <4>2. PICK v \in Values : Parsed(v) /\ t = Format(v)
        BY <1>4, <1>5, <4>1 DEF Normal
      <4> QED
        BY <4>2, FormatParsed
    <3> QED
      BY <3>1, <3>2
  <2>4. CASE Trim[t] = NoText
    BY <1>7, <2>1, <2>4
  <2> QED
    BY <1>11, <2>2, <2>3, <2>4
<1>13. Third'
  <2> SUFFICES ASSUME quiet > 1, ~touched
               PROVE  /\ file = before /\ Agrees(r, before) /\ source = before
                      /\ i <= Len(source) /\ (Len(r) = i \/ Len(r) = Len(before))
    <3>1. line' = i
      BY <1>1, <1>3
    <3> QED
      BY <1>1, <1>8, <3>1 DEF Third, Agrees
  <2>0. quiet > 0
    BY DEF IInv, TypeOK
  <2>1. /\ file = before /\ source = before /\ Agrees(items, before)
        /\ Len(items) = line \/ Len(items) = Len(before)
    BY <1>1 DEF SettleInv, Third
  <2>2. PICK v \in Values : Parsed(v) /\ v # One /\ t = Format(v)
    <3>1. Settled(file)
      BY <1>1 DEF SettleInv, Files
    <3> QED
      BY <1>4, <1>5, <2>1, <3>1 DEF Settled
  <2>3. PICK w : w = Parse(t)
    OBVIOUS
  <2>4. Trim[t] # NoText /\ w \in Values /\ Format(w) = t /\ r = SetItem(items, k, w)
    <3>1. Trim[t] # NoText /\ Format(Parse(t)) = t
      BY <2>2, FormatParsed
    <3> QED
      BY <1>6, <1>7, <2>3, <3>1, ParseType
  <2>5. OncePerKey(before) /\ DOMAIN before = 1..Len(before)
    <3>1. mine
      BY <2>0 DEF SettleInv, Written
    <3> QED
      BY <1>2, <2>1, <3>1, LenProperties DEF IInv, Keyed, OneLinePerKey
  <2>6. k = before[i].key /\ t = before[i].text /\ i \in 1..Len(before)
    BY <1>4, <1>5, <2>1
  <2>7. CASE i \in 1..Len(items)
    <3>1. items[i].key = k /\ Format(items[i].val) = t
      BY <2>1, <2>6, <2>7 DEF Agrees
    <3>2. PICK x : x = [key |-> k, val |-> w]
      OBVIOUS
    <3>3. /\ \A n \in 1..Len(items) : r[n] = items[n] \/ (r[n] = x /\ items[n].key = k)
          /\ (\E n \in 1..Len(items) : items[n].key = k) => Len(r) = Len(items)
      BY ONLY <1>2, <1>6, <2>4, <3>2, SetItemKeeps
    <3>4. Len(r) = Len(items)
      BY <2>7, <3>1, <3>3
    <3>5. Agrees(r, before)
      <4> SUFFICES ASSUME NEW n \in 1..Len(items)
                   PROVE  r[n].key = before[n].key /\ Format(r[n].val) = before[n].text
        BY <2>1, <3>4 DEF Agrees
      <4>1. items[n].key = before[n].key /\ Format(items[n].val) = before[n].text
        BY <2>1 DEF Agrees
      <4>2. CASE r[n] = items[n]
        BY <4>1, <4>2
      <4>3. CASE r[n] = x /\ items[n].key = k
        <5>1. n = i
          <6>1. n \in 1..Len(before)
            BY <1>4, <2>1 DEF Agrees
          <6> QED
            BY <2>5, <2>6, <4>1, <4>3, <6>1 DEF OncePerKey
        <5>2. r[n].key = k /\ r[n].val = w
          BY <3>2, <4>3
        <5> QED
          BY <2>4, <2>6, <5>1, <5>2
      <4> QED
        BY <3>3, <4>2, <4>3
    <3>6. Len(items) = Len(before)
      BY <1>3, <1>4, <2>1, <2>7
    <3> QED
      BY <1>4, <2>1, <3>4, <3>5, <3>6
  <2>8. CASE i \notin 1..Len(items)
    <3>1. Len(items) = line
      BY <1>4, <2>1, <2>6, <2>8
    <3>2. \A n \in 1..Len(items) : items[n].key # k
      <4> SUFFICES ASSUME NEW n \in 1..Len(items), items[n].key = k PROVE FALSE
        OBVIOUS
      <4>1. n \in 1..Len(before) /\ n # i /\ before[n].key = k
        BY <1>4, <2>1, <2>8 DEF Agrees
      <4> QED
        BY <2>5, <2>6, <4>1 DEF OncePerKey
    <3>3. FindItem(items, k) = {}
      BY <1>2, <3>2, LenProperties DEF FindItem
    <3>4. PICK x : x = [key |-> k, val |-> w]
      OBVIOUS
    <3>5. r = Append(items, x) /\ x \in Items
      BY <1>6, <2>4, <3>3, <3>4 DEF SetItem, Items
    <3>6. Len(r) = Len(items) + 1 /\ r[Len(items) + 1] = x /\ \A n \in 1..Len(items) : r[n] = items[n]
      BY <1>2, <3>5, AppendProperties
    <3>7. Len(r) = i /\ r[i] = x /\ \A n \in 1..i : n = i \/ n \in 1..Len(items)
      BY <1>3, <1>4, <3>1, <3>6
    <3>8. Agrees(r, before)
      <4>1. Len(r) <= Len(before)
        BY <1>4, <2>6, <3>7
      <4>2. r[i].key = before[i].key /\ Format(r[i].val) = before[i].text
        <5>1. r[i].key = k /\ r[i].val = w
          BY <3>4, <3>7
        <5> QED
          BY <2>4, <2>6, <5>1
      <4> QED
        BY <2>1, <3>6, <3>7, <4>1, <4>2 DEF Agrees
    <3> QED
      BY <1>4, <2>1, <3>7, <3>8
  <2> QED
    BY <2>7, <2>8
<1> QED
  BY <1>9, <1>10, <1>12, <1>13 DEF SettleInv

(* The end of the file.                                                    *)
LEMMA LoadEndSettle ==
    ASSUME IInv, SettleInv, LoadEnd
    PROVE  SettleInv'
<1>1. /\ mpc = "loading" /\ line = Len(source) /\ mpc' = "up"
      /\ UNCHANGED <<items, file, source, line, quiet, mine, touched, before>>
  BY DEF LoadEnd
<1>2. Written' /\ Printed' /\ FileSettles'
  BY <1>1 DEF SettleInv, Written, Printed, FileSettles
<1>3. Files' /\ Table'
  BY <1>1 DEF SettleInv, Files, Table, Normal, Settled
<1>4. Third'
  BY <1>1 DEF SettleInv, Third, Agrees
<1> QED
  BY <1>2, <1>3, <1>4 DEF SettleInv

(* The file is opened for writing.                                         *)
LEMMA SaveBeginSettle ==
    ASSUME IInv, SettleInv, mpc = "up", NEW c \in BOOLEAN, SaveBegin(c)
    PROVE  SettleInv'
<1>1. /\ mpc' = "saving" /\ line' = 0 /\ mine' = TRUE
      /\ UNCHANGED <<items, quiet, touched, before>>
  BY DEF SaveBegin
<1>2. Written' /\ Files' /\ FileSettles' /\ Printed'
  BY <1>1 DEF Written, Files, FileSettles, Printed
<1>3. Table'
  BY <1>1 DEF SettleInv, Table
<1>4. Third'
  BY <1>1 DEF SettleInv, Third, Agrees
<1> QED
  BY <1>2, <1>3, <1>4 DEF SettleInv

(* A line is printed.                                                      *)
LEMMA SaveLineSettle ==
    ASSUME IInv, SettleInv, SaveLine
    PROVE  SettleInv'
<1>1. PICK i, x : i = line + 1 /\ x = [key |-> items[i].key, text |-> Format(items[i].val)]
  OBVIOUS
<1>2. /\ mpc = "saving" /\ line < Len(items) /\ line' = i /\ out' = Append(out, x)
      /\ UNCHANGED <<mpc, items, file, source, quiet, mine, touched, before>>
  BY <1>1 DEF SaveLine
<1>3. /\ items \in Seq(Items) /\ out \in Seq(Lines) /\ line \in Nat /\ Len(out) = line
  BY <1>2 DEF IInv, TypeOK, SavedKeys
<1>4. i \in 1..Len(items) /\ \A n \in 1..i : n = i \/ n \in 1..line
  BY <1>1, <1>2, <1>3, LenProperties
<1>5. x \in Lines
  <2>1. items[i] \in Items
    BY <1>3, <1>4, ElementOfSeq
  <2>2. items[i].key \in Keys /\ Format(items[i].val) \in Texts
    BY <2>1, FormatType DEF Items
  <2> QED
    BY <1>1, <2>2 DEF Lines
<1>6. PICK o : o = Append(out, x)
  OBVIOUS
<1>7. o[i] = x /\ \A n \in 1..line : o[n] = out[n]
  BY <1>1, <1>3, <1>5, <1>6, AppendProperties
<1>8. Written' /\ Files' /\ FileSettles'
  BY <1>2 DEF SettleInv, Written, Files, FileSettles
<1>9. Table'
  BY <1>2 DEF SettleInv, Table
<1>10. Third'
  BY <1>2 DEF SettleInv, Third, Agrees
<1>11. Printed'
  <2> SUFFICES ASSUME ~touched, NEW n \in 1..i PROVE o[n].text = Format(items[n].val)
    BY <1>2, <1>6 DEF Printed
  <2>1. CASE n = i
    BY <1>1, <1>7, <2>1
  <2>2. CASE n \in 1..line
    BY <1>2, <1>7, <2>2 DEF SettleInv, Printed
  <2> QED
    BY <1>4, <2>1, <2>2
<1> QED
  BY <1>8, <1>9, <1>10, <1>11 DEF SettleInv

(* The file is closed: in a life in which no setter was called it is the   *)
(* image of the table.                                                     *)
LEMMA SaveEndSettle ==
    ASSUME IInv, SettleInv, SaveEnd
    PROVE  SettleInv'
<1>1. /\ mpc = "saving" /\ line = Len(items) /\ mpc' = (IF closing THEN "saved" ELSE "up")
      /\ file' = out /\ quiet' = (IF touched THEN 0 ELSE quiet + (IF closing THEN 1 ELSE 0))
      /\ UNCHANGED <<items, mine, touched, before>>
  BY DEF SaveEnd
<1>2. /\ items \in Seq(Items) /\ out \in Seq(Lines) /\ Len(out) = line /\ quiet \in Nat
      /\ closing \in BOOLEAN /\ touched \in BOOLEAN /\ before \in Seq(Lines)
      /\ \A n \in 1..Len(out) : out[n].key = items[n].key
  BY <1>1 DEF IInv, TypeOK, SavedKeys
<1>3. Len(out) = Len(items) /\ Len(items) \in Nat
  BY <1>1, <1>2, LenProperties
<1>4. Written' /\ Printed'
  <2>1. mine
    BY <1>1 DEF SettleInv, Written
  <2> QED
    BY <1>1, <2>1 DEF Written, Printed
<1>5. CASE touched
  <2>1. quiet' = 0
    BY <1>1, <1>5
  <2> QED
    BY <1>1, <1>4, <1>5, <2>1 DEF SettleInv, Files, Table, Third, FileSettles
<1>6. CASE ~touched
  <2>1. \A n \in 1..Len(out) : out[n].text = Format(items[n].val)
    BY <1>1, <1>2, <1>6 DEF SettleInv, Printed
  <2>2. \A n \in 1..Len(items) : Parsed(items[n].val) /\ (quiet > 0 => items[n].val # One)
    BY <1>1, <1>6 DEF SettleInv, Table
  <2>3. PICK q \in Nat : q = quiet' /\ (q = quiet \/ (closing /\ q = quiet + 1)) /\ (~closing => q = quiet)
    BY <1>1, <1>2, <1>6
  <2>4. Normal(out) /\ (quiet > 0 => Settled(out))
    <3>1. \A n \in 1..Len(out) : items[n].val \in Values
      BY <1>3, <2>2 DEF Parsed
    <3> QED
      BY <1>3, <2>1, <2>2, <3>1 DEF Normal, Settled
  <2>5. Files'
    <3>1. q > 1 => quiet > 0
      BY <1>2, <2>3
    <3>2. mpc' # "loading"
      BY <1>1
    <3> QED
      BY <1>1, <2>3, <2>4, <3>1, <3>2 DEF Files, Normal, Settled
  <2>6. Table'
    <3>1. mpc' = "saved" \/ quiet' = quiet
      BY <1>1, <2>3
    <3> QED
      BY <1>1, <2>2, <3>1 DEF Table
  <2>7. ASSUME quiet > 1 PROVE out = before
    <3>1. Agrees(items, before) /\ Len(items) = Len(before)
      BY <1>1, <1>6, <2>7 DEF SettleInv, Third
    <3>2. Len(out) = Len(before)
      BY <1>3, <3>1
    <3>3. \A n \in 1..Len(out) : out[n].key = before[n].key /\ out[n].text = before[n].text
      BY <1>2, <1>3, <2>1, <3>1 DEF Agrees
    <3>4. \A n \in 1..Len(out) : out[n] \in Lines /\ before[n] \in Lines
      BY <1>2, <3>2, ElementOfSeq
    <3>5. \A n \in 1..Len(out) : out[n] = before[n]
      BY <3>3, <3>4 DEF Lines
    <3> QED
      BY <1>2, <3>2, <3>5, SeqEqual
  <2>8. Third'
    <3> SUFFICES ASSUME quiet' > 1, mpc' = "up" PROVE Third'
      BY <1>1 DEF Third
    <3>1. quiet' = quiet /\ quiet > 1
      BY <1>1, <2>3
    <3> QED
      BY <1>1, <1>6, <2>7, <3>1 DEF SettleInv, Third, Agrees
  <2>9. FileSettles'
    <3>1. q > 2 => quiet > 1
      BY <1>2, <2>3
    <3> QED
      BY <1>1, <2>3, <2>7, <3>1 DEF FileSettles
  <2> QED
    BY <1>4, <2>5, <2>6, <2>8, <2>9 DEF SettleInv
<1> QED
  BY <1>2, <1>5, <1>6

(* The process ends, in cleanup or in a crash.                             *)
LEMMA DownSettle ==
    ASSUME IInv, SettleInv, CleanupFrees \/ Crash
    PROVE  SettleInv'
<1>1. mpc' = "down" /\ UNCHANGED mine
  BY DEF CleanupFrees, Crash
<1>2. Table' /\ Printed' /\ Third' /\ FileSettles'
  BY <1>1 DEF Table, Printed, Third, FileSettles
<1>3. CASE mpc # "saving"
  <2>1. file' = file /\ quiet' = quiet
    BY <1>3 DEF CleanupFrees, Crash
  <2>2. Written' /\ Files'
    BY <1>1, <1>3, <2>1 DEF SettleInv, Written, Files, Normal, Settled
  <2> QED
    BY <1>2, <2>2 DEF SettleInv
<1>4. CASE mpc = "saving"
  <2>1. quiet' = 0
    BY <1>4 DEF CleanupFrees, Crash
  <2>2. Written' /\ Files'
    BY <1>1, <2>1 DEF Written, Files
  <2> QED
    BY <1>2, <2>2 DEF SettleInv
<1> QED
  BY <1>3, <1>4

(* A setter is called, or config_module_start could not open the file.     *)
LEMMA TouchedSettle ==
    ASSUME IInv, SettleInv, touched' = TRUE, mpc' = mpc \/ (mpc = "inited" /\ mpc' = "up"),
           UNCHANGED <<file, source, mine, quiet>>
    PROVE  SettleInv'
<1>1. Table' /\ Printed' /\ Third' /\ FileSettles'
  BY DEF Table, Printed, Third, FileSettles
<1>2. Written' /\ Files'
  BY DEF SettleInv, Written, Files, Normal, Settled
<1> QED
  BY <1>1, <1>2 DEF SettleInv

LEMMA OtherSettle ==
    ASSUME IInv, SettleInv,
           UNCHANGED <<mpc, items, file, source, line, out, mine, touched, before, quiet>>
    PROVE  SettleInv'
<1>1. Table' /\ Printed' /\ Third' /\ FileSettles'
  BY DEF SettleInv, Table, Printed, Third, FileSettles, Agrees
<1>2. Written' /\ Files'
  BY DEF SettleInv, Written, Files, Normal, Settled
<1> QED
  BY <1>1, <1>2 DEF SettleInv

LEMMA StepSettle == IInv /\ SettleInv /\ [Next]_vars => SettleInv'
<1> SUFFICES ASSUME IInv, SettleInv, [Next]_vars PROVE SettleInv'
  OBVIOUS
<1>1. CASE ModuleInit
  BY <1>1, ModuleInitSettle
<1>2. CASE Start
  <2>1. CASE LoadBegin
    BY <1>2, <2>1, LoadBeginSettle DEF Start
  <2>2. CASE ~LoadBegin
    BY <1>2, <2>2, TouchedSettle DEF Start
  <2> QED
    BY <2>1, <2>2
<1>3. CASE Reload
  BY <1>3, LoadBeginSettle DEF Reload
<1>4. CASE LoadLine \/ LoadEnd
  BY <1>4, LoadLineSettle, LoadEndSettle
<1>5. CASE Save \/ CleanupSaves
  BY <1>5, SaveBeginSettle DEF Save, CleanupSaves
<1>6. CASE SaveLine \/ SaveEnd
  BY <1>6, SaveLineSettle, SaveEndSettle
<1>7. CASE CleanupFrees \/ Crash
  BY <1>7, DownSettle
<1>8. CASE \E k \in Keys, v \in SetValues : Set(k, v)
  BY <1>8, TouchedSettle DEF Set
<1>9. CASE \E save, path \in BOOLEAN : SetConfig(save, path)
  BY <1>9, OtherSettle DEF SetConfig
<1>10. CASE UNCHANGED vars
  BY <1>10, OtherSettle DEF vars
<1> QED
  BY <1>1, <1>2, <1>3, <1>4, <1>5, <1>6, <1>7, <1>8, <1>9, <1>10 DEF Next

(* config_load_from_file and config_save_to_file, whatever the conversions *)
(* do to the texts that somebody wrote: the third quiet life, and every    *)
(* later one, writes the file that it found, also when it reloads or saves *)
(* in between and when processes crash outside a save.                     *)
THEOREM SettlesCorrect == Spec => []FileSettles
<1>1. SettleInv => FileSettles
  BY DEF SettleInv
<1> QED
  BY <1>1, InitSettle, StepSettle, InvariantHolds, PTL DEF Spec

-----------------------------------------------------------------------------
(***************************************************************************)
(* A file in the program's own form: one line per key, each a text that    *)
(* save prints for a value that load makes, and no integer 1.              *)
(***************************************************************************)
CleanFile == OncePerKey(before) /\ Settled(before)

CleanInv ==
    CleanFile /\ ~touched =>
        /\ mpc \in {"inited", "loading", "up", "saved"} => file = before
        /\ mpc \in {"loading", "up", "saving"} =>
              Agrees(items, before) /\ \A n \in 1..Len(items) : items[n].val # One
        /\ mpc \in {"up", "saving"} => Len(items) = Len(before)
        /\ mpc = "loading" => /\ source = before /\ line <= Len(source)
                              /\ Len(items) = line \/ Len(items) = Len(before)

(* A process starts or ends, or a setter is called.                        *)
LEMMA EdgeClean ==
    ASSUME \/ ModuleInit \/ CleanupFrees \/ Crash \/ touched' = TRUE
    PROVE  CleanInv'
<1>1. CASE ModuleInit
  <2>1. mpc' \in {"inited", "degraded"} /\ before' = file /\ file' = file
    BY <1>1 DEF ModuleInit
  <2> QED
    BY <2>1 DEF CleanInv
<1>2. CASE CleanupFrees \/ Crash
  <2>1. mpc' = "down"
    BY <1>2 DEF CleanupFrees, Crash
  <2> QED
    BY <2>1 DEF CleanInv
<1>3. CASE touched' = TRUE
  BY <1>3 DEF CleanInv
<1> QED
  BY <1>1, <1>2, <1>3

(* The file is opened for reading.                                         *)
LEMMA LoadBeginClean ==
    ASSUME IInv, CleanInv, mpc \in {"inited", "up"}, LoadBegin
    PROVE  CleanInv'
<1>1. /\ mpc' = "loading" /\ source' = file /\ line' = 0
      /\ UNCHANGED <<items, file, touched, before>>
  BY DEF LoadBegin
<1>2. CleanFile' = CleanFile
  BY <1>1 DEF CleanFile, Settled, OncePerKey
<1>3. Len(<<>>) = 0 /\ Len(before) \in Nat
  BY LenProperties DEF IInv, TypeOK
<1> SUFFICES ASSUME CleanFile, ~touched
             PROVE  /\ file = before /\ Agrees(items, before)
                    /\ \A n \in 1..Len(items) : items[n].val # One
                    /\ 0 <= Len(before) /\ (Len(items) = 0 \/ Len(items) = Len(before))
  BY <1>1, <1>2 DEF CleanInv, Agrees
<1>4. file = before
  BY DEF CleanInv
<1>5. CASE mpc = "inited"
  <2>1. items = <<>> /\ Len(items) = 0
    BY <1>3, <1>5 DEF IInv, Untouched
  <2>2. Agrees(items, before)
    BY <1>3, <2>1 DEF Agrees
  <2> QED
    BY <1>3, <1>4, <2>1, <2>2
<1>6. CASE mpc = "up"
  BY <1>3, <1>4, <1>6 DEF CleanInv
<1> QED
  BY <1>5, <1>6

(* A line is read: its key is new, or its value is there already.          *)
LEMMA LoadLineClean ==
    ASSUME IInv, SettleInv, CleanInv, LoadLine
    PROVE  CleanInv'
<1>1. /\ mpc = "loading" /\ line < Len(source) /\ line' = line + 1
      /\ UNCHANGED <<mpc, file, source, touched, before>>
  BY DEF LoadLine
<1>2. /\ items \in Seq(Items) /\ source \in Seq(Lines) /\ before \in Seq(Lines) /\ line \in Nat
      /\ OncePerKey(items) /\ file \in Seq(Lines)
  BY DEF IInv, TypeOK, Keyed
<1>3. PICK i : i = line + 1
  OBVIOUS
<1>4. /\ i \in 1..Len(source) /\ Len(source) \in Nat /\ Len(items) \in Nat /\ Len(before) \in Nat
      /\ i \in Nat /\ line < i
  BY <1>1, <1>2, <1>3, LenProperties
<1>5. PICK k, t : k = source[i].key /\ t = source[i].text
  OBVIOUS
<1>6. k \in Keys /\ t \in Texts
  <2>1. source[i] \in Lines
    BY <1>2, <1>4, ElementOfSeq
  <2> QED
    BY <1>5, <2>1 DEF Lines
<1>7. PICK r : r = IF Trim[t] = NoText THEN items ELSE SetItem(items, k, Parse(t))
  OBVIOUS
<1>8. items' = r
  BY <1>3, <1>5, <1>7 DEF LoadLine
<1>9. CleanFile' = CleanFile
  BY <1>1 DEF CleanFile, Settled, OncePerKey
<1> SUFFICES ASSUME CleanFile, ~touched
             PROVE  /\ file = before /\ Agrees(r, before) /\ source = before
                    /\ \A n \in 1..Len(r) : r[n].val # One
                    /\ i <= Len(source) /\ (Len(r) = i \/ Len(r) = Len(before))
  <2>1. line' = i
    BY <1>1, <1>3
  <2> QED
    BY <1>1, <1>8, <1>9, <2>1 DEF CleanInv, Agrees
<1>10. /\ file = before /\ source = before /\ Agrees(items, before)
       /\ \A n \in 1..Len(items) : items[n].val # One
       /\ Len(items) = line \/ Len(items) = Len(before)
  BY <1>1 DEF CleanInv
<1>11. PICK v \in Values : Parsed(v) /\ v # One /\ t = Format(v)
  BY <1>4, <1>5, <1>10 DEF CleanFile, Settled
<1>12. PICK w : w = Parse(t)
  OBVIOUS
<1>13. Trim[t] # NoText /\ w \in Values /\ w # One /\ Format(w) = t /\ r = SetItem(items, k, w)
  <2>1. Trim[t] # NoText /\ Format(Parse(t)) = t /\ Parse(t) # One
    BY <1>11, FormatParsed
  <2> QED
    BY <1>6, <1>7, <1>12, <2>1, ParseType
<1>14. OncePerKey(before) /\ DOMAIN before = 1..Len(before)
  BY <1>2, LenProperties DEF CleanFile
<1>15. k = before[i].key /\ t = before[i].text /\ i \in 1..Len(before)
  BY <1>4, <1>5, <1>10
<1>16. CASE i \in 1..Len(items)
  <2>1. items[i].key = k /\ Format(items[i].val) = t
    BY <1>10, <1>15, <1>16 DEF Agrees
  <2>2. PICK x : x = [key |-> k, val |-> w]
    OBVIOUS
  <2>3. /\ \A n \in 1..Len(items) : r[n] = items[n] \/ (r[n] = x /\ items[n].key = k)
        /\ (\E n \in 1..Len(items) : items[n].key = k) => Len(r) = Len(items)
    BY ONLY <1>2, <1>6, <1>13, <2>2, SetItemKeeps
  <2>4. Len(r) = Len(items)
    BY <1>16, <2>1, <2>3
  <2>5. /\ Agrees(r, before)
        /\ \A n \in 1..Len(r) : r[n].val # One
    <3> SUFFICES ASSUME NEW n \in 1..Len(items)
                 PROVE  /\ r[n].key = before[n].key /\ Format(r[n].val) = before[n].text
                        /\ r[n].val # One
      BY <1>10, <2>4 DEF Agrees
    <3>1. items[n].key = before[n].key /\ Format(items[n].val) = before[n].text
      BY <1>10 DEF Agrees
    <3>2. CASE r[n] = items[n]
      BY <1>10, <3>1, <3>2
    <3>3. CASE r[n] = x /\ items[n].key = k
      <4>1. n = i
        <5>1. n \in 1..Len(before)
          BY <1>4, <1>10 DEF Agrees
        <5> QED
          BY <1>14, <1>15, <3>1, <3>3, <5>1 DEF OncePerKey
      <4>2. r[n].key = k /\ r[n].val = w
        BY <2>2, <3>3
      <4> QED
        BY <1>13, <1>15, <4>1, <4>2
    <3> QED
      BY <2>3, <3>2, <3>3
  <2>6. Len(items) = Len(before)
    BY <1>3, <1>4, <1>10, <1>16
  <2> QED
    BY <1>4, <1>10, <2>4, <2>5, <2>6
<1>17. CASE i \notin 1..Len(items)
  <2>1. Len(items) = line
    BY <1>4, <1>10, <1>15, <1>17
  <2>2. \A n \in 1..Len(items) : items[n].key # k
    <3> SUFFICES ASSUME NEW n \in 1..Len(items), items[n].key = k PROVE FALSE
      OBVIOUS
    <3>1. n \in 1..Len(before) /\ n # i /\ before[n].key = k
      BY <1>4, <1>10, <1>17 DEF Agrees
    <3> QED
      BY <1>14, <1>15, <3>1 DEF OncePerKey
  <2>3. FindItem(items, k) = {}
    BY <1>2, <2>2, LenProperties DEF FindItem
  <2>4. PICK x : x = [key |-> k, val |-> w]
    OBVIOUS
  <2>5. r = Append(items, x) /\ x \in Items
    BY <1>6, <1>13, <2>3, <2>4 DEF SetItem, Items
  <2>6. /\ Len(r) = Len(items) + 1 /\ r[Len(items) + 1] = x
        /\ \A n \in 1..Len(items) : r[n] = items[n]
    BY <1>2, <2>5, AppendProperties
  <2>7. Len(r) = i /\ r[i] = x /\ \A n \in 1..i : n = i \/ n \in 1..Len(items)
    BY <1>3, <1>4, <2>1, <2>6
  <2>8. r[i].key = k /\ r[i].val = w
    BY <2>4, <2>7
  <2>9. Agrees(r, before)
    <3>1. Len(r) <= Len(before)
      BY <1>4, <1>15, <2>7
    <3>2. r[i].key = before[i].key /\ Format(r[i].val) = before[i].text
      BY <1>13, <1>15, <2>8
    <3> QED
      BY <1>10, <2>6, <2>7, <3>1, <3>2 DEF Agrees
  <2>10. \A n \in 1..Len(r) : r[n].val # One
    BY <1>10, <1>13, <2>6, <2>7, <2>8
  <2> QED
    BY <1>4, <1>10, <2>7, <2>9, <2>10
<1> QED
  BY <1>16, <1>17

(* The file is closed: it is the image of the table.                       *)
LEMMA SaveEndClean ==
    ASSUME IInv, SettleInv, CleanInv, SaveEnd
    PROVE  CleanInv'
<1>1. /\ mpc = "saving" /\ line = Len(items) /\ mpc' = (IF closing THEN "saved" ELSE "up")
      /\ file' = out /\ UNCHANGED <<items, touched, before>>
  BY DEF SaveEnd
<1>2. /\ items \in Seq(Items) /\ out \in Seq(Lines) /\ Len(out) = line /\ before \in Seq(Lines)
      /\ \A n \in 1..Len(out) : out[n].key = items[n].key
  BY <1>1 DEF IInv, TypeOK, SavedKeys
<1>3. CleanFile' = CleanFile
  BY <1>1 DEF CleanFile, Settled, OncePerKey
<1> SUFFICES ASSUME CleanFile, ~touched PROVE CleanInv'
  BY <1>1, <1>3 DEF CleanInv
<1>4. /\ Agrees(items, before) /\ Len(items) = Len(before)
      /\ \A n \in 1..Len(items) : items[n].val # One
  BY <1>1 DEF CleanInv
<1>5. \A n \in 1..Len(out) : out[n].text = Format(items[n].val)
  BY <1>1, <1>2 DEF SettleInv, Printed
<1>6. out = before
  <2>1. Len(out) = Len(before) /\ Len(out) = Len(items)
    BY <1>1, <1>2, <1>4
  <2>2. \A n \in 1..Len(out) : out[n].key = before[n].key /\ out[n].text = before[n].text
    BY <1>2, <1>4, <1>5, <2>1 DEF Agrees
  <2>3. \A n \in 1..Len(out) : out[n] \in Lines /\ before[n] \in Lines
    BY <1>2, <2>1, ElementOfSeq
  <2>4. \A n \in 1..Len(out) : out[n] = before[n]
    BY <2>2, <2>3 DEF Lines
  <2> QED
    BY <1>2, <2>1, <2>4, SeqEqual
<1> QED
  BY <1>1, <1>4, <1>6 DEF CleanInv, Agrees

LEMMA StepClean == IInv /\ SettleInv /\ CleanInv /\ [Next]_vars => CleanInv'
<1> SUFFICES ASSUME IInv, SettleInv, CleanInv, [Next]_vars PROVE CleanInv'
  OBVIOUS
<1>1. CASE ModuleInit \/ CleanupFrees \/ Crash
  BY <1>1, EdgeClean
<1>2. CASE Start
  <2>1. CASE LoadBegin
    BY <1>2, <2>1, LoadBeginClean DEF Start
  <2>2. CASE ~LoadBegin
    BY <1>2, <2>2, EdgeClean DEF Start
  <2> QED
    BY <2>1, <2>2
<1>3. CASE Reload
  BY <1>3, LoadBeginClean DEF Reload
<1>4. CASE LoadLine
  BY <1>4, LoadLineClean
<1>5. CASE LoadEnd
  <2>1. /\ mpc = "loading" /\ line = Len(source) /\ mpc' = "up"
        /\ UNCHANGED <<items, file, source, line, touched, before>>
    BY <1>5 DEF LoadEnd
  <2> QED
    BY <2>1 DEF CleanInv, CleanFile, Settled, OncePerKey, Agrees
<1>6. CASE Save \/ CleanupSaves
  <2>1. mpc = "up" /\ mpc' = "saving" /\ UNCHANGED <<items, touched, before>>
    BY <1>6 DEF Save, CleanupSaves, SaveBegin
  <2> QED
    BY <2>1 DEF CleanInv, CleanFile, Settled, OncePerKey, Agrees
<1>7. CASE SaveLine
  <2>1. mpc = "saving" /\ UNCHANGED <<mpc, items, touched, before>>
    BY <1>7 DEF SaveLine
  <2> QED
    BY <2>1 DEF CleanInv, CleanFile, Settled, OncePerKey, Agrees
<1>8. CASE SaveEnd
  BY <1>8, SaveEndClean
<1>9. CASE \E k \in Keys, v \in SetValues : Set(k, v)
  BY <1>9, EdgeClean DEF Set
<1>10. CASE (\E save, path \in BOOLEAN : SetConfig(save, path)) \/ UNCHANGED vars
  <2>1. UNCHANGED <<mpc, items, file, source, line, touched, before>>
    BY <1>10 DEF SetConfig, vars
  <2> QED
    BY <2>1 DEF CleanInv, CleanFile, Settled, OncePerKey, Agrees
<1> QED
  BY <1>1, <1>2, <1>3, <1>4, <1>5, <1>6, <1>7, <1>8, <1>9, <1>10 DEF Next

(* config_load_from_file and config_save_to_file: a file in the program's  *)
(* own form is written back exactly as it was by every life in which no    *)
(* setter was called, the first included, so each key keeps its text.      *)
(* Other texts may change, as run cfg_rewrite shows.                       *)
THEOREM CleanFileKept ==
    Spec => [](CleanFile => KeepsTexts /\ (mpc = "saved" /\ ~touched => file = before))
<1>1. Init => CleanInv
  BY DEF Init, CleanInv
<1>2. CleanInv => (CleanFile => KeepsTexts /\ (mpc = "saved" /\ ~touched => file = before))
  BY DEF CleanInv, KeepsTexts
<1> QED
  BY <1>1, <1>2, InitSettle, StepSettle, StepClean, InvariantHolds, PTL DEF Spec

(* The types of the module's state.                                        *)
THEOREM TypeCorrect == Spec => []TypeOK
<1>1. IInv => TypeOK
  BY DEF IInv
<1> QED
  BY <1>1, InvariantHolds, PTL
=============================================================================
