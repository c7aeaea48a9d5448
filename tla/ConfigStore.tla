---------------------------- MODULE ConfigStore -----------------------------
(***************************************************************************)
(* The configuration of src/src/config/config_module.c over the lives of   *)
(* the process: a table of typed items that is loaded from a file at       *)
(* start, changed by the program, and written back at cleanup or by a      *)
(* call; the process may crash at any moment, in the middle of a save too. *)
(*                                                                         *)
(* A text is what stands after "=" in a line.  How the C library reads and *)
(* prints numbers is a parameter.  The setters hold config_mutex and are   *)
(* one step; load takes it line by line and save does not take it.  Left   *)
(* out: lines longer than the buffer, strings with line breaks, failing    *)
(* strdup, and what a save prints of a string that is replaced at the same *)
(* moment.                                                                 *)
(***************************************************************************)
EXTENDS Integers, Sequences, FiniteSets

CONSTANTS
    Keys,
    Texts, NoText,   \* texts of the model; NoText: strtok finds no value
    Trim,            \* a text without its comment, "=" and blanks
    Dotted,          \* texts with a dot
    Atoi, Atof,      \* what the C library makes of a text
    Ints, Floats,    \* numbers of the model; a float is named by a code
    IntText,         \* "%d"
    FloatText,       \* "%.6f"
    Cut,             \* per text: what may be left of it when its line is torn
    Plain,           \* texts without dot, "#", "=", blanks or leading number
    InitialFiles,    \* config.ini as somebody wrote it
    SetValues,       \* values that the program passes to the setters
    MaxSets,         \* bound: calls of the setters
    MaxLives,        \* bound: starts of the process
    CrashesAllowed

Number(type, n) == [type |-> type, num |-> n, text |-> ""]
String(t) == [type |-> "STRING", num |-> 0, text |-> t]

Values == {Number("INT", n) : n \in Ints} \cup {Number("FLOAT", n) : n \in Floats}
          \cup {Number("BOOL", n) : n \in {0, 1}} \cup {String(t) : t \in Texts}
Items == [key : Keys, val : Values]
Lines == [key : Keys, text : Texts]

ASSUME TextAssumption ==
    /\ {"true", "false", "0", "1"} \subseteq Texts /\ NoText \notin Texts
    /\ Dotted \subseteq Texts /\ Plain \subseteq Texts
    /\ Trim \in [Texts -> Texts \cup {NoText}] /\ Cut \in [Texts -> SUBSET Texts]
    /\ Ints \subseteq Int /\ Floats \subseteq Int
    /\ Atoi \in [Texts -> Int] /\ Atof \in [Texts -> Floats]
    /\ \A t \in Texts : Atoi[t] # 0 => Atoi[t] \in Ints
    /\ IntText \in [Ints -> Texts] /\ FloatText \in [Floats -> Texts]
ASSUME BoundAssumption ==
    /\ InitialFiles \subseteq Seq(Lines) /\ SetValues \subseteq Values
    /\ MaxSets \in Nat /\ MaxLives \in Nat /\ CrashesAllowed \in BOOLEAN

(* What atoi, atof and printf do to each other, for the texts that they    *)
(* print.  "%.6f" keeps six digits: reading its text back may give another *)
(* number, but one that prints the same; infinity and nan have no dot.     *)
ASSUME LibraryAssumption ==
    /\ \A t \in {"true", "false", "0", "1"} : Trim[t] = t /\ t \notin Dotted
    /\ \A n \in Ints : /\ Trim[IntText[n]] = IntText[n] /\ IntText[n] \notin Dotted
                       /\ Atoi[IntText[n]] = n
                       /\ IntText[n] \notin {"true", "false"}
                       /\ IntText[n] = "0" <=> n = 0
                       /\ IntText[n] = "1" <=> n = 1
    /\ \A f \in Floats :
          LET t == FloatText[f]
          IN  /\ Trim[t] = t /\ t \notin {"true", "false", "0", "1"}
              /\ t \in Dotted => FloatText[Atof[t]] = t
              /\ t \notin Dotted => Atoi[t] = 0
    /\ \A t \in Plain : Trim[t] = t /\ t \notin Dotted /\ Atoi[t] = 0
                        /\ t \notin {"true", "false", "0", "1"}
    /\ \A t \in Texts : Trim[t] # NoText => Trim[Trim[t]] = Trim[t]

VARIABLES
    mpc,          \* main thread: "down", "inited", "loading", "up", "saving", "saved",
                  \* "degraded" (running without the module)
    items,        \* the list of items
    auto_save, has_file,
    file,         \* the lines on disk, as long as no save has it open
    source, line, \* load: the lines that it reads, how many it has read
    out,          \* save: the lines written to the stream
    closing,      \* the save is the one of cleanup
    sets, lives,  \* bounds
    touched,      \* history: the table was changed by a setter in this life
    mine,         \* history: the file was written by the program
    trusted,      \* history: the last save that began was completed
    snapshot,     \* history: the table at the last completed save
    before,       \* history: the file at the start of this life
    quiet         \* history: completed cleanups in a row without a change

store == <<items, auto_save, has_file>>
history == <<touched, mine, trusted, snapshot, before, quiet>>
vars == <<mpc, items, auto_save, has_file, file, source, line, out, closing, sets, lives,
          touched, mine, trusted, snapshot, before, quiet>>

Init ==
    /\ mpc = "down" /\ items = <<>> /\ auto_save = TRUE /\ has_file = TRUE
    /\ file \in InitialFiles
    /\ source = <<>> /\ line = 0 /\ out = <<>> /\ closing = FALSE /\ sets = 0 /\ lives = 0
    /\ touched = FALSE /\ mine = FALSE /\ trusted = FALSE
    /\ snapshot = <<>> /\ before = <<>> /\ quiet = 0

-----------------------------------------------------------------------------
(* The table.                                                              *)

(* Mutant: the lookup misses the last item of the list.                    *)
FindItem_NotLast(t, k) == {n \in 1..Len(t) - 1 : t[n].key = k}

(* find_config_item: the positions of a key, at most one.                  *)
FindItem(t, k) == {n \in DOMAIN t : t[n].key = k}

(* config_set_string, _int, _float and _bool: a new item goes to the end;  *)
(* an item of another type is left alone, and the call reports success.    *)
SetItem(t, k, v) ==
    IF FindItem(t, k) = {} THEN Append(t, [key |-> k, val |-> v])
    ELSE [n \in DOMAIN t |-> IF n \in FindItem(t, k) /\ t[n].val.type = v.type
                             THEN [key |-> k, val |-> v] ELSE t[n]]

Set(k, v) ==
    /\ mpc \in {"inited", "loading", "up"} \/ (mpc = "saving" /\ ~closing)
    /\ sets < MaxSets
    /\ items' = SetItem(items, k, v)
    /\ sets' = sets + 1 /\ touched' = TRUE
    /\ UNCHANGED <<mpc, auto_save, has_file, file, source, line, out, closing, lives,
                   mine, trusted, snapshot, before, quiet>>

-----------------------------------------------------------------------------
(* Conversions.                                                            *)

(* Mutant: a text is tried as an integer before the dot is looked for.     *)
Parse_IntFirst(t) ==
    LET v == Trim[t]
    IN  IF v \in {"true", "1"} THEN Number("BOOL", 1)
        ELSE IF v \in {"false", "0"} THEN Number("BOOL", 0)
        ELSE IF Atoi[v] # 0 THEN Number("INT", Atoi[v])
        ELSE IF v \in Dotted THEN Number("FLOAT", Atof[v])
        ELSE String(v)

(* The value that load makes of a text: the first rule that fits.          *)
Parse(t) ==
    LET v == Trim[t]
    IN  IF v \in {"true", "1"} THEN Number("BOOL", 1)
        ELSE IF v \in {"false", "0"} THEN Number("BOOL", 0)
        ELSE IF v \in Dotted THEN Number("FLOAT", Atof[v])
        ELSE IF Atoi[v] # 0 THEN Number("INT", Atoi[v])
        ELSE String(v)

(* Mutant: the words for true and false are swapped.                       *)
Format_Swapped(x) ==
    CASE x.type = "STRING" -> x.text
      [] x.type = "INT"    -> IntText[x.num]
      [] x.type = "FLOAT"  -> FloatText[x.num]
      [] x.type = "BOOL"   -> IF x.num = 1 THEN "false" ELSE "true"

(* The text that save prints.                                              *)
Format(x) ==
    CASE x.type = "STRING" -> x.text
      [] x.type = "INT"    -> IntText[x.num]
      [] x.type = "FLOAT"  -> FloatText[x.num]
      [] x.type = "BOOL"   -> IF x.num = 1 THEN "true" ELSE "false"

-----------------------------------------------------------------------------
(* config_load_from_file.                                                  *)

LoadBegin ==
    /\ mpc' = "loading" /\ source' = file /\ line' = 0
    /\ UNCHANGED <<store, file, out, closing, sets, lives, history>>

(* config_module_start loads the file if there is a path; fopen may fail.  *)
Start ==
    /\ mpc = "inited"
    /\ \/ has_file /\ LoadBegin
       \/ /\ mpc' = "up"
          /\ touched' = TRUE                      \* nothing was loaded
          /\ UNCHANGED <<store, file, source, line, out, closing, sets, lives,
                         mine, trusted, snapshot, before, quiet>>

(* The same function called while the program runs.                        *)
Reload == mpc = "up" /\ LoadBegin

LoadLine ==
    /\ mpc = "loading" /\ line < Len(source)
    /\ line' = line + 1
    /\ LET l == source[line + 1]
       IN  items' = IF Trim[l.text] = NoText THEN items
                    ELSE SetItem(items, l.key, Parse(l.text))
    /\ UNCHANGED <<mpc, auto_save, has_file, file, source, out, closing, sets, lives, history>>

LoadEnd ==
    /\ mpc = "loading" /\ line = Len(source)
    /\ mpc' = "up"
    /\ UNCHANGED <<store, file, source, line, out, closing, sets, lives, history>>

-----------------------------------------------------------------------------
(* config_save_to_file.                                                    *)

(* fopen with "w" empties the file.                                        *)
SaveBegin(cleanup) ==
    /\ mpc' = "saving" /\ closing' = cleanup
    /\ out' = <<>> /\ file' = <<>> /\ line' = 0
    /\ mine' = TRUE /\ trusted' = FALSE
    /\ UNCHANGED <<store, source, sets, lives, touched, snapshot, before, quiet>>

Save == mpc = "up" /\ SaveBegin(FALSE)

SaveLine ==
    /\ mpc = "saving" /\ line < Len(items)
    /\ line' = line + 1
    /\ out' = Append(out, [key |-> items[line + 1].key, text |-> Format(items[line + 1].val)])
    /\ UNCHANGED <<mpc, store, file, source, closing, sets, lives, history>>

(* fclose; a setter may have changed items that were already printed.      *)
SaveEnd ==
    /\ mpc = "saving" /\ line = Len(items)
    /\ mpc' = IF closing THEN "saved" ELSE "up"
    /\ file' = out
    /\ trusted' = \A n \in DOMAIN items : out[n].text = Format(items[n].val)
    /\ snapshot' = items
    /\ quiet' = IF touched THEN 0 ELSE quiet + (IF closing THEN 1 ELSE 0)
    /\ UNCHANGED <<store, source, line, out, closing, sets, lives, touched, mine, before>>

-----------------------------------------------------------------------------
(* The life of the process.                                                *)

(* main gives up when there is no file; malloc or uv_mutex_init may fail   *)
(* in config_module_init, and the other modules run without it.            *)
ModuleInit ==
    /\ mpc = "down" /\ lives < MaxLives
    /\ lives' = lives + 1
    /\ mpc' \in {"inited", "degraded"}
    /\ items' = <<>> /\ auto_save' = TRUE /\ has_file' = TRUE
    /\ touched' = FALSE /\ before' = file
    /\ UNCHANGED <<file, source, line, out, closing, sets, mine, trusted, snapshot, quiet>>

(* config_module_set_config                                                *)
SetConfig(save, path) ==
    /\ mpc \in {"inited", "up"}
    /\ auto_save' = save /\ has_file' = path
    /\ UNCHANGED <<mpc, items, file, source, line, out, closing, sets, lives, history>>

(* config_module_cleanup saves first, if it is told to and can.            *)
CleanupSaves ==
    /\ mpc = "up" /\ auto_save /\ has_file
    /\ SaveBegin(TRUE)

CleanupFrees ==
    /\ mpc \in {"up", "saved", "degraded"}
    /\ mpc' = "down" /\ items' = <<>>
    /\ UNCHANGED <<auto_save, has_file, file, source, line, out, closing, sets, lives, history>>

(* The stream is flushed block by block: some lines, and perhaps the       *)
(* beginning of the next one, are on disk.                                 *)
Torn == {SubSeq(out, 1, n) : n \in 0..Len(out)}
        \cup UNION {{Append(SubSeq(out, 1, n), [key |-> out[n + 1].key, text |-> t])
                        : t \in Cut[out[n + 1].text]} : n \in 0..Len(out) - 1}

Crash ==
    /\ CrashesAllowed /\ mpc # "down"
    /\ mpc' = "down" /\ items' = <<>>
    /\ file' \in IF mpc = "saving" THEN Torn ELSE {file}
    /\ quiet' = IF mpc = "saving" THEN 0 ELSE quiet
    /\ UNCHANGED <<auto_save, has_file, source, line, out, closing, sets, lives,
                   touched, mine, trusted, snapshot, before>>

Next ==
    \/ ModuleInit \/ Start \/ Reload \/ LoadLine \/ LoadEnd
    \/ Save \/ SaveLine \/ SaveEnd \/ CleanupSaves \/ CleanupFrees \/ Crash
    \/ \E k \in Keys, v \in SetValues : Set(k, v)
    \/ \E save, path \in BOOLEAN : SetConfig(save, path)

Spec == Init /\ [][Next]_vars

-----------------------------------------------------------------------------
(* Properties.                                                             *)

(* Types.                                                                  *)
TypeOK ==
    /\ mpc \in {"down", "inited", "loading", "up", "saving", "saved", "degraded"}
    /\ items \in Seq(Items) /\ auto_save \in BOOLEAN /\ has_file \in BOOLEAN
    /\ file \in Seq(Lines) /\ source \in Seq(Lines) /\ out \in Seq(Lines)
    /\ line \in Nat /\ closing \in BOOLEAN /\ sets \in 0..MaxSets /\ lives \in 0..MaxLives
    /\ touched \in BOOLEAN /\ mine \in BOOLEAN /\ trusted \in BOOLEAN
    /\ snapshot \in Seq(Items) /\ before \in Seq(Lines) /\ quiet \in Nat

OncePerKey(s) == \A i, j \in DOMAIN s : s[i].key = s[j].key => i = j

(* A file that the program has written has one line per key, although save *)
(* walks the list without config_mutex while setters append to it, and     *)
(* although a crash may leave any part of the file.                        *)
OneLinePerKey == mine => OncePerKey(file)

(* Values that the textual form can carry: all but strings that are not    *)
(* plain.                                                                  *)
Carried(v) == v.type = "STRING" => v.text \in Plain

(* What is left of such a value: 0 and 1 become booleans, a float loses    *)
(* what "%.6f" does not print, infinity and nan become strings, and        *)
(* everything else keeps its type and its value.                           *)
Restored(v) ==
    CASE v.type = "INT" /\ v.num \in {0, 1} -> Number("BOOL", v.num)
      [] v.type = "FLOAT" /\ FloatText[v.num] \in Dotted ->
             Number("FLOAT", Atof[FloatText[v.num]])
      [] v.type = "FLOAT" /\ FloatText[v.num] \notin Dotted -> String(FloatText[v.num])
      [] OTHER -> v

(* What a completed save has written is in the table when the file has     *)
(* been loaded, also if the life that loaded it crashed and another one    *)
(* loaded it again: the value itself, as the life that saved may still     *)
(* have it, or what is left of it.  A file whose last save was cut off by  *)
(* a crash is not spoken of: it has lost lines.                            *)
SurvivesRestart ==
    mpc = "up" /\ trusted /\ ~touched =>
        \A n \in DOMAIN snapshot :
            LET v == snapshot[n].val
            IN  Carried(v) => \E j \in DOMAIN items : /\ items[j].key = snapshot[n].key
                                                      /\ items[j].val \in {v, Restored(v)}

(* Loading and saving change the file for good at most twice: after two    *)
(* lives in which nothing was set, a third one writes the file that it     *)
(* found, whatever texts somebody wrote there first.                       *)
FileSettles == mpc = "saved" /\ ~touched /\ quiet > 2 => file = before

(* What the file says of a key is what it still says when the program has  *)
(* loaded it, changed nothing and saved it.                                *)
KeepsTexts ==
    mpc = "saved" /\ ~touched =>
        \A n \in DOMAIN before :
            \E j \in DOMAIN file : /\ file[j].key = before[n].key
                                   /\ Trim[file[j].text] = Trim[before[n].text]
=============================================================================
