----------------------------- MODULE ConfigIni -----------------------------
(***************************************************************************)
(* config_ini_manager.c: the settings of ./rtsp.ini in memory.  They are    *)
(* loaded line by line through a TextFileReader, looked up, changed, and    *)
(* written back.  The process may end at any time; what WriteConfig has put *)
(* into the file by then is any beginning of its text.  The mutex of the    *)
(* manager is never constructed and excludes nobody, so it is left out.     *)
(* Keys and values are copied into the fields of a config_item without a    *)
(* look at their lengths; a process that has overrun one is not followed     *)
(* further than to its end.                                                *)
(***************************************************************************)
EXTENDS TextLoading

CONSTANTS
  Room,        \* the line buffers, 1024 in the code
  KeySize,     \* GNUC_CONFIG_ITEM_KEY_SIZE, 64
  ValueSize,   \* GNUC_CONFIG_ITEM_VALUE_SIZE, 256
  IntRoom,     \* the size SetInteger gives to C_itoa, 10
  Keys, Values, Integers10,  \* what is set: texts, and numbers as digits
  Junk,        \* what may lie behind a number in an uninitialized buffer
  ConfigFiles, \* the settings files before the first start
  MaxItems

ASSUME ConfigAssumption ==
  /\ Room \in Nat /\ Room > 5 /\ IntRoom \in Nat /\ IntRoom > 2
  /\ KeySize \in Nat \ {0} /\ ValueSize \in Nat \ {0}
  /\ \A t \in ConfigFiles \cup Keys \cup Values \cup Integers10 \cup Junk : t \in Seq(STRING)

Equals == "="
Blank == " "
Tab == "\t"

ASSUME NamedMarks == {Equals, Blank, Tab} \subseteq STRING

VARIABLES
  items,           \* the list of config_item
  file_not_found,
  saved,           \* the items of the last WriteConfig
  wrote,           \* whether it has completed
  changed          \* whether items were set since they were loaded

configVars == <<items, file_not_found, saved, wrote, changed>>

Item(key, value) == [key |-> key, value |-> value]

(* A phase of its own: a field of an item has been overrun.                 *)
Spoiled == 2

(* Mutant of Delimiter: whichever comes first.                              *)
DelimiterAny(line) == SelectInSeq(line, LAMBDA c : c \in {Equals, Blank, Tab})

-----------------------------------------------------------------------------
(* A line holds a setting if it has an equals sign, or else a blank or a    *)
(* tab; the blanks and tabs behind that are not part of the value.          *)
Delimiter(line) ==
  IF Has(line, <<Equals>>) THEN strstr(line, <<Equals>>)
  ELSE IF Has(line, <<Blank>>) THEN strstr(line, <<Blank>>)
  ELSE strstr(line, <<Tab>>)

Value(rest) ==
  LET ink == {i \in DOMAIN rest : rest[i] \notin {Blank, Tab}}
  IN  IF ink = {} THEN <<>> ELSE From(rest, CHOOSE i \in ink : \A j \in ink : i <= j)

(* A delimiter in the last place of the line buffer, or nothing but blanks  *)
(* from it to that place, ends the line's use.                             *)
Parsed(line) ==
  LET at == Delimiter(line)
      rest == From(line, at + 1)
  IN  IF at = 0 \/ at >= Room - 1 \/ (Len(line) >= Room - 1 /\ ToSet(rest) \subseteq {Blank, Tab}) THEN <<>>
      ELSE <<Item(Before(line, at), Value(rest))>>

(* The key is copied before a line is refused, the value afterwards.        *)
Overlong(line) ==
  \/ Delimiter(line) > KeySize
  \/ \E i \in DOMAIN Parsed(line) : Len(Parsed(line)[i].value) >= ValueSize

(* ConfigIniManager_Constructor, up to its loop: a file that cannot be      *)
(* opened leaves no settings.                                              *)
Constructed(missing) ==
  /\ items' = <<>> /\ changed' = FALSE
  /\ file_not_found' = missing
  /\ reader' = TextFileReader(file)
  /\ phase' = IF missing THEN Loaded ELSE Reading

LoadItem ==
  /\ into = "config" /\ phase = Reading
  /\ LET line == TextFileReader_GetLine(reader, Room)
     IN  /\ reader' = line.reader
         /\ items' = IF line.ret > 0 THEN items \o Parsed(line.text) ELSE items
         /\ phase' = IF line.ret > 0 /\ Overlong(line.text) THEN Spoiled
                      ELSE IF line.ret > 0 THEN Reading ELSE Loaded
  /\ UNCHANGED <<file, into, rows, text, size, over, file_not_found, saved, wrote, changed>>

(* The process ends, by itself or not, and is started again.  Now and then  *)
(* the file is not readable.                                               *)
Restart ==
  /\ into = "config"
  /\ \E missing \in BOOLEAN : Constructed(missing)
  /\ UNCHANGED <<file, into, rows, text, size, over, saved, wrote>>

-----------------------------------------------------------------------------
Running == into = "config" /\ phase = Loaded

(* The item that GetChar and GetInteger answer with, 0 if there is none.    *)
Found(key) == SelectInSeq(items, LAMBDA item : item.key = key)

(* SetChar and SetInteger change the first match or push an item.           *)
Set(key, value) ==
  /\ Running
  /\ \/ Found(key) > 0 /\ items' = [items EXCEPT ![Found(key)].value = value]
     \/ Found(key) = 0 /\ Len(items) < MaxItems /\ items' = Append(items, Item(key, value))
  /\ phase' = IF Len(value) >= ValueSize \/ (Found(key) = 0 /\ Len(key) >= KeySize) THEN Spoiled ELSE phase
  /\ changed' = TRUE
  /\ UNCHANGED <<file, into, reader, rows, text, size, over, file_not_found, saved, wrote>>

SetChar == \E key \in Keys, value \in Values : Set(key, value)

(* C_itoa stores a newline in the last place of the buffer and no zero      *)
(* behind as many digits as fit: the copy goes on with what lies there.     *)
C_itoa(digits) ==
  IF Len(digits) <= IntRoom - 2 THEN {digits}
  ELSE {SubSeq(digits, 1, IntRoom - 1) \o <<Newline>> \o junk : junk \in Junk}

SetInteger == \E key \in Keys, n \in Integers10 : \E value \in C_itoa(n) : Set(key, value)

(* Mutant of Line: no return character and newline.                         *)
LineOpen(item) == item.key \o <<Equals>> \o item.value

(* What WriteConfig prints of an item, cut to its buffer.                   *)
Line(item) ==
  LET line == item.key \o <<Equals>> \o item.value \o <<Return, Newline>>
  IN  SubSeq(line, 1, Least(Len(line), Room - 2))

WriteConfig ==
  /\ Running
  /\ file' = FlattenSeq([i \in DOMAIN items |-> Line(items[i])])
  /\ saved' = items /\ wrote' = "whole" /\ changed' = FALSE
  /\ UNCHANGED <<into, reader, rows, text, size, over, phase, items, file_not_found>>

(* It opens the file for writing and is ended before the file is closed.    *)
CrashInWriteConfig ==
  /\ Running
  /\ LET whole == FlattenSeq([i \in DOMAIN items |-> Line(items[i])])
     IN  \E n \in 0..Len(whole) : file' = SubSeq(whole, 1, n)
  /\ saved' = items /\ wrote' = "torn"
  /\ items' = <<>> /\ changed' = FALSE /\ file_not_found' = FALSE
  /\ reader' = TextFileReader(file') /\ phase' = Reading
  /\ UNCHANGED <<into, rows, text, size, over>>

ConfigInit ==
  /\ file \in ConfigFiles
  /\ Start("config", Room)
  /\ reader = TextFileReader(file)
  /\ items = <<>> /\ saved = <<>>
  /\ file_not_found = FALSE /\ wrote = "never" /\ changed = FALSE

ConfigNext == LoadItem \/ Restart \/ SetChar \/ SetInteger \/ WriteConfig \/ CrashInWriteConfig

TextInit ==
  \/ ConfigInit
  \/ /\ LoadInit
     /\ items = <<>> /\ saved = <<>>
     /\ file_not_found = FALSE /\ wrote = "never" /\ changed = FALSE

TextNext == ConfigNext \/ (LoadNext /\ UNCHANGED configVars)

TextSpec == TextInit /\ [][TextNext]_<<loadVars, configVars>>

-----------------------------------------------------------------------------
(* Settings the file's form can hold.                                       *)
Clean(item) ==
  /\ ~Has(item.key, <<Equals>>)
  /\ ~Has(item.key, <<Newline>>) /\ ~Has(item.value, <<Newline>>)
  /\ item.value = Value(item.value)
  /\ Len(item.key \o item.value) + 3 <= Room - 2

AllClean == \A i \in DOMAIN saved : Clean(saved[i])

(* What has been written is what a later start reads: the same settings in  *)
(* the same order, duplicates of a key included, wherever the pieces of the *)
(* reader end; and no field of an item is too short for it.                *)
RoundTrip ==
  wrote = "whole" /\ ~changed /\ ~file_not_found /\ AllClean =>
    phase # Spoiled /\ (Running => items = saved)

(* A key cut off at a blank or a tab would be a setting.                    *)
NoBlankKeys == \A i \in DOMAIN saved : ~Has(saved[i].key, <<Blank>>) /\ ~Has(saved[i].key, <<Tab>>)

(* A crash inside WriteConfig loses settings at the end, and cuts at most   *)
(* one value; no setting changes its key or its place, nor outgrows its     *)
(* fields.                                                                 *)
CrashKeepsPrefix ==
  wrote = "torn" /\ ~changed /\ AllClean /\ NoBlankKeys =>
    /\ phase # Spoiled
    /\ Running =>
         /\ Len(items) <= Len(saved)
         /\ \A i \in DOMAIN items :
              /\ items[i].key = saved[i].key
              /\ IF i < Len(items) THEN items[i] = saved[i] ELSE IsPrefix(items[i].value, saved[i].value)
=============================================================================
