----------------------------- MODULE Translator -----------------------------
(* Translations (Translation/translator.cpp, Translation.xs): a message is  *)
(* looked up in the table of a .mo file, which is mapped into memory, by    *)
(* binary search.  Messages are numbers in the order strcmp puts them in.   *)
(* Nobody looks at the table when a file is loaded: it may be empty, out of *)
(* order, or shorter than its header says, and where a search leaves it,    *)
(* anything may lie.                                                        *)
EXTENDS Integers, Sequences

CONSTANTS Messages, \* the messages
          Files,    \* the files there are: what _load may be given.  A file is a
                    \* record of its size in bytes, of where its tables are, of the
                    \* count in its header and of the messages that do lie in it
          Uint      \* the range of an unsigned int: 2^32, and small in a run

VARIABLES file,    \* the file a Translator has been made of, or NoFile
          search,  \* the search that is going on: message, low and high
          found    \* what translate returned: the place in the table, or -1

lookupVars == <<file, search, found>>

NoFile   == [size |-> 0, tables |-> 0, count |-> 0, messages |-> <<>>]
NoSearch == [message |-> -1, low |-> 1, high |-> 0]
NULL     == -1
NotYet   == -2

(* The sum or difference of two unsigned numbers. *)
Unsigned(n) == IF n < 0 THEN n + Uint ELSE IF n >= Uint THEN n - Uint ELSE n

LookupInit == file = NoFile /\ search = NoSearch /\ found = NotYet

(* Translator(): a file that cannot be read, or is too short for its header *)
(* or for where its tables start, is refused, and there is no translator.   *)
Acceptable(f) == f.size >= 16 /\ f.size >= f.tables

(* An entry of the table takes eight bytes of a file whose size is an       *)
(* unsigned int; the count is whatever the header says.                     *)
ASSUME FilesAssumption ==
    /\ Uint \in Nat \ {0} /\ Messages \subseteq Nat
    /\ \A f \in Files :
          /\ f.messages \in Seq(Nat) /\ 2 * Len(f.messages) <= Uint
          /\ f.count \in Nat /\ Len(f.messages) <= f.count /\ f.count < Uint

Load(f) ==
    /\ file = NoFile
    /\ file' = IF Acceptable(f) THEN f ELSE NoFile
    /\ UNCHANGED <<search, found>>

Unload ==
    /\ file # NoFile /\ search = NoSearch
    /\ file' = NoFile /\ found' = NotYet
    /\ UNCHANGED search

(* translate: without a translator the message stays as it is. *)
Translate(message) ==
    /\ search = NoSearch
    /\ IF file = NoFile
       THEN found' = NULL /\ UNCHANGED search
       ELSE /\ search' = [message |-> message, low |-> 0, high |-> Unsigned(file.count - 1)]
            /\ found' = NotYet
    /\ UNCHANGED file

(* Mutant: the search ends when one message is left. *)
SearchingTwo(s) == s.low < s.high

Searching(s) == s.low <= s.high

Mid(s) == Unsigned(s.low + s.high) \div 2

(* What strcmp may say of the message searched for and the one at a place.  *)
Comparisons(mid) ==
    IF mid >= Len(file.messages) THEN {-1, 0, 1}
    ELSE LET orig == file.messages[mid + 1]
         IN  {IF search.message < orig THEN -1 ELSE IF search.message > orig THEN 1 ELSE 0}

(* One turn of the loop; a search that reads outside the table may also end *)
(* the program, which then takes no more steps.                             *)
Probe ==
    /\ search # NoSearch
    /\ \/ /\ ~ Searching(search)
          /\ found' = NULL /\ search' = NoSearch
       \/ /\ Searching(search)
          /\ LET mid == Mid(search)
             IN  \E i \in Comparisons(mid) :
                   \/ i < 0 /\ search' = [search EXCEPT !.high = Unsigned(mid - 1)] /\ UNCHANGED found
                   \/ i > 0 /\ search' = [search EXCEPT !.low = Unsigned(mid + 1)] /\ UNCHANGED found
                   \/ i = 0 /\ found' = mid /\ search' = NoSearch
    /\ UNCHANGED file

LookupNext ==
    \/ \E f \in Files : Load(f)
    \/ Unload
    \/ \E m \in Messages : Translate(m)
    \/ Probe

LookupSpec == LookupInit /\ [][LookupNext]_lookupVars

(* The whole table lies in the file.                                        *)
Whole(f) == Len(f.messages) = f.count

Sorted(f) == \A i, j \in DOMAIN f.messages : i < j => f.messages[i] < f.messages[j]

(* The message is not before the first one of the table, and there is a     *)
(* first one.  Of the table of any program this is so, as it begins with    *)
(* the empty message; in others, the high of a search may fall below zero.  *)
NotBefore(f, message) == f.count > 0 /\ f.messages[1] <= message

(* In a whole table, sorted or not, a search for a message that is not      *)
(* before the first reads no place outside the table.  If it is sorted, the *)
(* search goes on as long as the table has the message, and has it between  *)
(* low and high: so it ends with the place of the message, or with NULL if  *)
(* there is none (Translator::translate, on unsigned numbers that wrap      *)
(* around).                                                                 *)
LookupsFindMessages ==
    search # NoSearch /\ Whole(file) /\ NotBefore(file, search.message) =>
        /\ Searching(search) => Mid(search) < file.count
        /\ Sorted(file) =>
              \A i \in DOMAIN file.messages :
                 file.messages[i] = search.message =>
                     Searching(search) /\ i - 1 \in search.low..search.high
=============================================================================
