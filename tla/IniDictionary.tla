---------------------------- MODULE IniDictionary ----------------------------
(* The configuration file of leap-fpga-ctrl (tools/platforms/leap-fpga-ctrl:    *)
(* dictionary.c, iniparser.c).  iniparser_load reads the file line by line into  *)
(* a dictionary, an array of slots that is searched from the front and doubled   *)
(* when it is full; entries may then be set and deleted.  A device of the tool   *)
(* is a section, and its number is the position of the section in the array.     *)
EXTENDS Integers, Sequences, FiniteSets

CONSTANTS
    Files,      \* sequences of lines [kind, name, text]
    Names,      \* names [word, upper] of sections and keys
    DICTMINSZ,  \* slots of a new dictionary, 128 in the code
    MaxEntries, \* bound: iniparser_set adds entries up to this number
    NULL        \* no key, no value, no section

VARIABLES
    file,       \* the file that is read
    lineno,     \* lines read
    section,    \* the section that the next keys belong to
    last,       \* the line to be continued
    errs,       \* the parser's error count
    status,     \* "load", "ready", or "null" when iniparser_load returned NULL
    edited,     \* an entry was set or deleted after the load
    d           \* the dictionary [n, key, val]; the length of key is its size

vars == <<file, lineno, section, last, errs, status, edited, d>>

\* strlwc
strlwc(name) == name.word
Words == {strlwc(x) : x \in Names}

\* A section is stored under its name alone, a key as "section:key".
Keys == {<<s>> : s \in Words} \cup {<<s, k>> : s \in Words \cup {NULL}, k \in Words}
IsSection(key) == Len(key) = 1

Slots == DOMAIN d.key
Used == {i \in Slots : d.key[i] # NULL}
View == [k \in {d.key[i] : i \in Used} |-> d.val[CHOOSE i \in Used : d.key[i] = k]]

TypeOK ==
    /\ lineno \in 0 .. Len(file) /\ section \in Words \cup {NULL}
    /\ errs \in 0 .. Len(file) /\ status \in {"load", "ready", "null"}
    /\ d.n \in 0 .. Len(d.key) /\ Len(d.key) = Len(d.val)
    /\ \A i \in Slots : d.key[i] = NULL \/ d.key[i] \in Keys

dictionary_new(size) == [n |-> 0, key |-> [i \in 1 .. size |-> NULL],
                                  val |-> [i \in 1 .. size |-> NULL]]

Init ==
    /\ file \in Files
    /\ lineno = 0 /\ section = NULL /\ last = NULL /\ errs = 0
    /\ status = "load" /\ edited = FALSE
    /\ d = dictionary_new(DICTMINSZ)

-----------------------------------------------------------------------------
(* dictionary.c *)

Find(key) == {i \in Slots : d.key[i] = key}
First(S) == CHOOSE i \in S : \A j \in S : i <= j

dictionary_get(key, def) == IF Find(key) = {} THEN def ELSE d.val[First(Find(key))]

\* The arrays are doubled when every slot is taken.
Grown == IF d.n = Len(d.key)
         THEN LET more == [i \in 1 .. Len(d.key) |-> NULL]
              IN  [d EXCEPT !.key = @ \o more, !.val = @ \o more]
         ELSE d

\* Defective variant: a full array is not grown, and the last slot is reused.
dictionary_set_Evicts(key, val) ==
    IF d.n > 0 /\ Find(key) # {}
    THEN [d EXCEPT !.val[First(Find(key))] = val]
    ELSE IF d.n = Len(d.key)
    THEN [d EXCEPT !.key[Len(d.key)] = key, !.val[Len(d.key)] = val]
    ELSE LET i == First({j \in DOMAIN d.key : d.key[j] = NULL})
         IN  [d EXCEPT !.n = @ + 1, !.key[i] = key, !.val[i] = val]

dictionary_set(key, val) ==
    IF d.n > 0 /\ Find(key) # {}
    THEN [d EXCEPT !.val[First(Find(key))] = val]
    ELSE LET i == First({j \in DOMAIN Grown.key : Grown.key[j] = NULL})
         IN  [Grown EXCEPT !.n = @ + 1, !.key[i] = key, !.val[i] = val]

\* Defective variant: the slot is emptied but still counted.
dictionary_unset_Counted(key) ==
    IF Find(key) = {} THEN d
    ELSE LET i == First(Find(key)) IN [d EXCEPT !.key[i] = NULL, !.val[i] = NULL]

dictionary_unset(key) ==
    IF Find(key) = {} THEN d
    ELSE LET i == First(Find(key))
         IN  [d EXCEPT !.n = @ - 1, !.key[i] = NULL, !.val[i] = NULL]

-----------------------------------------------------------------------------
(* Sections by number *)

Sections == {i \in Used : IsSection(d.key[i])}
iniparser_getnsec == Cardinality(Sections)

\* Defective variant: the number counts every entry.
iniparser_getsecname_Slot(n) == IF n + 1 \in Sections THEN d.key[n + 1] ELSE NULL

iniparser_getsecname(n) ==
    IF iniparser_getnsec <= n THEN NULL
    ELSE d.key[CHOOSE i \in Sections : Cardinality({j \in Sections : j < i}) = n]

-----------------------------------------------------------------------------
(* iniparser_load *)

\* A line that ends in a backslash is continued by the next one.
Joined(line) ==
    IF last = NULL THEN line
    ELSE [kind |-> IF line.kind \in {"continued", "too long"} THEN line.kind ELSE "value",
          name |-> last.name, text |-> last.text \o line.text]

\* Defective variant: the section is never left.
InSection_First(line) == IF section = NULL THEN strlwc(line.name) ELSE section
InSection(line) == strlwc(line.name)

\* A section or a value that is stored clears the count of syntax errors.
iniparser_line(line) ==
    \/ /\ line.kind = "section"
       /\ section' = InSection(line)
       /\ d' = dictionary_set(<<section'>>, NULL)
       /\ errs' = 0
    \/ /\ line.kind = "value"
       /\ d' = dictionary_set(<<section, strlwc(line.name)>>, line.text)
       /\ errs' = 0
       /\ UNCHANGED section
    \/ line.kind \in {"empty", "comment"} /\ UNCHANGED <<section, d, errs>>
    \/ line.kind = "error" /\ errs' = errs + 1 /\ UNCHANGED <<section, d>>

ReadLine ==
    /\ status = "load" /\ lineno < Len(file)
    /\ lineno' = lineno + 1
    /\ LET line == Joined(file[lineno + 1])
       IN  \/ line.kind = "too long" /\ status' = "null" /\ UNCHANGED <<section, last, errs, d>>
           \/ /\ line.kind = "continued"
              /\ last' = line
              /\ UNCHANGED <<section, errs, status, d>>
           \/ iniparser_line(line) /\ last' = NULL /\ UNCHANGED status
    /\ UNCHANGED <<file, edited>>

\* At the end of the file a line that is still to be continued is dropped, and
\* the dictionary is deleted if the last lines were in error.
LoadReturns ==
    /\ status = "load" /\ lineno = Len(file)
    /\ status' = IF errs = 0 THEN "ready" ELSE "null"
    /\ UNCHANGED <<file, lineno, section, last, errs, edited, d>>

\* iniparser_set and iniparser_unset
iniparser_set(key, val) ==
    /\ status = "ready" /\ (d.n < MaxEntries \/ Find(key) # {})
    /\ d' = dictionary_set(key, val)
    /\ edited' = TRUE
    /\ UNCHANGED <<file, lineno, section, last, errs, status>>

iniparser_unset(key) ==
    /\ status = "ready" /\ Find(key) # {}
    /\ d' = dictionary_unset(key)
    /\ edited' = TRUE
    /\ UNCHANGED <<file, lineno, section, last, errs, status>>

EntryKeys == {<<s, k>> : s \in Words, k \in Words}

Next ==
    \/ ReadLine \/ LoadReturns
    \/ \E key \in EntryKeys : iniparser_set(key, <<>>) \/ iniparser_unset(key)

Spec == Init /\ [][Next]_vars

-----------------------------------------------------------------------------
(* Properties *)

\* dictionary_set: a name is in at most one slot, so that a search from the front
\* finds its latest value, and the count that decides when to grow is exact.
SlotsConsistent ==
    /\ \A i, j \in Used : d.key[i] = d.key[j] => i = j
    /\ d.n = Cardinality(Used)

\* The array of slots implements a map: every step changes one name.
ReadTexts == UNION {{f[i].text : i \in DOMAIN f} : f \in Files}
Map == INSTANCE ConfigMap WITH
           Keys <- Keys, map <- View,
           Values <- {NULL, <<>>} \cup ReadTexts \cup {a \o b : a, b \in ReadTexts}
ImplementsMap == Map!Spec

\* The entry that a line of the file makes, and the value that the file gives it:
\* that of the last line for the entry, in the section that the line is in.
Begins(i) == i = 1 \/ file[i - 1].kind # "continued"
SectionAt(i) ==
    LET S == {j \in 1 .. i : file[j].kind = "section" /\ Begins(j)}
    IN  IF S = {} THEN NULL ELSE strlwc(file[CHOOSE j \in S : \A k \in S : k <= j].name)
EntryAt(i) == IF file[i].kind = "section" THEN <<SectionAt(i)>>
              ELSE <<SectionAt(i), strlwc(file[i].name)>>
Entries == {i \in 1 .. Len(file) : /\ Begins(i)
                                   /\ \/ file[i].kind \in {"section", "value"}
                                      \/ file[i].kind = "continued" /\ i < Len(file)}
TextAt(i) == IF file[i].kind = "section" THEN NULL
             ELSE IF file[i].kind = "continued" THEN file[i].text \o file[i + 1].text
             ELSE file[i].text
LoadedAsWritten ==
    status = "ready" /\ ~edited =>
        /\ DOMAIN View = {EntryAt(i) : i \in Entries}
        /\ \A i \in Entries : (\A j \in Entries : EntryAt(j) = EntryAt(i) => j <= i)
                                 => View[EntryAt(i)] = TextAt(i)

\* The devices of the tool are numbered in the order of their sections in the file.
SectionsInOrder ==
    status = "ready" /\ ~edited =>
        LET firsts == {i \in Entries : file[i].kind = "section"
                          /\ \A j \in Entries : EntryAt(j) = EntryAt(i) => i <= j}
        IN  /\ iniparser_getnsec = Cardinality(firsts)
            /\ \A i \in firsts :
                  iniparser_getsecname(Cardinality({j \in firsts : j < i})) = EntryAt(i)
==============================================================================
