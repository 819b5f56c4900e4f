-------------------------- MODULE ConfigRepository --------------------------
(***************************************************************************)
(* The settings that a user chooses, and the file that keeps them.         *)
(*                                                                         *)
(* A table in memory holds a value per entry, which is a section (a thing, *)
(* or the site) and a key.  Every change rewrites the whole file in place, *)
(* and a start of the daemon reads it back.  Types of values are left out: *)
(* only this module writes the entries that it reads.                      *)
(***************************************************************************)

CONSTANTS
  Things,   \* ids of things
  Settings, \* the persisted properties that things have, pairs <<id, key>>
  Values,   \* what a setting may be
  Default,  \* the fallback of an interval or offset that was never set
  Unset,    \* no value
  Broken    \* contents of a file that toml::parse does not accept

Site == "site"
Interval == <<Site, "thing_interval">>
Offset(t) == <<t, "offset">>

Sections == Things \cup {Site}
Entries == Settings \cup {Interval}
SettingsOf(s) == {e \in Entries : e[1] = s}
Tables == [Entries -> Values \cup {Unset}]
Empty == [e \in Entries |-> Unset]

ASSUME SettingsAssumption ==
  /\ Site \notin Things
  /\ Settings \subseteq Things \X {"name", "pinned", "offset"}
  /\ Default \in Values
  /\ Unset \notin Values
  /\ Broken \notin Tables

VARIABLES
  table,  \* Impl::configTable
  file    \* what a start of the daemon would read

configVars == <<table, file>>

ConfigTypeOK == table \in Tables /\ file \in Tables \cup {Broken}

ConfigInit == table = Empty /\ file = Empty

-----------------------------------------------------------------------------

(* Fallbacks are not stored.  *)
valueOr(e, fallback) == IF table[e] = Unset THEN fallback ELSE table[e]

(* What would be lost with the process.  *)
persistInMemory(new) == table' = new /\ UNCHANGED file

(* persistProperty: the table and then the whole file.  *)
persistProperties(new) == table' = new /\ file' = new

With(tab, e, v) == [tab EXCEPT ![e] = v]

(* The file is truncated and written from the table, in any order but      *)
(* section by section.  What a crash leaves of it is a part that ends with *)
(* a line (a number that is cut short is left out), or does not parse.     *)
Kept(kept) ==
  \E cut \in Sections : \A s \in Sections \ {cut} :
    SettingsOf(s) \subseteq kept \/ SettingsOf(s) \cap kept = {}

Remains(new) ==
  {Broken} \cup
  {[e \in Entries |-> IF e \in kept THEN new[e] ELSE Unset] :
     kept \in {k \in SUBSET Entries : Kept(k)}}

(* parseConfigFile: a missing file is an empty one, one that does not      *)
(* parse throws through main.  The interval is set, which rewrites the     *)
(* file at every start.                                                    *)
Parsed == With(file, Interval, IF file[Interval] = Unset THEN Default ELSE file[Interval])

parseConfigFile ==
  /\ file # Broken
  /\ persistProperties(Parsed)

(* The process ends: between two writes, or in the middle of one.  *)
Forget == table' = Empty /\ UNCHANGED file

ForgetInWrite(new) == table' = Empty /\ file' \in Remains(new)
=============================================================================
