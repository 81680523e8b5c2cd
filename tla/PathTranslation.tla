--------------------------- MODULE PathTranslation ---------------------------
(***************************************************************************)
(* Path names: the tokenizer strtok/spilt_strings (lib/string.c), the two  *)
(* ways in which lib/vfs.c takes a path apart and to_abs_path.             *)
(*                                                                         *)
(* A text is a sequence of slashes and names, no two names in a row: what  *)
(* the code does to a name is compare, copy or skip it.  comps, abs_path   *)
(* and the copies of paths are taken to be long enough: texts have less    *)
(* than TMPFS_MAX_PATH_LEN characters and VFS_MAX_DEPTH components.        *)
(***************************************************************************)
EXTENDS Integers, Sequences, SequencesExt

CONSTANTS
  Tokens,     \* what texts consist of: the slash and names
  AtZero      \* what the bytes at address 0 spell

Slash == "/"
Blank == ""
CurrentDir == "."
ParentDir == ".."

ASSUME PathAssumption ==
  /\ {Slash, Blank, CurrentDir, ParentDir} \subseteq Tokens
  /\ AtZero \in Tokens \ {Slash, Blank, CurrentDir, ParentDir}

(* What a component that is not blank may be called.                       *)
Names == Tokens \ {Slash, Blank}

(* What a text is: names are not blank and do not follow each other.       *)
WellFormed(text) ==
  /\ Blank \notin ToSet(text)
  /\ \A i \in 1..Len(text) - 1 : text[i] = Slash \/ text[i + 1] = Slash

-----------------------------------------------------------------------------
(* spilt_strings(comps, text, "/"): every call of strtok returns what is   *)
(* between two slashes, also if it is blank.                               *)
Strtok(comps, token) ==
  IF token = Slash THEN Append(comps, Blank) ELSE [comps EXCEPT ![Len(comps)] = token]

Split(text) ==
  LET comps[n \in 0..Len(text)] ==
        IF n = 0 THEN <<Blank>> ELSE Strtok(comps[n - 1], text[n])
  IN comps[Len(text)]

(* What a chain of first_component and pop_first_component visits: they    *)
(* skip one slash before the component and one after it, so that a//b is   *)
(* <<a, b>>, but //a begins with a blank component.                        *)
SearchComps(text) ==
  LET slash(i) == i \in DOMAIN text /\ text[i] = Slash
      name(i) == i \in DOMAIN text /\ text[i] # Slash
      from[i \in 1..Len(text) + 1] ==
        LET first == IF slash(i) THEN i + 1 ELSE i
            end == IF name(first) THEN first + 1 ELSE first
            rest == IF slash(end) THEN end + 1 ELSE end
        IN <<IF name(first) THEN text[first] ELSE Blank>> \o
           (IF rest \in DOMAIN text THEN from[rest] ELSE <<>>)
  IN from[1]

(* Each component behind a slash.                                          *)
Join(comps) ==
  LET text[n \in 0..Len(comps)] ==
        IF n = 0 THEN <<>> ELSE text[n - 1] \o <<Slash, comps[n]>>
  IN text[Len(comps)]

(* Fault: ".." removes whatever is on the top of the stack.                *)
PushPopsParent(stack, name) ==
  CASE name \in {Blank, CurrentDir} -> stack
    [] name = ParentDir /\ stack # <<>> -> Front(stack)
    [] OTHER -> Append(stack, name)

(* The loop of to_abs_path, a stack in place.                              *)
Push(stack, name) ==
  CASE name \in {Blank, CurrentDir} -> stack
    [] name = ParentDir /\ stack # <<>> /\ Last(stack) # ParentDir -> Front(stack)
    [] OTHER -> Append(stack, name)

(* The inner loop, which skips blanks and ".", does not test its index:    *)
(* behind the last component it finds the NULL that ends comps, the name   *)
(* at address 0.                                                           *)
Translate(comps) ==
  LET stack[n \in 0..Len(comps)] ==
        IF n = 0 THEN <<>> ELSE Push(stack[n - 1], comps[n])
      all == stack[Len(comps)]
  IN IF Last(comps) \in {Blank, CurrentDir} THEN Append(all, AtZero) ELSE all

(* to_abs_path.  A path that begins with a slash is not translated; if cwd *)
(* is no directory path the result stays as sysc_open and the others have  *)
(* made it, empty.                                                         *)
AbsPath(cwd, path) ==
  IF path # <<>> /\ path[1] = Slash THEN path
  ELSE IF cwd = <<>> \/ cwd[1] # Slash \/ Last(cwd) # Slash THEN <<>>
  ELSE Join(Translate(Split(cwd \o path)))

-----------------------------------------------------------------------------
(* The reference for AbsPath: blanks and "." mean nothing, and a name and  *)
(* a later ".." cancel each other like a pair of parentheses.              *)
Level(name) ==
  CASE name \in {Blank, CurrentDir} -> 0
    [] name = ParentDir -> -1
    [] OTHER -> 1

Canonical(comps) ==
  LET balance[k \in 0..Len(comps)] ==
        IF k = 0 THEN 0 ELSE balance[k - 1] + Level(comps[k])
      cancel(i, j) ==
        balance[j] = balance[i - 1] /\ \A k \in i..j - 1 : balance[k] > balance[i - 1]
      kept(k) ==
        /\ Level(comps[k]) # 0
        /\ \A i, j \in DOMAIN comps : i < j /\ k \in {i, j} => ~cancel(i, j)
      kept_to[k \in 0..Len(comps)] ==
        IF k = 0 THEN <<>>
        ELSE IF kept(k) THEN Append(kept_to[k - 1], comps[k]) ELSE kept_to[k - 1]
  IN kept_to[Len(comps)]
=============================================================================
