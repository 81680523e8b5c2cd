-------------------------------- MODULE Cpio --------------------------------
(***************************************************************************)
(* The walks of lib/cpio.c through the archive in memory: cpio_ls,         *)
(* cpio_cat, load_program and cpio_parse, with read_header.                *)
(*                                                                         *)
(* The archive is what the cpio program writes: for each file a header, a  *)
(* name and the data, the name and the data filled up to words of 4 bytes. *)
(* A place in it is an offset.  Numbers in a header are sequences of       *)
(* Digits hexadecimal digits and int has 4 * Digits bits (8 and 32 in the  *)
(* code).                                                                  *)
(***************************************************************************)
EXTENDS Integers, Sequences, SequencesExt

CONSTANTS
  Archive,         \* the files: a sequence of [path, namesize, size]
  Digits,          \* of a number in a header
  Garbage,         \* the uninitialised digit of read_header: 0 is the end of a string
  MaxProgramSize   \* USER_PROGRAM_MAX_SIZE

(* Powers of 16.                                                           *)
Power[n \in 0..Digits] == IF n = 0 THEN 1 ELSE 16 * Power[n - 1]

ASSUME CpioAssumption ==
  /\ Digits \in Nat \ {0}
  /\ Archive \in Seq([path : Seq(STRING), namesize : 1..Power[Digits] - 1,
                      size : 0..Power[Digits] - 1]) \ {<<>>}
  /\ Garbage \subseteq Int
  /\ MaxProgramSize \in Nat

HeaderSize == 110

-----------------------------------------------------------------------------
(* The image.                                                              *)
Trailer == Len(Archive) + 1

RoundUp(n) == ((n + 3) \div 4) * 4

Offset ==
  LET at[i \in 1..Trailer] ==
        IF i = 1 THEN 0
        ELSE at[i - 1] + RoundUp(HeaderSize + Archive[i - 1].namesize)
             + RoundUp(Archive[i - 1].size)
  IN at

DataAt(i) == Offset[i] + RoundUp(HeaderSize + Archive[i].namesize)

FieldOf(n) == [d \in 1..Digits |-> (n \div Power[Digits - d]) % 16]

-----------------------------------------------------------------------------
(* myHex2Int, in the width of an int.                                      *)
MyHex2Int(digits) ==
  LET res[n \in 0..Len(digits)] ==
        IF n = 0 THEN 0 ELSE (res[n - 1] * 16 + digits[n]) % Power[Digits]
  IN res[Len(digits)]

(* Fault: an int of twice the width keeps the uninitialised digit.         *)
ReadHeaderWide(field, garbage) ==
  LET digits == IF garbage = 0 THEN field ELSE <<garbage>> \o field
  IN FoldLeft(LAMBDA res, d : res * 16 + d, 0, digits)

(* read_header: a[0] is not initialised, a[1] is the end of the string, so *)
(* the digits are appended to the empty string or to one garbage digit.    *)
ReadHeader(field, garbage) ==
  MyHex2Int(IF garbage = 0 THEN field ELSE <<garbage>> \o field)

(* The name ends where header and name fill words.                         *)
PaddedName(namesize) ==
  LET over == (namesize + HeaderSize) % 4
  IN IF over = 0 THEN namesize ELSE namesize + (4 - over)

Padded(filesize) ==
  IF filesize % 4 = 0 THEN filesize ELSE filesize + (4 - (filesize % 4))

(* The loop of all the walks: the files from offset 0 on until the trailer,*)
(* with the padded size and the place of the data.  Where the walk meets   *)
(* no header it reads anything at all: lost.  As it only goes forward, it  *)
(* meets each header once.                                                 *)
Lost == [path |-> <<>>, data |-> 0, size |-> 0]

FileAt(i, garbage, even) ==
  LET namesize == ReadHeader(FieldOf(Archive[i].namesize), garbage)
      name == PaddedName(IF even THEN namesize + (namesize % 2) ELSE namesize)
  IN [path |-> Archive[i].path,
      data |-> Offset[i] + HeaderSize + name,
      size |-> Padded(ReadHeader(FieldOf(Archive[i].size), garbage))]

WalkOn(walk, garbage, even) ==
  LET here == {i \in DOMAIN Archive : Offset[i] = walk.header}
      f == IF here = {} THEN Lost ELSE FileAt(CHOOSE i \in here : TRUE, garbage, even)
  IN IF walk.ended \/ walk.header = Offset[Trailer] THEN [walk EXCEPT !.ended = TRUE]
     ELSE [files |-> Append(walk.files, f), header |-> f.data + f.size, ended |-> here = {}]

Walk(garbage, even) ==
  LET walked[n \in 0..Trailer] ==
        IF n = 0 THEN [files |-> <<>>, header |-> 0, ended |-> FALSE]
        ELSE WalkOn(walked[n - 1], garbage, even)
  IN walked[Trailer].files

(* What cpio_ls prints, and what cpio_parse puts into its list.            *)
CpioLs(garbage) == [i \in DOMAIN Walk(garbage, FALSE) |-> Walk(garbage, FALSE)[i].path]

CpioParse(garbage) == Walk(garbage, FALSE)

(* The file that cpio_cat prints: the first one of that path with data.    *)
CpioCat(path, garbage) ==
  LET files == Walk(garbage, TRUE)
      i == SelectInSeq(files, LAMBDA f : f.path = path /\ f.size # 0)
  IN IF i = 0 THEN Lost ELSE files[i]

(* What load_program copies to USER_PROGRAM_SPACE.                         *)
LoadProgram(path, garbage) ==
  LET file == CpioCat(path, garbage)
  IN IF file.size > MaxProgramSize THEN Lost ELSE file

=============================================================================
