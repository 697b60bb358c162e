-------------------------------- MODULE Wire --------------------------------
(***************************************************************************)
(* A fact file on its way through a disk: `read` writes it and `emit`      *)
(* reads it back, a column at a time, perhaps after the disk lost the end  *)
(* of it (encode and decode of crates/zag-facts/src/wire.rs).              *)
(***************************************************************************)
EXTENDS FactFile

VARIABLES
  written,      \* the tables in the file, or as they were
  file,
  decoding,     \* "write", "disk", "magic", "version", "target", "columns",
                \* "accepted" or "refused"
  cursor,       \* how many bytes have been read
  column,       \* how many columns have been
  read,         \* the tables so far
  error         \* why the file was refused, and where

wire_vars == <<written, file, decoding, cursor, column, read, error>>

-----------------------------------------------------------------------------
NoTables == [target |-> 0, columns |-> [name \in Column |-> << >>]]
NoError == [kind |-> "None", at |-> 0]

WireInit ==
  /\ written \in FactFiles
  /\ file = << >>
  /\ decoding = "write"
  /\ cursor = 0 /\ column = 0
  /\ read = NoTables
  /\ error = NoError

Write ==
  /\ decoding = "write"
  /\ file' = Encode(written)
  /\ decoding' = "disk"
  /\ UNCHANGED <<written, cursor, column, read, error>>

After(bytes, damage) ==
  CASE damage.kind = "Cut"     -> SubSeq(bytes, 1, IF damage.at < Len(bytes) THEN damage.at
                                                  ELSE Len(bytes))
    [] damage.kind = "Changed" -> [bytes EXCEPT ![damage.at] = (@ + damage.by) % Base]
    [] damage.kind = "Longer"  -> Append(bytes, damage.by)

\* The file is read, and may not be what was written any more.
Open ==
  /\ decoding = "disk"
  /\ file' \in {file} \cup { After(file, damage) : damage \in Damages[written] }
  /\ decoding' = "magic"
  /\ UNCHANGED <<written, cursor, column, read, error>>

-----------------------------------------------------------------------------
(* Reading.                                                                *)

Refuse(kind, at) ==
  /\ decoding' = "refused"
  /\ error' = [kind |-> kind, at |-> at]
  /\ UNCHANGED <<written, file, cursor, column, read>>

\* There are so many bytes from a place on.
Holds(at, bytes) == at + bytes <= Len(file)

WordAt(at) ==
  file[at + 1] + Base * (file[at + 2] + Base * (file[at + 3] + Base * file[at + 4]))

ReadMagic ==
  /\ decoding = "magic"
  /\ IF Holds(0, Len(Magic)) /\ SubSeq(file, 1, Len(Magic)) = Magic
     THEN /\ cursor' = Len(Magic)
          /\ decoding' = "version"
          /\ UNCHANGED <<written, file, column, read, error>>
     ELSE Refuse("BadMagic", 0)

ReadVersion ==
  /\ decoding = "version"
  /\ IF ~ Holds(cursor, WordBytes) THEN Refuse("Truncated", cursor)
     ELSE IF WordAt(cursor) # Version THEN Refuse("UnsupportedVersion", WordAt(cursor))
     ELSE /\ cursor' = cursor + WordBytes
          /\ decoding' = "target"
          /\ UNCHANGED <<written, file, column, read, error>>

ReadTarget ==
  /\ decoding = "target"
  /\ IF ~ Holds(cursor, WordBytes) THEN Refuse("Truncated", cursor)
     ELSE /\ read' = [read EXCEPT !.target = WordAt(cursor)]
          /\ cursor' = cursor + WordBytes
          /\ decoding' = "columns"
          /\ UNCHANGED <<written, file, column, error>>

RowBytes(name) == IF name = TextBytes THEN 1 ELSE WordBytes

\* The next column: its length, its rows, and for one of kinds that each is known.
ReadColumn ==
  /\ decoding = "columns"
  /\ column < Len(ReadOrder)
  /\ LET name    == ReadOrder[column + 1]
         start   == cursor + WordBytes
         length  == WordAt(cursor)
         values  == [i \in 1 .. length |->
                       IF name = TextBytes THEN file[start + i]
                       ELSE WordAt(start + (i - 1) * WordBytes)]
         unknown == { values[i] : i \in { i \in DOMAIN values : Unknown(name, values[i]) /\
                                     \A j \in 1 .. i - 1 : ~ Unknown(name, values[j]) } }
     IN  IF ~ Holds(cursor, WordBytes) THEN Refuse("Truncated", cursor)
         ELSE IF ~ Holds(start, length * RowBytes(name)) THEN Refuse("Truncated", start)
         ELSE IF unknown # {}
         THEN Refuse("UnknownEnumValue", CHOOSE value \in unknown : TRUE)
         ELSE /\ read' = [read EXCEPT !.columns[name] = values]
              /\ cursor' = start + length * RowBytes(name)
              /\ column' = column + 1
              /\ UNCHANGED <<written, file, decoding, error>>

\* Mutant of Finish: what comes after the last column is left alone.
FinishAnywhere ==
  /\ decoding = "columns"
  /\ column = Len(ReadOrder)
  /\ decoding' = "accepted"
  /\ UNCHANGED <<written, file, cursor, column, read, error>>

\* The last column has to end where the file does.
Finish ==
  /\ decoding = "columns"
  /\ column = Len(ReadOrder)
  /\ IF cursor # Len(file) THEN Refuse("TrailingBytes", cursor)
     ELSE decoding' = "accepted" /\ UNCHANGED <<written, file, cursor, column, read, error>>

Closed == decoding \in {"accepted", "refused"} /\ UNCHANGED wire_vars

WireNext ==
  \/ Write \/ Open \/ ReadMagic \/ ReadVersion \/ ReadTarget \/ ReadColumn
  \/ Finish \/ Closed

WireSpec == WireInit /\ [][WireNext]_wire_vars

-----------------------------------------------------------------------------
(* Properties.                                                             *)

\* What was written is read, column by column, where nothing became of the file
\* (wire.rs encode and decode each list the columns themselves).
WrittenIsRead ==
  /\ decoding = "accepted" /\ file = Encode(written) => read = written
  /\ decoding = "refused" => file # Encode(written)

\* A file that is accepted, however it was damaged, says what was read from it and
\* nothing else: every byte of it is part of a row, none is read twice, and the
\* first row that no kind is known for, or the end of the file, refuses it.
AcceptedSaysWhatIsRead == decoding = "accepted" => file = Encode(read)

\* Nothing past the end of the file is read, whatever lengths it says.
CursorIsInside == cursor \in 0 .. Len(file)

=============================================================================
