------------------------------- MODULE Samples -------------------------------
(***************************************************************************)
(* odbc-conformance/src/datatype_samples.h: the table of samples, one column *)
(* each.  Of a sample it matters as which C type it is read, how many bytes  *)
(* its native form and how many characters its text has, and its flags.      *)
(***************************************************************************)
EXTENDS Naturals

Sample(type, native, text) ==
    [type |-> type, native |-> native, text |-> text,
     scaled |-> FALSE, generated |-> FALSE, large |-> FALSE]

Fixed(native, text) == Sample("fixed", native, text)
Numeric(text) == [Fixed(19, text) EXCEPT !.scaled = TRUE]
Narrow(text) == Sample("char", text, text)
Wide(text) == Sample("wchar", 2 * text, text)
Hex(text) == Sample("binary", text \div 2, text)
Large(sample) == [sample EXCEPT !.large = TRUE]

\* all()
AllSamples ==
    {Fixed(8, 20), Fixed(1, 1), Fixed(1, 3), Fixed(2, 6), Fixed(4, 11),     \* bigint to int
     Numeric(39), Numeric(16), Numeric(11), Numeric(9),             \* decimal to smallmoney
     Fixed(8, 4), Fixed(4, 4),                                      \* float, real
     Fixed(6, 10), Fixed(16, 23), Fixed(16, 27), Fixed(16, 19),     \* date to smalldatetime
     Sample("binary", 12, 16), Sample("binary", 20, 34),            \* time, datetimeoffset
     Narrow(8), Narrow(13), Large(Narrow(9000)),                    \* char, varchar, text
     Wide(8), Wide(14), Large(Wide(5000)),                          \* nchar, nvarchar, ntext
     Hex(10), Hex(8), Large(Hex(18000)),                            \* binary, varbinary, image
     Fixed(16, 36), Fixed(4, 2), Wide(28),              \* uniqueidentifier, sql_variant, xml
     Hex(2), Hex(44), Wide(9),                          \* hierarchyid, geometry, sysname
     Narrow(11), Sample("char", 0, 7),     \* json, vector (as the sample spells it)
     [Sample("binary", 0, 0) EXCEPT !.generated = TRUE]}            \* rowversion
=============================================================================
