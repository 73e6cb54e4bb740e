----------------------------- MODULE EnumTexts -----------------------------
(***************************************************************************)
(* The enumerations of rmh_type.h and the functions of                     *)
(* librmh_api_no_wrap.c that turn their values into text.  The names of an *)
(* enumeration are put into an array in the order of the definition (macro *)
(* AS), so the text of a value is found by its place; a name is told by    *)
(* the value it was defined with.                                          *)
(***************************************************************************)
EXTENDS Naturals, FiniteSets, Sequences

\* The values of an enumeration, in the order of its definition.
From0(n) == [i \in 1 .. n |-> i - 1]

ENUM_RMH_Result           == From0(11)
ENUM_RMH_PERMode          == From0(3)
ENUM_RMH_LinkStatus       == From0(4)
ENUM_RMH_AdmissionStatus  == From0(6)
ENUM_RMH_MoCAResetReason  == From0(3)
ENUM_RMH_SubcarrierProfile == From0(11)
ENUM_RMH_MoCAVersion      == <<0, 16, 17, 32>>
ENUM_RMH_Band             == <<0, 1, 2, 3, 4, 5, 6, 8>>
ENUM_RMH_ACAType          == From0(2)
ENUM_RMH_ACAStatus        == From0(6)

\* The bits of a bit mask, in the order of its definition, with the number
\* of characters of their names.
Bits(bits, lengths) == [i \in DOMAIN bits |-> [bit |-> bits[i], length |-> lengths[i]]]

ENUM_RMH_PowerMode == Bits(<<0, 1, 2, 3>>, <<24, 22, 25, 23>>)
ENUM_RMH_LogLevel  == Bits(<<0, 1, 2, 3, 4>>, <<13, 15, 15, 13, 13>>)
ENUM_RMH_Event     == Bits(<<0, 1, 2, 4, 5, 6, 7, 8, 9, 10>>,
                           <<29, 30, 23, 21, 22, 34, 23, 19, 22, 20>>)

\* RMH_xxxToString of all enumerations but the version: an access to the
\* array with no test of the index.  Outside stands for what lies past its end
\* and is the value of no name.
Outside == 99
NameOf(enum, value) == IF value + 1 \in DOMAIN enum THEN enum[value + 1] ELSE Outside

\* The versions have texts of their own; the array is only the default.
RMH_MoCAVersionToString(value) ==
    IF value \in {0, 16, 17, 32} THEN value ELSE NameOf(ENUM_RMH_MoCAVersion, value)

\* RMH_BitMAskToString: a loop over the places of the array that takes place
\* i for bit i.  It stops when what is written, the next name, a separator and
\* the end do not fit, and says so (TooSmall).  A text is told by the bits it
\* names; TextAfter is what is written after each place.
TooSmall == {Outside}
TextAfter(value, size, enum) ==
    LET after[i \in 0 .. Len(enum)] ==
          IF i = 0 THEN [names |-> {}, length |-> 0, small |-> FALSE]
          ELSE LET done == after[i - 1]
                   separator == IF done.length = 0 THEN 0 ELSE 3
               IN IF done.small \/ i - 1 \notin value THEN done
                  ELSE IF size <= done.length + enum[i].length + 3
                    THEN [done EXCEPT !.small = TRUE]
                    ELSE [names |-> done.names \cup {enum[i].bit},
                          length |-> done.length + separator + enum[i].length,
                          small |-> FALSE]
    IN after

RMH_BitMAskToString(value, size, enum) ==
    LET text == TextAfter(value, size, enum)[Len(enum)]
    IN IF text.small THEN TooSmall ELSE text.names

-----------------------------------------------------------------------------
Values(enum) == {enum[i] : i \in DOMAIN enum}
BitsOf(enum) == {enum[i].bit : i \in DOMAIN enum}

\* Every value of every enumeration is printed with its own name, except the
\* band H, whose value skips a place and is read past the end of the array.
NamesTrue ==
    /\ \A enum \in {ENUM_RMH_Result, ENUM_RMH_PERMode, ENUM_RMH_LinkStatus,
                    ENUM_RMH_AdmissionStatus, ENUM_RMH_MoCAResetReason,
                    ENUM_RMH_SubcarrierProfile, ENUM_RMH_ACAType, ENUM_RMH_ACAStatus} :
         \A v \in Values(enum) : NameOf(enum, v) = v
    /\ \A v \in Values(ENUM_RMH_MoCAVersion) : RMH_MoCAVersionToString(v) = v
    /\ {v \in Values(ENUM_RMH_Band) : NameOf(ENUM_RMH_Band, v) # v} = {8}

\* Every log level and every set of power modes is printed in full in the
\* 128 bytes the application gives; a set of events only when it stays below
\* the bit that no event has, and any other event is printed as the one
\* defined after it, or not at all.
MasksTrue ==
    /\ \A enum \in {ENUM_RMH_PowerMode, ENUM_RMH_LogLevel} :
         \A value \in SUBSET BitsOf(enum) : RMH_BitMAskToString(value, 128, enum) = value
    /\ \A value \in SUBSET BitsOf(ENUM_RMH_Event) :
         RMH_BitMAskToString(value, 512, ENUM_RMH_Event) = value <=> value \subseteq 0 .. 2
=============================================================================
