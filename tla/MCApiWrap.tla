------------------------------ MODULE MCApiWrap ------------------------------
(***************************************************************************)
(* ApiWrap on a small instance: two masks, and a SoC library that          *)
(* implements every API, no API, or every API but one.                     *)
(***************************************************************************)
EXTENDS ApiWrap

CONSTANTS off, on

MCValue == {off, on}

SocAPI == {api \in API : SocEnabled(api)}
MCSupport == {SocAPI, {}} \cup {SocAPI \ {api} : api \in SocAPI}
=============================================================================
