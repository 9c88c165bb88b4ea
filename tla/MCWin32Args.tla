----------------------------- MODULE MCWin32Args -----------------------------
(***************************************************************************)
(* Argument values for Win32Args: every memcache form the code branches    *)
(* on (default, none, bare page/vat, full page&vat in both orders, upper-  *)
(* case and repeated units, a '+' sign, missing time, bad digits, an extra *)
(* ':' part, unknown text) and valid and invalid values of the other keys. *)
(***************************************************************************)
EXTENDS Win32Args

MCMemcacheValues == {
    <<"default">>, <<"none">>, <<"junk">>, <<"page">>, <<"vat">>,
    <<"page", ":", "1", "k", ";", "1", "0">>,
    <<"page", ":", "1", "K", ";", "1">>,
    <<"page", ":", "1", "k", "k", ";", "1">>,
    <<"page", ":", "b", "m", "b", ";", "1">>,
    <<"page", ":", "1", "g", ";", "x">>,
    <<"page", ":", "1", ";", "1">>,
    <<"page", ":", "1", "k">>,
    <<"page", ":", "1", "k", ";", "1", ":", "1">>,
    <<"vat", ":", "f", ";", "1", "0">>,
    <<"vat", ":", "+", "f", ";", "1">>,
    <<"vat", ":", "k", ";", "1">>,
    <<"page", ":", "1", "k", ";", "1", "0", "&", "vat", ":", "f", ";", "1">>,
    <<"page", ":", "f", "b", "g", ";", "1", "&", "vat", ":", "1", "b", ";", "0">>,
    <<"vat", ":", "f", ";", "1", "&", "page", ":", "1", "m", ";", "1", "0">>,
    <<"page", ":", "1", "k", ";", "1", "&", "vat", ":", "f", ";", "x">> }

\* Misspelt or unknown cache modes, beside one well-formed value.
MCMistypedMemcacheValues == {
    <<"junk">>,
    <<"pgae", ":", "1", "k", ";", "1", "&", "vta", ":", "f", ";", "1">>,
    <<"page", ":", "1", "k", ";", "1", "0", "&", "vat", ":", "f", ";", "1">> }

MCDtbValues == { <<"1", "f">>, <<"k">> }

MCArchValues == { "x64", "X64", "x32_pae", "aarch64", "arm" }

\* Architectures for the bad-DSL run: a well-formed one and an unknown one.
MCBadArchValues == { "x64", "arm" }

MCSymstoreValues == { "uncached", "none", "junk" }
=============================================================================
