----------------------------- MODULE FileNames -----------------------------
(* sanitize_file_name: a name from the page reduced to one path component.   *)
(* A name is a sequence of character classes: "x" an ordinary character,     *)
(* "C" the one whose name is a reserved device, "." and " ", "/" either      *)
(* separator, "?" one that is stripped (control, forbidden or deceptive).    *)
EXTENDS Naturals, Sequences, SequencesExt, FiniteSetsExt

CONSTANTS MaxName, MaxRaw    \* MAX_FILE_NAME_BYTES; longest name tried

CharClasses == {"x", "C", ".", " ", "/", "?"}

trim_end(s, chars) == SubSeq(s, 1, Max({0} \cup {i \in DOMAIN s : s[i] \notin chars}))
trim_start(s, chars) ==
    SubSeq(s, Min({Len(s) + 1} \cup {i \in DOMAIN s : s[i] \notin chars}), Len(s))

\* rsplit on either separator
last_component(s) == SubSeq(s, Max({0} \cup {i \in DOMAIN s : s[i] = "/"}) + 1, Len(s))

is_deceptive_format_char(c) == c = "?"

truncate_on_char_boundary(s, max) == IF Len(s) <= max THEN s ELSE SubSeq(s, 1, max)

\* split('.'), first part
stem(s) == SubSeq(s, 1, Min({Len(s) + 1} \cup {i \in DOMAIN s : s[i] = "."}) - 1)

WINDOWS_RESERVED_NAMES == {<<"C">>}

sanitize_file_name(raw) ==
    LET base == last_component(trim_end(raw, {"/"}))
        cleaned == SelectSeq(base, LAMBDA c : ~is_deceptive_format_char(c) /\ c # "/")
        trimmed == trim_end(trim_end(trim_start(trim_end(cleaned, {" "}), {" "}), {"."}), {" "})
        bounded == truncate_on_char_boundary(trimmed, MaxName)
    IN IF trimmed = <<>> THEN <<"x">>
       ELSE IF stem(bounded) \in WINDOWS_RESERVED_NAMES THEN <<"x">> \o bounded
       ELSE bounded

Raw == UNION {[1 .. n -> CharClasses] : n \in 0 .. MaxRaw}

\* A name of any shape becomes a component that can be created: not empty, no
\* separator or stripped character, no reserved device, within the limit -- a
\* reserved name cut at the limit is one over it, for its prefix.
ASSUME NamesCanBeCreated ==
    \A raw \in Raw :
        LET name == sanitize_file_name(raw)
        IN /\ name # <<>>
           /\ Range(name) \cap {"/", "?"} = {}
           /\ stem(name) \notin WINDOWS_RESERVED_NAMES
           /\ Len(name) <= MaxName \/ (Len(name) = MaxName + 1 /\ stem(Tail(name)) = <<"C">>)

\* A name that was not cut never ends with a space.  It may end with a dot: of
\* a name such as "a. ." the dots are trimmed once, before the last spaces.
ASSUME UncutNamesEndWell ==
    \A raw \in Raw : Len(raw) <= MaxName => Last(sanitize_file_name(raw)) # " "

NamesNeverEndWithDot == \A raw \in Raw : Last(sanitize_file_name(raw)) # "."
=============================================================================
