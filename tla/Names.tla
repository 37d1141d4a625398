------------------------------- MODULE Names -------------------------------
(***************************************************************************)
(* Package internal/list: which names of domains and clients are accepted, *)
(* and how a list file is read.                                            *)
(*                                                                         *)
(* A text is a sequence of symbols.  "/", "#" and " " stand for what the   *)
(* regular expression rejects, " " for all kinds of white space; "*" and   *)
(* "." are themselves; any other symbol is a run of letters, digits,       *)
(* hyphens and underscores.                                                *)
(***************************************************************************)
EXTENDS SequencesExt

Space == " "
Foreign == {"/", "#", Space}

\* The device names of Windows; "nul" stands for one of them in lower case.
windowsReserved == {"NUL"}
ToUpper(c) == IF c = "nul" THEN "NUL" ELSE c

\* What is left of the first sep.
Before(s, sep) ==
    LET IsSep(c) == c = sep
        k == SelectInSeq(s, IsSep)
    IN  IF k = 0 THEN s ELSE SubSeq(s, 1, k - 1)

\* strings.Split(s, sep); parts[k] are the parts of the first k symbols.
SplitAt(s, sep) ==
    LET parts[k \in 0..Len(s)] ==
          IF k = 0 THEN << <<>> >>
          ELSE IF s[k] = sep THEN Append(parts[k - 1], <<>>)
          ELSE Append(Front(parts[k - 1]), Append(Last(parts[k - 1]), s[k]))
    IN  parts[Len(s)]

\* Mutant of ValidateDomain: empty labels are let through.
ValidateCharsOnly(domain) ==
    domain # <<>> /\ ToSet(domain) \cap Foreign = {}

ValidateDomain(domain) ==
    /\ domain # <<>>
    /\ ToSet(domain) \cap Foreign = {}
    /\ ~Contains(SplitAt(domain, "."), <<>>)

ValidateClientName(name) ==
    /\ ValidateDomain(name)
    /\ ~Contains(name, "*")
    /\ LET base == Before(name, ".")
       IN  ~(Len(base) = 1 /\ ToUpper(base[1]) \in windowsReserved)

\* strings.Trim: what is between the first and the last symbol that stays.
Trim(s) ==
    LET Stays(c) == c # Space
    IN  IF SelectInSeq(s, Stays) = 0 THEN <<>>
        ELSE SubSeq(s, SelectInSeq(s, Stays), SelectLastInSeq(s, Stays))

\* AddItemsFromReader: the items of the lines of a file.
Items(lines) ==
    {Trim(Before(l, "#")) : l \in ToSet(lines)} \ {<<>>}

\* filepath.Join(base, name), as the directories from the root down.
Join(base, name) ==
    LET parts == SplitAt(name, "/")
        dir[k \in 0..Len(parts)] ==
          IF k = 0 THEN base
          ELSE IF parts[k] \in {<<>>, <<".">>} THEN dir[k - 1]
          ELSE IF parts[k] = <<".", ".">>
                 THEN IF dir[k - 1] = <<>> THEN <<>> ELSE Front(dir[k - 1])
          ELSE Append(dir[k - 1], parts[k])
    IN  dir[Len(parts)]

=============================================================================
