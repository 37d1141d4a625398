------------------------------- MODULE Manual -------------------------------
(***************************************************************************)
(* Package man: the manual pages built into the programs and the table     *)
(* that finds one from the arguments of "man [<section>] [<page>]".        *)
(* Arguments are texts of module Names.                                    *)
(***************************************************************************)
EXTENDS SequencesExt

Page(name, section) == [Name |-> <<name>>, Section |-> <<section>>]

clientPage == Page("cert-proxy-client", "8")
serverPage == Page("cert-proxy-server", "8")
clientsPage == Page("cert-proxy-clients", "5")
protocolPage == Page("cert-proxy", "7")

NoPage == Page("", "")

\* The section digits in ascending order.
Digits == [d \in 1..9 |-> << <<"1", "2", "3", "4", "5", "6", "7", "8", "9">>[d] >>]

isSection(s) == Contains(Digits, s)

\* A registry: the pages in the order they were registered.  The code keeps a list
\* for each section, in that order.
ClientRegistry == <<clientPage, serverPage, clientsPage, protocolPage>>
ServerRegistry == <<serverPage, clientPage, clientsPage, protocolPage>>
defaultSection == <<"8">>

\* The page of a section; an empty name is its first page.
page(r, section, name) ==
    LET Fits(p) == p.Section = section /\ (name = <<>> \/ p.Name = name)
        k == SelectInSeq(r, Fits)
    IN  IF k = 0 THEN NoPage ELSE r[k]

\* The page of that name in the lowest section that has one.
byName(r, name) ==
    LET Has(d) == \E k \in DOMAIN r : r[k].Section = d /\ r[k].Name = name
        lowest == SelectInSeq(Digits, Has)
    IN  IF lowest = 0 THEN NoPage ELSE page(r, Digits[lowest], name)

\* Mutant of Resolve: a single argument is always a name.
ResolveNames(r, args) ==
    IF args = <<>> THEN page(r, defaultSection, <<>>)
    ELSE IF Len(args) = 1 THEN byName(r, args[1])
    ELSE IF Len(args) = 2 THEN page(r, args[1], args[2])
    ELSE NoPage

Resolve(r, args) ==
    IF args = <<>> THEN page(r, defaultSection, <<>>)
    ELSE IF Len(args) = 1
      THEN IF isSection(args[1]) THEN page(r, args[1], <<>>) ELSE byName(r, args[1])
    ELSE IF Len(args) = 2 THEN page(r, args[1], args[2])
    ELSE NoPage

\* Run and Display: a page that is found is decompressed and written, or shown by
\* man(1); each of that may fail.
Display(found) == IF found = NoPage THEN {"exit1"} ELSE {"exit0", "exit1"}

=============================================================================
