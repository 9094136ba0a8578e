------------------------------ MODULE MCCsvImport ------------------------------
(* CsvImport for TLC: every short text over the characters the parser      *)
(* distinguishes, and files of up to three lines with what spreadsheets    *)
(* and people write into them.                                             *)
EXTENDS CsvImport, TLC
CONSTANTS ann, e1, e2, upper
Lowercase(ch) == IF ch = upper THEN e1 ELSE ch
Registered == {<<e2>>}
Alphabet == {Quote, Comma, LF, CR, ann}
Short == {s \in UNION {[1..n -> Alphabet] : n \in 1..6} :
            \E k \in DOMAIN s : s[k] \notin {LF, CR}}
Headers == {<<>>, <<BOM, NameWord, Comma, EmailWord, CR, LF>>,
            <<EmailWord, Comma, Space, NameWord, LF>>}
Lists == {<<ann, Comma, e1, LF>>, <<ann, Comma, upper, CR, LF>>,
          <<Quote, ann, LF, Quote, Comma, Space, e2, LF>>, <<e1, Comma, ann>>,
          <<Space, Comma, LF>>, <<ann, Comma, Quote, Quote, Quote, e2, Quote, LF>>}
Files == {h \o a \o b : h \in Headers, a \in Lists, b \in Lists}
           \cup {h \o a : h \in Headers, a \in Lists}
Uploads == Short \cup {f \in Files : \E k \in DOMAIN f : f[k] \notin {Space, LF, CR, BOM}}
===============================================================================
