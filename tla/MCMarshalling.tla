----------------------------- MODULE MCMarshalling -----------------------------
(* Values and signatures for the model checker.                            *)
EXTENDS Marshalling

\* a space that is no blank
Tab == CHOOSE c \in Spaces : c # Blank

\* strings and blobs from the empty one to the longest that size_of_length bytes can
\* tell, of strings some with a blank behind, a tab in front and tabs behind; the two
\* values of a bool; of a character a blank, a tab and a digit; of other numbers a 1 at
\* either end
MCValues(base) ==
    CASE base = "string" -> {<< >>, <<One, Blank>>, <<Tab, One>>,
                          [k \in 1..(Base^2 - 1) |-> IF k = 1 THEN Zero ELSE Tab]}
      [] base = "blob" -> {<< >>, [k \in 1..(Base^2 - 1) |-> k % 2]}
      [] base = "bool" -> {<<0>>, <<1>>}
      [] base \in {"char", "uchar"} -> {<<Blank>>, <<Tab>>, <<One>>}
      [] OTHER -> {[k \in 1..sizeof[base] |-> IF k = 1 THEN 1 ELSE 0],
                   [k \in 1..sizeof[base] |-> IF k = sizeof[base] THEN 1 ELSE 0]}

param(base, by) == [base |-> base, by |-> by]

\* the build of the repository, the one for two machines, and the text protocol
MCBuilds ==
    [binary : {TRUE}, srv : {"big"}, cln : {"little"}, loop_back : BOOLEAN]
    \cup [binary : {FALSE}, srv : {"big"}, cln : {"little"}, loop_back : {TRUE}]

AllParams == [base : DOMAIN sizeof \cup blobs, by : {"value", "&", "const &", "*"}]

\* parameters that pass through different branches
SomeParams ==
    {param("ushort", "value"), param("int", "&"), param("string", "const &"), param("blob", "*")}

\* every parameter alone, every return type, pairs of different parameters, and a
\* reply whose first value is a string
MCSignatures ==
    [params : {<<p>> : p \in AllParams}, ret : {"void"}]
    \cup [params : {<<param("int", "&")>>}, ret : return_types]
    \cup [params : {<<param("string", "*"), param("int", "&")>>}, ret : {"void"}]
    \cup [params : {ps \in SomeParams \X SomeParams : ps[1] # ps[2]}, ret : {"float"}]

\* a pointer to what is const, and a reference
ConstPointerSignatures ==
    [params : {param("string", "const *"), param("blob", "const *")} \X {param("int", "&")},
     ret : {"void"}]

===============================================================================
