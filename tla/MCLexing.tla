------------------------------ MODULE MCLexing ------------------------------
EXTENDS LexingProps, TLC

MCByteOf ==
  "a" :> 97 @@ "b" :> 98 @@ "i" :> 105 @@ "n" :> 110 @@ "s" :> 115 @@ "x" :> 120 @@ "0" :> 48
  @@ "7" :> 55 @@ "8" :> 56 @@ "9" :> 57 @@ "." :> 46 @@ "'" :> 39 @@ "\"" :> 34 @@ "\\" :> 92
  @@ "\n" :> 10 @@ " " :> 32 @@ "#" :> 35 @@ "<" :> 60 @@ "=" :> 61 @@ ">" :> 62 @@ "-" :> 45
  @@ "&" :> 38 @@ "@" :> 64

\* All the strings of n characters.
RECURSIVE Words(_, _)
Words(alphabet, n) ==
  IF n = 0 THEN {""}
  ELSE {w \o c : w \in Words(alphabet, n - 1), c \in Chars(alphabet)}

MCTexts ==
  Words("09xa.", 5)                                   \* numbers
  \cup Words("\"'\\nx7\n#", 4)                        \* literals
  \cup {q \o w : q \in {"\"", "'"}, w \in Words("\"'\\x7", 5)}
  \cup Words("<=>-.& ", 4)                            \* punctuation
  \cup Words("asi8 \n#@", 4)                          \* words and trivia
=============================================================================
