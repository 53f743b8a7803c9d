---- MODULE MCHttpClient ----
(* Instances of HttpClient for TLC: answers with and without headers and a body, *)
(* with a blank line in the body, and answers that do not parse.                 *)
EXTENDS HttpClient

MCAnswers ==
    { <<"status", "header", "length", "blank", "text", "blank", "text">>,
      <<"status", "length", "blank">>,
      <<"status", "blank", "text", "blank", "text">>,
      <<"status", "blank", "text">>,
      <<"status", "header", "noLength", "blank", "text">>,
      <<"refused", "header", "blank">> }
====
