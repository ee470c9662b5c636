---------------------------- MODULE MCTemplates ----------------------------
\* Four HTML files, the last behind one that cannot be constructed, and two
\* requests that may want the same one; the schema of one file is nested.
EXTENDS Templates, TLC
CONSTANTS r1, r2, welcome, invoice, plain, broken, late, report, otp, call

TwoRequests == {r1, r2}
Directories ==
    [html |-> <<welcome, invoice, plain, broken, late>>, pdf |-> <<report>>,
     sms |-> <<otp>>, phone |-> <<call>>]
SoundFiles == {welcome, invoice, plain, late, report, otp, call}
WithSchema == {welcome, invoice}
NestedSchema == {invoice}
=============================================================================
