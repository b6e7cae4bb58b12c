----------------------------- MODULE EmailCalls -----------------------------
(* What the handlers of EmailHandlers call of their own files: the         *)
(* clients, readers and logins of mail servers, as steps on the sockets.   *)
EXTENDS SharedCalls

-----------------------------------------------------------------------------
\* src/src/worker/imap.ts

readIMAPResponse_imap(socket) ==
  Call(<< Task("readPromise",
               << Forever(<< Read(socket), When(GotEnd, << Break >>), MayThrow, MayBreak >>) >>),
          Race(Join("readPromise"), "throw") >>)

sendIMAPCommand_imap(socket) ==
  Call(<< Write(socket), readIMAPResponse_imap(socket) >>)

-----------------------------------------------------------------------------
\* src/src/worker/imaps.ts

readIMAPResponse_imaps(socket) ==
  Call(<< Task("readPromise",
               << Forever(<< Read(socket), When(GotEnd, << Break >>), MayThrow, MayBreak >>) >>),
          Race(Join("readPromise"), "throw") >>)

sendIMAPCommand_imaps(socket) ==
  Call(<< Write(socket), readIMAPResponse_imaps(socket) >>)

-----------------------------------------------------------------------------
\* src/src/worker/lmtp.ts

readLMTPResponse(socket) ==
  Call(<< Task("readPromise", << Forever(<< Read(socket), When(GotEnd, << Break >>), MayBreak >>) >>),
          Race(Join("readPromise"), "throw") >>)

sendLMTPCommand(socket) ==
  Call(<< Write(socket), readLMTPResponse(socket) >>)

readLMTPMultiResponse(socket) ==
  Call(<< Task("readPromise", << Loop(<< Read(socket), When(GotEnd, << Break >>) >>) >>),
          Race(Join("readPromise"), "throw") >>)

-----------------------------------------------------------------------------
\* src/src/worker/managesieve.ts

readFromSocket_managesieve(socket) ==
  Call(<< Race(Read(socket), "throw"), When(GotNothing, << Return >>),
          Quietly(<< Forever(<< Race(Read(socket), "throw"), When(GotNothing, << Break >>), MayThrow >>) >>) >>)

connectAndAuth(socket) ==
  Call(<< Connect(socket), Race(Opened(socket), "throw"), GetWriter(socket), GetReader(socket),
          readFromSocket_managesieve(socket),
          Maybe(<< FreeWriter(socket), FreeReader(socket), CloseQuietly(socket), Throw >>), Write(socket),
          readFromSocket_managesieve(socket),
          Maybe(<< FreeWriter(socket), FreeReader(socket), CloseQuietly(socket), Throw >>) >>)

-----------------------------------------------------------------------------
\* src/src/worker/pop3.ts

readPOP3Response_pop3(socket) ==
  Call(<< Task("readPromise", << Forever(<< Read(socket), When(GotEnd, << Break >>), MayBreak >>) >>),
          Race(Join("readPromise"), "throw") >>)

sendPOP3Command_pop3(socket) ==
  Call(<< Write(socket), readPOP3Response_pop3(socket) >>)

readPOP3MultiLine_pop3(socket) ==
  Call(<< Task("readPromise",
               << Forever(<< Read(socket), When(GotEnd, << Break >>), MayThrow, MayBreak >>) >>),
          Race(Join("readPromise"), "throw") >>)

-----------------------------------------------------------------------------
\* src/src/worker/pop3s.ts

readPOP3Response_pop3s(socket) ==
  Call(<< Task("readPromise", << Forever(<< Read(socket), When(GotEnd, << Break >>), MayBreak >>) >>),
          Race(Join("readPromise"), "throw") >>)

sendPOP3Command_pop3s(socket) ==
  Call(<< Write(socket), readPOP3Response_pop3s(socket) >>)

readPOP3MultiLine_pop3s(socket) ==
  Call(<< Task("readPromise", << Forever(<< Read(socket), When(GotEnd, << Break >>), MayBreak >>) >>),
          Race(Join("readPromise"), "throw") >>)

-----------------------------------------------------------------------------
\* src/src/worker/smtp.ts

readSMTPResponse_smtp(socket) ==
  Call(<< Task("readPromise",
               << Forever(<< Read(socket), When(GotEnd, << Break >>), MayThrow, MayBreak >>) >>),
          Race(Join("readPromise"), "throw") >>)

sendSMTPCommand_smtp(socket) ==
  Call(<< Write(socket), readSMTPResponse_smtp(socket) >>)

-----------------------------------------------------------------------------
\* src/src/worker/smtps.ts

readSMTPResponse_smtps(socket) ==
  Call(<< Task("readPromise", << Forever(<< Read(socket), When(GotEnd, << Break >>), MayBreak >>) >>),
          Race(Join("readPromise"), "throw") >>)

sendSMTPCommand_smtps(socket) ==
  Call(<< Write(socket), readSMTPResponse_smtps(socket) >>)

-----------------------------------------------------------------------------
\* src/src/worker/spamd.ts

readSpamdResponse(socket) ==
  Call(<< Try(
              << Loop(<< Race(Read(socket), "throw"), When(GotNothing, << Break >>), MayBreak >>) >>,
              << MayThrow >>) >>)

-----------------------------------------------------------------------------
\* src/src/worker/submission.ts

readSMTPResponse_submission(socket) ==
  Call(<< Task("readPromise",
               << Forever(<< Read(socket), When(GotEnd, << Break >>), MayThrow, MayBreak >>) >>),
          Race(Join("readPromise"), "throw") >>)

sendSMTPCommand_submission(socket) ==
  Call(<< Write(socket), readSMTPResponse_submission(socket) >>)

doAuth_submission(socket) ==
  Call(<< Either(<< sendSMTPCommand_submission(socket), MayThrow >>,
                 << Either(<< sendSMTPCommand_submission(socket), MayThrow,
                              sendSMTPCommand_submission(socket), MayThrow,
                              sendSMTPCommand_submission(socket), MayThrow >>,
                           << Throw >>) >>) >>)

=============================================================================
