--------------------------- MODULE EmailHandlers ----------------------------
(* The one-shot handlers of the catalogue's "Email" protocols.             *)
EXTENDS EmailCalls

-----------------------------------------------------------------------------
\* src/src/worker/imap.ts

handleIMAPConnect ==
  << Try(
         << MayReturn, Await, MayReturn, checkIfCloudflare, MayReturn,
            Task("connectionPromise",
                 << Connect("socket"), Opened("socket"), GetReader("socket"), GetWriter("socket"),
                    Try(
                        << Task("greetingPromise",
                                << Forever(<< Read("socket"), When(GotEnd, << Break >>), MayBreak >>) >>),
                           Race(Join("greetingPromise"), "throw"), MayThrow,
                           Maybe(<< MayThrow, sendIMAPCommand_imap("socket"),
                                    Either(<< sendIMAPCommand_imap("socket") >>, << Throw >>) >>),
                           sendIMAPCommand_imap("socket"), Close("socket"), Return >>,
                        << Close("socket"), Throw >>) >>),
            Try(<< Race(Join("connectionPromise"), "throw"), Return >>, << Return >>) >>,
         << Return >>) >>

handleIMAPList ==
  << Try(
         << MayReturn, Await, MayReturn, checkIfCloudflare, MayReturn,
            Task("listPromise",
                 << Connect("socket"), Opened("socket"), GetReader("socket"), GetWriter("socket"),
                    Try(
                        << Forever(<< Read("socket"), When(GotEnd, << Break >>), MayBreak >>), MayThrow,
                           sendIMAPCommand_imap("socket"), MayThrow, sendIMAPCommand_imap("socket"),
                           sendIMAPCommand_imap("socket"), Close("socket"), Return >>,
                        << Close("socket"), Throw >>) >>),
            Try(<< Race(Join("listPromise"), "throw"), Return >>, << Return >>) >>,
         << Return >>) >>

handleIMAPSelect ==
  << Try(
         << MayReturn, Await, MayReturn, checkIfCloudflare, MayReturn,
            Task("selectPromise",
                 << Connect("socket"), Opened("socket"), GetReader("socket"), GetWriter("socket"),
                    Try(
                        << Forever(<< Read("socket"), When(GotEnd, << Break >>), MayBreak >>), MayThrow,
                           sendIMAPCommand_imap("socket"), MayThrow, sendIMAPCommand_imap("socket"), MayThrow,
                           sendIMAPCommand_imap("socket"), Close("socket"), Return >>,
                        << Close("socket"), Throw >>) >>),
            Try(<< Race(Join("selectPromise"), "throw"), Return >>, << Return >>) >>,
         << Return >>) >>

-----------------------------------------------------------------------------
\* src/src/worker/imaps.ts

handleIMAPSConnect ==
  << Try(
         << MayReturn, Await, MayReturn, checkIfCloudflare, MayReturn,
            Task("connectionPromise",
                 << Connect("socket"), Opened("socket"), GetReader("socket"), GetWriter("socket"),
                    Try(
                        << Task("greetingPromise",
                                << Forever(<< Read("socket"), When(GotEnd, << Break >>), MayThrow, MayBreak >>) >>),
                           Race(Join("greetingPromise"), "throw"), MayThrow,
                           Either(<< MayThrow, sendIMAPCommand_imaps("socket"),
                                     Either(<< sendIMAPCommand_imaps("socket") >>, << Throw >>) >>,
                                  << Maybe(<< sendIMAPCommand_imaps("socket") >>) >>),
                           sendIMAPCommand_imaps("socket"), Close("socket"), Return >>,
                        << Close("socket"), Throw >>) >>),
            Try(<< Race(Join("connectionPromise"), "throw"), Return >>, << Return >>) >>,
         << Return >>) >>

handleIMAPSList ==
  << Try(
         << MayReturn, Await, MayReturn, checkIfCloudflare, MayReturn,
            Task("listPromise",
                 << Connect("socket"), Opened("socket"), GetReader("socket"), GetWriter("socket"),
                    Try(
                        << Forever(<< Read("socket"), When(GotEnd, << Break >>), MayBreak >>), MayThrow,
                           sendIMAPCommand_imaps("socket"), MayThrow, sendIMAPCommand_imaps("socket"),
                           sendIMAPCommand_imaps("socket"), Close("socket"), Return >>,
                        << Close("socket"), Throw >>) >>),
            Try(<< Race(Join("listPromise"), "throw"), Return >>, << Return >>) >>,
         << Return >>) >>

handleIMAPSSelect ==
  << Try(
         << MayReturn, Await, MayReturn, checkIfCloudflare, MayReturn,
            Task("selectPromise",
                 << Connect("socket"), Opened("socket"), GetReader("socket"), GetWriter("socket"),
                    Try(
                        << Forever(<< Read("socket"), When(GotEnd, << Break >>), MayBreak >>), MayThrow,
                           sendIMAPCommand_imaps("socket"), MayThrow, sendIMAPCommand_imaps("socket"),
                           MayThrow, sendIMAPCommand_imaps("socket"), Close("socket"), Return >>,
                        << Close("socket"), Throw >>) >>),
            Try(<< Race(Join("selectPromise"), "throw"), Return >>, << Return >>) >>,
         << Return >>) >>

-----------------------------------------------------------------------------
\* src/src/worker/lmtp.ts

handleLMTPConnect ==
  << Try(
         << Either(<< Await >>, << MayThrow >>), MayReturn, checkIfCloudflare, MayReturn,
            Task("connectionPromise",
                 << Connect("socket"), Opened("socket"), GetReader("socket"), GetWriter("socket"),
                    Try(
                        << readLMTPResponse("socket"), MayThrow, sendLMTPCommand("socket"), MayThrow,
                           sendLMTPCommand("socket"), Close("socket"), Return >>,
                        << Close("socket"), Throw >>) >>),
            Try(<< Race(Join("connectionPromise"), "throw"), Return >>, << Return >>) >>,
         << Return >>) >>

handleLMTPSend ==
  << MayReturn,
     Try(
         << Await, MayReturn, checkIfCloudflare, MayReturn,
            Task("sendPromise",
                 << Connect("socket"), Opened("socket"), GetReader("socket"), GetWriter("socket"),
                    Try(
                        << readLMTPResponse("socket"), MayThrow, sendLMTPCommand("socket"), MayThrow,
                           sendLMTPCommand("socket"), MayThrow, Loop(<< sendLMTPCommand("socket") >>),
                           MayThrow, sendLMTPCommand("socket"), MayThrow, Write("socket"),
                           readLMTPMultiResponse("socket"), sendLMTPCommand("socket"), Close("socket"),
                           Return >>,
                        << Close("socket"), Throw >>) >>),
            Try(<< Race(Join("sendPromise"), "throw"), Return >>, << Return >>) >>,
         << Return >>) >>

-----------------------------------------------------------------------------
\* src/src/worker/managesieve.ts

handleManageSieveConnect ==
  << MayReturn,
     Try(
         << Await, MayReturn, checkIfCloudflare, MayReturn, Connect("socket"),
            Try(
                << Race(Opened("socket"), "throw"), GetReader("socket"), readFromSocket_managesieve("socket"),
                   FreeReader("socket"), CloseQuietly("socket"), MayReturn, Return >>,
                << CloseQuietly("socket"), Throw >>) >>,
         << Return >>) >>

handleManageSieveList ==
  << MayReturn,
     Try(
         << Await, MayReturn, checkIfCloudflare, MayReturn, Connect("socket"),
            Try(
                << Race(Opened("socket"), "throw"), GetWriter("socket"), GetReader("socket"),
                   readFromSocket_managesieve("socket"),
                   Maybe(<< FreeWriter("socket"), FreeReader("socket"), CloseQuietly("socket"), Return >>),
                   Write("socket"), readFromSocket_managesieve("socket"),
                   Maybe(<< FreeWriter("socket"), FreeReader("socket"), CloseQuietly("socket"), Return >>),
                   Write("socket"), readFromSocket_managesieve("socket"), Write("socket"),
                   FreeWriter("socket"), FreeReader("socket"), CloseQuietly("socket"), Return >>,
                << CloseQuietly("socket"), Throw >>) >>,
         << Return >>) >>

handleManageSievePutScript ==
  << MayReturn,
     Try(
         << Await, MayReturn, checkIfCloudflare, MayReturn, connectAndAuth("socket"),
            Try(
                << MayThrow, Write("socket"), readFromSocket_managesieve("socket"), Write("socket"),
                   FreeWriter("socket"), FreeReader("socket"), CloseQuietly("socket"), MayReturn, Return >>,
                << CloseQuietly("socket"), Throw >>) >>,
         << Return >>) >>

handleManageSieveGetScript ==
  << MayReturn,
     Try(
         << Await, MayReturn, checkIfCloudflare, MayReturn, connectAndAuth("socket"),
            Try(
                << MayThrow, Write("socket"), readFromSocket_managesieve("socket"), Write("socket"),
                   FreeWriter("socket"), FreeReader("socket"), CloseQuietly("socket"), MayReturn, Return >>,
                << CloseQuietly("socket"), Throw >>) >>,
         << Return >>) >>

handleManageSieveDeleteScript ==
  << MayReturn,
     Try(
         << Await, MayReturn, checkIfCloudflare, MayReturn, connectAndAuth("socket"),
            Try(
                << MayThrow, Write("socket"), readFromSocket_managesieve("socket"), Write("socket"),
                   FreeWriter("socket"), FreeReader("socket"), CloseQuietly("socket"), MayReturn, Return >>,
                << CloseQuietly("socket"), Throw >>) >>,
         << Return >>) >>

handleManageSieveSetActive ==
  << MayReturn,
     Try(
         << Await, MayReturn, checkIfCloudflare, MayReturn, connectAndAuth("socket"),
            Try(
                << MayThrow, Write("socket"), readFromSocket_managesieve("socket"), Write("socket"),
                   FreeWriter("socket"), FreeReader("socket"), CloseQuietly("socket"), MayReturn, Return >>,
                << CloseQuietly("socket"), Throw >>) >>,
         << Return >>) >>

-----------------------------------------------------------------------------
\* src/src/worker/pop3.ts

handlePOP3Connect ==
  << Try(
         << MayReturn, Await, MayReturn, checkIfCloudflare, MayReturn,
            Task("connectionPromise",
                 << Connect("socket"), Opened("socket"), GetReader("socket"), GetWriter("socket"),
                    Try(
                        << readPOP3Response_pop3("socket"), MayThrow,
                           Maybe(<< sendPOP3Command_pop3("socket"), MayThrow, sendPOP3Command_pop3("socket"),
                                    MayThrow >>),
                           sendPOP3Command_pop3("socket"), Close("socket"), Return >>,
                        << Close("socket"), Throw >>) >>),
            Try(<< Race(Join("connectionPromise"), "throw"), Return >>, << Return >>) >>,
         << Return >>) >>

handlePOP3List ==
  << Try(
         << MayReturn, Await, MayReturn, checkIfCloudflare, MayReturn,
            Task("listPromise",
                 << Connect("socket"), Opened("socket"), GetReader("socket"), GetWriter("socket"),
                    Try(
                        << readPOP3Response_pop3("socket"), MayThrow, sendPOP3Command_pop3("socket"),
                           MayThrow, sendPOP3Command_pop3("socket"), MayThrow, sendPOP3Command_pop3("socket"),
                           MayThrow, Write("socket"), readPOP3MultiLine_pop3("socket"),
                           sendPOP3Command_pop3("socket"), Close("socket"), Return >>,
                        << Close("socket"), Throw >>) >>),
            Try(<< Race(Join("listPromise"), "throw"), Return >>, << Return >>) >>,
         << Return >>) >>

handlePOP3Retrieve ==
  << Try(
         << MayReturn, Await, MayReturn, checkIfCloudflare, MayReturn,
            Task("retrievePromise",
                 << Connect("socket"), Opened("socket"), GetReader("socket"), GetWriter("socket"),
                    Try(
                        << readPOP3Response_pop3("socket"), MayThrow, sendPOP3Command_pop3("socket"),
                           MayThrow, sendPOP3Command_pop3("socket"), MayThrow, Write("socket"),
                           readPOP3MultiLine_pop3("socket"), sendPOP3Command_pop3("socket"), Close("socket"),
                           Return >>,
                        << Close("socket"), Throw >>) >>),
            Try(<< Race(Join("retrievePromise"), "throw"), Return >>, << Return >>) >>,
         << Return >>) >>

handlePOP3Dele ==
  << Try(
         << MayReturn, Await, MayReturn, checkIfCloudflare, MayReturn,
            Task("delePromise",
                 << Connect("socket"), Opened("socket"), GetReader("socket"), GetWriter("socket"),
                    Try(
                        << readPOP3Response_pop3("socket"), MayThrow, sendPOP3Command_pop3("socket"),
                           MayThrow, sendPOP3Command_pop3("socket"), MayThrow, sendPOP3Command_pop3("socket"),
                           MayThrow, sendPOP3Command_pop3("socket"), Close("socket"), Return >>,
                        << Close("socket"), Throw >>) >>),
            Try(<< Race(Join("delePromise"), "throw"), Return >>, << Return >>) >>,
         << Return >>) >>

handlePOP3Uidl ==
  << Try(
         << MayReturn, Await, MayReturn, checkIfCloudflare, MayReturn,
            Task("uidlPromise",
                 << Connect("socket"), Opened("socket"), GetReader("socket"), GetWriter("socket"),
                    Try(
                        << readPOP3Response_pop3("socket"), MayThrow, sendPOP3Command_pop3("socket"),
                           MayThrow, sendPOP3Command_pop3("socket"), MayThrow, Write("socket"),
                           readPOP3MultiLine_pop3("socket"), sendPOP3Command_pop3("socket"), Close("socket"),
                           Return >>,
                        << Close("socket"), Throw >>) >>),
            Try(<< Race(Join("uidlPromise"), "throw"), Return >>, << Return >>) >>,
         << Return >>) >>

handlePOP3Top ==
  << Try(
         << MayReturn, Await, MayReturn, checkIfCloudflare, MayReturn,
            Task("topPromise",
                 << Connect("socket"), Opened("socket"), GetReader("socket"), GetWriter("socket"),
                    Try(
                        << readPOP3Response_pop3("socket"), MayThrow, sendPOP3Command_pop3("socket"),
                           MayThrow, sendPOP3Command_pop3("socket"), MayThrow, Write("socket"),
                           readPOP3MultiLine_pop3("socket"), MayThrow, sendPOP3Command_pop3("socket"),
                           Close("socket"), Return >>,
                        << Close("socket"), Throw >>) >>),
            Try(<< Race(Join("topPromise"), "throw"), Return >>, << Return >>) >>,
         << Return >>) >>

handlePOP3Capa ==
  << Try(
         << MayThrow, Maybe(<< Await >>), MayReturn, checkIfCloudflare, MayReturn,
            Task("capaPromise",
                 << Connect("socket"), Opened("socket"), GetReader("socket"), GetWriter("socket"),
                    Try(
                        << readPOP3Response_pop3("socket"), MayThrow, Write("socket"),
                           readPOP3Response_pop3("socket"),
                           Maybe(<< Write("socket"), Close("socket"), Return >>),
                           readPOP3MultiLine_pop3("socket"), Write("socket"), Close("socket"), Return >>,
                        << Close("socket"), Throw >>) >>),
            Try(<< Race(Join("capaPromise"), "throw"), Return >>, << Return >>) >>,
         << Return >>) >>

-----------------------------------------------------------------------------
\* src/src/worker/pop3s.ts

handlePOP3SConnect ==
  << Try(
         << MayReturn, Await, MayReturn, checkIfCloudflare, MayReturn,
            Task("connectionPromise",
                 << Connect("socket"), Opened("socket"), GetReader("socket"), GetWriter("socket"),
                    Try(
                        << readPOP3Response_pop3s("socket"), MayThrow,
                           Maybe(<< sendPOP3Command_pop3s("socket"), MayThrow,
                                    sendPOP3Command_pop3s("socket"),
                                    Either(<< sendPOP3Command_pop3s("socket") >>, << Throw >>) >>),
                           sendPOP3Command_pop3s("socket"), Close("socket"), Return >>,
                        << Close("socket"), Throw >>) >>),
            Try(<< Race(Join("connectionPromise"), "throw"), Return >>, << Return >>) >>,
         << Return >>) >>

handlePOP3SList ==
  << Try(
         << MayReturn, Await, MayReturn, checkIfCloudflare, MayReturn,
            Task("listPromise",
                 << Connect("socket"), Opened("socket"), GetReader("socket"), GetWriter("socket"),
                    Try(
                        << readPOP3Response_pop3s("socket"), MayThrow, sendPOP3Command_pop3s("socket"),
                           MayThrow, sendPOP3Command_pop3s("socket"), MayThrow,
                           sendPOP3Command_pop3s("socket"), MayThrow, Write("socket"),
                           readPOP3MultiLine_pop3s("socket"), sendPOP3Command_pop3s("socket"),
                           Close("socket"), Return >>,
                        << Close("socket"), Throw >>) >>),
            Try(<< Race(Join("listPromise"), "throw"), Return >>, << Return >>) >>,
         << Return >>) >>

handlePOP3SRetrieve ==
  << Try(
         << MayReturn, Await, MayReturn, checkIfCloudflare, MayReturn,
            Task("retrievePromise",
                 << Connect("socket"), Opened("socket"), GetReader("socket"), GetWriter("socket"),
                    Try(
                        << readPOP3Response_pop3s("socket"), MayThrow, sendPOP3Command_pop3s("socket"),
                           MayThrow, sendPOP3Command_pop3s("socket"), MayThrow, Write("socket"),
                           readPOP3MultiLine_pop3s("socket"), sendPOP3Command_pop3s("socket"),
                           Close("socket"), Return >>,
                        << Close("socket"), Throw >>) >>),
            Try(<< Race(Join("retrievePromise"), "throw"), Return >>, << Return >>) >>,
         << Return >>) >>

handlePOP3SDele ==
  << Try(
         << MayReturn, Await, MayReturn, checkIfCloudflare, MayReturn,
            Task("delePromise",
                 << Connect("socket"), Opened("socket"), GetReader("socket"), GetWriter("socket"),
                    Try(
                        << readPOP3Response_pop3s("socket"), MayThrow, sendPOP3Command_pop3s("socket"),
                           MayThrow, sendPOP3Command_pop3s("socket"), MayThrow,
                           sendPOP3Command_pop3s("socket"), MayThrow, sendPOP3Command_pop3s("socket"),
                           Close("socket"), Return >>,
                        << Close("socket"), Throw >>) >>),
            Try(<< Race(Join("delePromise"), "throw"), Return >>, << Return >>) >>,
         << Return >>) >>

handlePOP3SUidl ==
  << Try(
         << MayReturn, Await, MayReturn, checkIfCloudflare, MayReturn,
            Task("uidlPromise",
                 << Connect("socket"), Opened("socket"), GetReader("socket"), GetWriter("socket"),
                    Try(
                        << readPOP3Response_pop3s("socket"), MayThrow, sendPOP3Command_pop3s("socket"),
                           MayThrow, sendPOP3Command_pop3s("socket"), MayThrow, Write("socket"),
                           readPOP3MultiLine_pop3s("socket"), sendPOP3Command_pop3s("socket"),
                           Close("socket"), Return >>,
                        << Close("socket"), Throw >>) >>),
            Try(<< Race(Join("uidlPromise"), "throw"), Return >>, << Return >>) >>,
         << Return >>) >>

handlePOP3STop ==
  << Try(
         << MayReturn, Await, MayReturn, checkIfCloudflare, MayReturn,
            Task("topPromise",
                 << Connect("socket"), Opened("socket"), GetReader("socket"), GetWriter("socket"),
                    Try(
                        << readPOP3Response_pop3s("socket"), MayThrow, sendPOP3Command_pop3s("socket"),
                           MayThrow, sendPOP3Command_pop3s("socket"), MayThrow, Write("socket"),
                           readPOP3MultiLine_pop3s("socket"), MayThrow, sendPOP3Command_pop3s("socket"),
                           Close("socket"), Return >>,
                        << Close("socket"), Throw >>) >>),
            Try(<< Race(Join("topPromise"), "throw"), Return >>, << Return >>) >>,
         << Return >>) >>

handlePOP3SCapa ==
  << Try(
         << MayThrow, Maybe(<< Await >>), MayReturn, checkIfCloudflare, MayReturn,
            Task("capaPromise",
                 << Connect("socket"), Opened("socket"), GetReader("socket"), GetWriter("socket"),
                    Try(
                        << readPOP3Response_pop3s("socket"), MayThrow, Write("socket"),
                           readPOP3Response_pop3s("socket"),
                           Maybe(<< Write("socket"), Close("socket"), Return >>),
                           readPOP3MultiLine_pop3s("socket"), Write("socket"), Close("socket"), Return >>,
                        << Close("socket"), Throw >>) >>),
            Try(<< Race(Join("capaPromise"), "throw"), Return >>, << Return >>) >>,
         << Return >>) >>

-----------------------------------------------------------------------------
\* src/src/worker/smtp.ts

handleSMTPConnect ==
  << Try(
         << MayThrow, Maybe(<< Await >>), MayReturn, checkIfCloudflare, MayReturn,
            Task("connectionPromise",
                 << Connect("socket"), Opened("socket"), GetReader("socket"), GetWriter("socket"),
                    TryFinally(<< readSMTPResponse_smtp("socket"), MayThrow, sendSMTPCommand_smtp("socket"),
                                  MayThrow, sendSMTPCommand_smtp("socket"), Return >>,
                               << FreeReaderQuietly("socket"), FreeWriterQuietly("socket"),
                                  CloseQuietly("socket") >>) >>),
            Try(<< Race(Join("connectionPromise"), "throw"), Return >>, << Return >>) >>,
         << Return >>) >>

handleSMTPSend ==
  << Try(
         << MayReturn, Await, MayReturn, checkIfCloudflare, MayReturn,
            Task("sendPromise",
                 << Connect("socket"), Opened("socket"), GetReader("socket"), GetWriter("socket"),
                    TryFinally(<< readSMTPResponse_smtp("socket"), MayThrow, sendSMTPCommand_smtp("socket"),
                                  MayThrow,
                                  Maybe(<< sendSMTPCommand_smtp("socket"), MayThrow,
                                           sendSMTPCommand_smtp("socket"), MayThrow,
                                           sendSMTPCommand_smtp("socket"), MayThrow >>),
                                  sendSMTPCommand_smtp("socket"), MayThrow, sendSMTPCommand_smtp("socket"),
                                  MayThrow, sendSMTPCommand_smtp("socket"), MayThrow, Write("socket"),
                                  readSMTPResponse_smtp("socket"), MayThrow, sendSMTPCommand_smtp("socket"),
                                  Return >>,
                               << FreeReaderQuietly("socket"), FreeWriterQuietly("socket"),
                                  CloseQuietly("socket") >>) >>),
            Try(<< Race(Join("sendPromise"), "throw"), Return >>, << Return >>) >>,
         << Return >>) >>

-----------------------------------------------------------------------------
\* src/src/worker/smtps.ts

handleSMTPSConnect ==
  << Try(
         << MayReturn, Await, MayReturn, checkIfCloudflare, MayReturn,
            Task("connectionPromise",
                 << Connect("socket"), Opened("socket"), GetReader("socket"), GetWriter("socket"),
                    Try(
                        << readSMTPResponse_smtps("socket"), MayThrow, sendSMTPCommand_smtps("socket"),
                           MayThrow,
                           Maybe(<< sendSMTPCommand_smtps("socket"),
                                    Either(<< sendSMTPCommand_smtps("socket"),
                                              Either(<< sendSMTPCommand_smtps("socket"), MayThrow >>,
                                                     << Throw >>) >>,
                                           << Throw >>) >>),
                           sendSMTPCommand_smtps("socket"), Close("socket"), Return >>,
                        << Close("socket"), Throw >>) >>),
            Try(<< Race(Join("connectionPromise"), "throw"), Return >>, << Return >>) >>,
         << Return >>) >>

handleSMTPSSend ==
  << Try(
         << MayReturn, Await, MayReturn, checkIfCloudflare, MayReturn,
            Task("sendPromise",
                 << Connect("socket"), Opened("socket"), GetReader("socket"), GetWriter("socket"),
                    Try(
                        << readSMTPResponse_smtps("socket"), MayThrow, sendSMTPCommand_smtps("socket"),
                           MayThrow,
                           Maybe(<< sendSMTPCommand_smtps("socket"), MayThrow,
                                    sendSMTPCommand_smtps("socket"), MayThrow,
                                    sendSMTPCommand_smtps("socket"), MayThrow >>),
                           sendSMTPCommand_smtps("socket"), MayThrow, sendSMTPCommand_smtps("socket"),
                           MayThrow, sendSMTPCommand_smtps("socket"), MayThrow, Write("socket"),
                           readSMTPResponse_smtps("socket"), MayThrow, sendSMTPCommand_smtps("socket"),
                           Close("socket"), Return >>,
                        << Close("socket"), Throw >>) >>),
            Try(<< Race(Join("sendPromise"), "throw"), Return >>, << Return >>) >>,
         << Return >>) >>

-----------------------------------------------------------------------------
\* src/src/worker/spamd.ts

handleSpamdPing ==
  << Try(
         << Await, MayReturn, checkIfCloudflare, MayReturn, Connect("socket"),
            TryFinally(<< Race(Opened("socket"), "throw"), GetWriter("socket"), GetReader("socket"),
                          TryFinally(<< Write("socket"), readSpamdResponse("socket"), MayReturn, Return >>,
                                     << FreeWriterQuietly("socket"), FreeReaderQuietly("socket") >>) >>,
                       << When(HasSocket("socket"), << CloseQuietly("socket") >>) >>) >>,
         << Return >>) >>

handleSpamdCheck ==
  << Try(
         << Await, MayReturn, checkIfCloudflare, MayReturn, Connect("socket"),
            TryFinally(<< Race(Opened("socket"), "throw"), GetWriter("socket"), GetReader("socket"),
                          TryFinally(<< Write("socket"), Write("socket"), readSpamdResponse("socket"),
                                        MayReturn, Return >>,
                                     << FreeWriterQuietly("socket"), FreeReaderQuietly("socket") >>) >>,
                       << When(HasSocket("socket"), << CloseQuietly("socket") >>) >>) >>,
         << Return >>) >>

handleSpamdTell ==
  << Try(
         << Await, MayReturn, checkIfCloudflare, MayReturn, Connect("socket"),
            TryFinally(<< Race(Opened("socket"), "throw"), GetWriter("socket"), GetReader("socket"),
                          TryFinally(<< Write("socket"), Write("socket"), readSpamdResponse("socket"),
                                        MayReturn, Return >>,
                                     << FreeWriterQuietly("socket"), FreeReaderQuietly("socket") >>) >>,
                       << When(HasSocket("socket"), << CloseQuietly("socket") >>) >>) >>,
         << Return >>) >>

-----------------------------------------------------------------------------
\* src/src/worker/submission.ts

handleSubmissionConnect ==
  << Try(
         << MayThrow, Maybe(<< Await >>), MayReturn, checkIfCloudflare, MayReturn,
            Task("connectionPromise",
                 << Connect("socket"), Opened("socket"), GetReader("socket"), GetWriter("socket"),
                    Try(
                        << readSMTPResponse_submission("socket"), MayThrow,
                           sendSMTPCommand_submission("socket"), MayThrow,
                           sendSMTPCommand_submission("socket"), FreeReader("socket"), FreeWriter("socket"),
                           Close("socket"), Return >>,
                        << FreeReaderQuietly("socket"), FreeWriterQuietly("socket"), Close("socket"), Throw >>) >>),
            Try(<< Race(Join("connectionPromise"), "throw"), Return >>, << Return >>) >>,
         << Return >>) >>

handleSubmissionSend ==
  << Try(
         << MayReturn, Await, MayReturn, checkIfCloudflare, MayReturn,
            Task("connectionPromise",
                 << Connect("socket"), Opened("socket"), GetReader("socket"), GetWriter("socket"),
                    Try(
                        << readSMTPResponse_submission("socket"), MayThrow,
                           sendSMTPCommand_submission("socket"), MayThrow,
                           Either(<< sendSMTPCommand_submission("socket"), MayThrow, FreeReader("socket"),
                                     FreeWriter("socket"), StartTls("socket"), GetReader("socket"),
                                     GetWriter("socket"), sendSMTPCommand_submission("socket"), MayThrow,
                                     Maybe(<< doAuth_submission("socket") >>) >>,
                                  << Maybe(<< doAuth_submission("socket") >>) >>),
                           sendSMTPCommand_submission("socket"), MayThrow,
                           sendSMTPCommand_submission("socket"), MayThrow,
                           sendSMTPCommand_submission("socket"), MayThrow, Write("socket"),
                           readSMTPResponse_submission("socket"), MayThrow,
                           sendSMTPCommand_submission("socket"), FreeReader("socket"), FreeWriter("socket"),
                           Close("socket"), Return >>,
                        << FreeReaderQuietly("socket"), FreeWriterQuietly("socket"), Close("socket"), Throw >>) >>),
            Try(<< Race(Join("connectionPromise"), "throw"), Return >>, << Return >>) >>,
         << Return >>) >>

-----------------------------------------------------------------------------
EmailProgram ==
  [handleIMAPConnect |-> handleIMAPConnect,
   handleIMAPList |-> handleIMAPList,
   handleIMAPSelect |-> handleIMAPSelect,
   handleIMAPSConnect |-> handleIMAPSConnect,
   handleIMAPSList |-> handleIMAPSList,
   handleIMAPSSelect |-> handleIMAPSSelect,
   handleLMTPConnect |-> handleLMTPConnect,
   handleLMTPSend |-> handleLMTPSend,
   handleManageSieveConnect |-> handleManageSieveConnect,
   handleManageSieveList |-> handleManageSieveList,
   handleManageSievePutScript |-> handleManageSievePutScript,
   handleManageSieveGetScript |-> handleManageSieveGetScript,
   handleManageSieveDeleteScript |-> handleManageSieveDeleteScript,
   handleManageSieveSetActive |-> handleManageSieveSetActive,
   handlePOP3Connect |-> handlePOP3Connect,
   handlePOP3List |-> handlePOP3List,
   handlePOP3Retrieve |-> handlePOP3Retrieve,
   handlePOP3Dele |-> handlePOP3Dele,
   handlePOP3Uidl |-> handlePOP3Uidl,
   handlePOP3Top |-> handlePOP3Top,
   handlePOP3Capa |-> handlePOP3Capa,
   handlePOP3SConnect |-> handlePOP3SConnect,
   handlePOP3SList |-> handlePOP3SList,
   handlePOP3SRetrieve |-> handlePOP3SRetrieve,
   handlePOP3SDele |-> handlePOP3SDele,
   handlePOP3SUidl |-> handlePOP3SUidl,
   handlePOP3STop |-> handlePOP3STop,
   handlePOP3SCapa |-> handlePOP3SCapa,
   handleSMTPConnect |-> handleSMTPConnect,
   handleSMTPSend |-> handleSMTPSend,
   handleSMTPSConnect |-> handleSMTPSConnect,
   handleSMTPSSend |-> handleSMTPSSend,
   handleSpamdPing |-> handleSpamdPing,
   handleSpamdCheck |-> handleSpamdCheck,
   handleSpamdTell |-> handleSpamdTell,
   handleSubmissionConnect |-> handleSubmissionConnect,
   handleSubmissionSend |-> handleSubmissionSend]

=============================================================================
